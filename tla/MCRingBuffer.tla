----------------------------- MODULE MCRingBuffer ------------------------------
(* A ring of 4 bytes (what ringbuffer_create makes of a request for 3), with *)
(* requests below, at and above its capacity of 3.                           *)
EXTENDS RingBufferProofs

MCSize == CreateSize(3)
================================================================================
