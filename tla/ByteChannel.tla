------------------------------ MODULE ByteChannel ------------------------------
(***************************************************************************)
(* What ringbuffer.c promises its two users: a bounded first-in-first-out  *)
(* byte channel between one writing and one reading thread.                *)
(*                                                                         *)
(* The bytes of the stream are identified by their position: the k-th byte *)
(* ever written is the number k.  The channel holds the bytes with numbers *)
(* taken .. sent - 1, never more than Capacity of them.                    *)
(***************************************************************************)
EXTENDS Naturals

CONSTANT Capacity    \* usable bytes of the buffer

VARIABLES
  sent,     \* number of bytes written so far
  taken,    \* number of bytes read or discarded so far
  out       \* the chunk of bytes the last Receive handed to the reader

channelVars == <<sent, taken, out>>

ChannelInit ==
  /\ sent = 0
  /\ taken = 0
  /\ out = << >>

\* The writer adds n bytes that fit.
Send(n) ==
  /\ sent - taken + n <= Capacity
  /\ sent' = sent + n
  /\ UNCHANGED <<taken, out>>

\* The reader gets the n oldest bytes, in order and unchanged.
Receive(n) ==
  /\ taken + n <= sent
  /\ out' = [i \in 0 .. n - 1 |-> taken + i]
  /\ taken' = taken + n
  /\ UNCHANGED sent

\* The content is dropped as a whole.
Discard ==
  /\ taken' = sent
  /\ UNCHANGED <<sent, out>>

ChannelNext ==
  \/ \E n \in 1 .. Capacity : Send(n) \/ Receive(n)
  \/ Discard

ChannelSpec == ChannelInit /\ [][ChannelNext]_channelVars
================================================================================
