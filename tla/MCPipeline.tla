------------------------------ MODULE MCPipeline -------------------------------
(* Small instances of the stream pipeline; a .cfg cannot write the number -1. *)
EXTENDS Pipeline

Unknown == -1
================================================================================
