------------------------------- MODULE MCRemuxer -------------------------------
(***************************************************************************)
(* Remuxer for TLC.  A TS packet carries 7 bytes instead of 184, a PES     *)
(* packet at most 13.  Its last TS packet has a rest of 6 bytes (nothing   *)
(* but the length of the stuffing), 1 (the most stuffing), 6 after a full  *)
(* packet, or there is none.                                               *)
(***************************************************************************)
EXTENDS RemuxerProofs

Pes(id, n) == <<0, 0, 1, id, 0, n>> \o [k \in 1 .. n |-> 10 + k]

Audio == {Pes(192, 1), Pes(189, 0)}
Video == {Pes(224, 7), Pes(224, 2)}
Dropped == {Pes(PaddingId, 2), Pes(191, 1), <<0, 0, 0>>, <<9, 0>>}
Chunks == Audio \cup Video \cup Dropped

\* A packet that lets remux see the end of the ones before it.
Tail13 == Pes(PaddingId, 7)

\* Three packets or pieces of garbage.
MCScripts == {<<a, b, c, Tail13>> : a \in Chunks, b \in Chunks, c \in Chunks}

\* The theorems about Remuxer are about such scripts.
ASSUME MCScriptsAssumption == Tame /\ Clear
================================================================================
