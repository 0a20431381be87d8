-------------------------------- MODULE Remuxer --------------------------------
(***************************************************************************)
(* The conversion in mp_RemuxStream, vdrviewer.cpp: the PES packets of the *)
(* server, read in place from the input ring, are cut into transport       *)
(* stream packets for the DVB driver.  The rings are byte sequences        *)
(* (RingBuffer proves that they are bounded FIFO channels); the server     *)
(* appends to the one, the player takes whole blocks from the other, at    *)
(* any moment between two ring operations of remux.  Resets are left to    *)
(* Pipeline.  Bytes are unsigned, as char is on the PowerPC of the box.    *)
(***************************************************************************)
EXTENDS Integers, Sequences, SequencesExt, FiniteSetsExt

CONSTANTS
  PayloadSize,   \* bytes of a PES packet per TS packet: 184
  MinIn, MinOut, \* bytes readable, room needed before a packet is touched: 2048, 2256
  OutCap,        \* bytes that fit in ringbuf_out
  BlockSize,     \* bytes that the player reads at once: 100 TS packets
  CounterSize,   \* values of a continuity counter: 16
  Scripts        \* what the server may send: sequences of PES packets and garbage

HeaderSize == 4
PacketSize == HeaderSize + PayloadSize

\* Stream ids, and the PIDs of the decoder's filters.
IsAudio(id) == id \in 192 .. 223 \/ id = 189
IsVideo(id) == id \in 224 .. 239
PaddingId == 190
AudioPid == 100
VideoPid == 99

\* The length of the PES packet that s starts with.
PesLength(s) == 256 * s[5] + s[6] + 6

\* TS packets for n bytes of PES, and their size.
PacketCount(n) == n \div PayloadSize + IF n % PayloadSize > 0 THEN 1 ELSE 0

\* "This is not exact, but it works" (vdrviewer.cpp:1330), as long as the PES
\* packets of the server fit in MinIn bytes, and their TS packets in MinOut.
ASSUME SizeAssumption ==
  /\ PayloadSize \in Nat \ {0, 1} /\ {MinIn, MinOut, OutCap, BlockSize} \subseteq Nat
  /\ MinIn >= 6
  /\ MinOut >= PacketCount(MinIn) * PacketSize /\ OutCap >= BlockSize + MinOut
  /\ CounterSize \in 1 .. 16
  /\ BlockSize > 0 /\ BlockSize % PacketSize = 0
ASSUME ScriptAssumption ==
  \A script \in Scripts :
    /\ script \in Seq(Seq(0 .. 255) \ {<< >>})
    /\ \A k \in DOMAIN script :
         IsPrefix(<<0, 0, 1>>, script[k]) =>
           Len(script[k]) = PesLength(script[k]) /\ Len(script[k]) <= MinIn

VARIABLES
  sent, pending,   \* server: the script, and what of it is still to come
  in, out,         \* ringbuf_in, ringbuf_out
  pc, i,           \* remux: position, TS packet of the current PES packet
  counters,        \* acc and vcc, by PID
  isAC3,           \* g_iIsAC3
  played           \* history: what the player took

vars == <<sent, pending, in, out, pc, i, counters, isAC3, played>>

Init ==
  /\ sent \in Scripts
  /\ pending = FlattenSeq(sent)
  /\ in = << >> /\ out = << >>
  /\ pc = "top" /\ i = 0
  /\ counters = [pid \in {AudioPid, VideoPid} |-> 0]
  /\ isAC3 = FALSE
  /\ played = << >>

--------------------------------------------------------------------------------
(***************************************************************************)
(* The other threads, as far as the rings are concerned.                   *)
(***************************************************************************)
\* The receiver stores what the server sent, in pieces of any size.
Feed ==
  /\ \E n \in 1 .. Len(pending) :
       /\ in' = in \o SubSeq(pending, 1, n)
       /\ pending' = SubSeq(pending, n + 1, Len(pending))
  /\ UNCHANGED <<sent, out, pc, i, counters, isAC3, played>>

\* The player writes whole blocks of readSize bytes to the DVR device.
Take ==
  /\ Len(out) >= BlockSize
  /\ played' = played \o SubSeq(out, 1, BlockSize)
  /\ out' = SubSeq(out, BlockSize + 1, Len(out))
  /\ UNCHANGED <<sent, pending, in, pc, i, counters, isAC3>>

--------------------------------------------------------------------------------
(***************************************************************************)
(* mp_RemuxStream.                                                         *)
(***************************************************************************)
RemuxKeeps(v) == UNCHANGED v /\ UNCHANGED <<sent, pending, played>>

\* ringbuffer_read_advance, ringbuffer_write (which stores what there is room for).
\* More than there is can be given back only for a packet that is not Tame; read_ptr
\* would then pass write_ptr, and the ring seem full, where here it is empty.
After(n) == SubSeq(in, n + 1, Len(in))
Put(bytes) == out \o SubSeq(bytes, 1, Min({Len(bytes), OutCap - Len(out)}))

StartCode == IsPrefix(<<0, 0, 1>>, in)
Id == in[4]

\* Mutant: the room in the output ring is not looked at.
MayStartUnroomed == pc = "top" /\ Len(in) >= 6 /\ Len(in) >= MinIn

MayStart ==
  /\ pc = "top" /\ Len(in) >= 6
  /\ Len(in) >= MinIn /\ OutCap - Len(out) >= MinOut

\* No start code: drop bytes until there is one, or less than three are left.
ScanStart ==
  /\ MayStart /\ ~ StartCode
  /\ pc' = "scan"
  /\ RemuxKeeps(<<in, out, i, counters, isAC3>>)

Scan ==
  /\ pc = "scan"
  /\ in' = After(1)
  /\ pc' = IF Len(in') >= 3 /\ SubSeq(in', 1, 3) # <<0, 0, 1>> THEN "scan" ELSE "top"
  /\ RemuxKeeps(<<out, i, counters, isAC3>>)

DropPadding ==
  /\ MayStart /\ StartCode /\ Id = PaddingId
  /\ in' = After(PesLength(in))
  /\ RemuxKeeps(<<out, pc, i, counters, isAC3>>)

\* Mutant: the packet stays where it is.
DropUnknownForgotten ==
  /\ MayStart /\ StartCode
  /\ ~ IsAudio(Id) /\ ~ IsVideo(Id) /\ Id # PaddingId
  /\ RemuxKeeps(<<in, out, pc, i, counters, isAC3>>)

\* Of an unknown packet one byte goes; the rest is scanned for a start code.
DropUnknown ==
  /\ MayStart /\ StartCode
  /\ ~ IsAudio(Id) /\ ~ IsVideo(Id) /\ Id # PaddingId
  /\ in' = After(1)
  /\ RemuxKeeps(<<out, pc, i, counters, isAC3>>)

\* An audio or video packet, once it is there as a whole.
StartPacket ==
  /\ MayStart /\ StartCode /\ (IsAudio(Id) \/ IsVideo(Id))
  /\ isAC3' = IF IsAudio(Id) THEN Id = 189 ELSE isAC3
  /\ IF Len(in) >= PesLength(in) THEN pc' = "head" /\ i' = 0 ELSE UNCHANGED <<pc, i>>
  /\ RemuxKeeps(<<in, out, counters>>)

Pid == IF IsAudio(Id) THEN AudioPid ELSE VideoPid
UnitStart == IF i = 0 THEN 64 ELSE 0
Rest == PesLength(in) - i * PayloadSize

\* Mutant: one stuffing byte too many.
LastHeaderLong ==
  <<71, UnitStart, Pid, 48 + counters[Pid], PayloadSize - Rest>>
    \o [k \in 1 .. PayloadSize - Rest |-> IF k = 1 THEN 0 ELSE 255]

\* The header of a full packet, and of the last one, which is stuffed.
FullHeader == <<71, UnitStart, Pid, 16 + counters[Pid]>>
LastHeader ==
  <<71, UnitStart, Pid, 48 + counters[Pid], PayloadSize - 1 - Rest>>
    \o [k \in 1 .. PayloadSize - 1 - Rest |-> IF k = 1 THEN 0 ELSE 255]

\* Mutant: the counter is not cut to its field.
CountUnmasked == [counters EXCEPT ![Pid] = @ + 1]
\* Mutant: audio and video share a counter.
CountShared == [pid \in DOMAIN counters |-> (counters[pid] + 1) % CounterSize]
Count == [counters EXCEPT ![Pid] = (@ + 1) % CounterSize]

\* The two ringbuffer_write calls for a TS packet.
WriteHeader ==
  /\ pc = "head" /\ Rest > 0
  /\ out' = Put(IF Rest >= PayloadSize THEN FullHeader ELSE LastHeader)
  /\ counters' = Count
  /\ pc' = "data"
  /\ RemuxKeeps(<<in, i, isAC3>>)

WriteData ==
  /\ pc = "data"
  /\ out' = Put(SubSeq(in, i * PayloadSize + 1,
                       i * PayloadSize + IF Rest >= PayloadSize THEN PayloadSize ELSE Rest))
  /\ i' = i + 1
  /\ pc' = "head"
  /\ RemuxKeeps(<<in, counters, isAC3>>)

EndPacket ==
  /\ pc = "head" /\ Rest <= 0
  /\ in' = After(PesLength(in))
  /\ i' = 0 /\ pc' = "top"
  /\ RemuxKeeps(<<out, counters, isAC3>>)

Remux ==
  \/ ScanStart \/ Scan \/ DropPadding \/ DropUnknown \/ StartPacket
  \/ WriteHeader \/ WriteData \/ EndPacket

Next == Feed \/ Take \/ Remux

Spec == Init /\ [][Next]_vars

\* The receiver and the player do their part, and remux polls.
FairSpec == Spec /\ WF_vars(Feed) /\ WF_vars(Take) /\ WF_vars(Remux)

--------------------------------------------------------------------------------
(***************************************************************************)
(* The reference: a transport stream demultiplexer.                        *)
(***************************************************************************)
\* The k-th TS packet of a stream, its payload, and what a PID carries.
TsPacket(s, k) == SubSeq(s, (k - 1) * PacketSize + 1, k * PacketSize)
TsPackets(s) == [k \in 1 .. Len(s) \div PacketSize |-> TsPacket(s, k)]
Payload(p) == SubSeq(p, IF p[4] >= 48 THEN 6 + p[5] ELSE 5, PacketSize)
Carried(ps, pid) ==
  FlattenSeq([k \in DOMAIN ps |-> IF ps[k][3] = pid THEN Payload(ps[k]) ELSE << >>])

\* What the first n pieces of the script bring for a PID.
IsPes(chunk) == Len(chunk) >= 6 /\ IsPrefix(<<0, 0, 1>>, chunk)
IsFor(chunk, pid) ==
  IsPes(chunk) /\ IF pid = AudioPid THEN IsAudio(chunk[4]) ELSE IsVideo(chunk[4])
Brought(n, pid) ==
  FlattenSeq([k \in 1 .. n |-> IF IsFor(sent[k], pid) THEN sent[k] ELSE << >>])

Stream == TsPackets(played \o out)
Pids == {AudioPid, VideoPid}

(***************************************************************************)
(* Properties.                                                             *)
(***************************************************************************)
TypeOK ==
  /\ in \in Seq(0 .. 255) /\ Len(out) <= OutCap
  /\ pc \in {"top", "scan", "head", "data"} /\ i \in Nat
  /\ pc \in {"head", "data"} => PesLength(in) <= Len(in)
  /\ counters \in [Pids -> 0 .. CounterSize - 1]
  /\ isAC3 \in BOOLEAN

\* A TS packet is written in two pieces, and read in blocks by another thread:
\* each block the driver gets (vdrviewer.cpp:1660) is whole TS packets.
BlocksAligned ==
  \A k \in DOMAIN TsPackets(played) : played[(k - 1) * PacketSize + 1] = 71

\* What the driver's filter for a PID gets is what the server sent for it, byte
\* for byte and in order: garbage, padding and unknown streams are gone, nothing
\* else is, and nothing is cut off by a full ring.
PesArrives ==
  \A pid \in Pids : IsPrefix(Carried(Stream, pid), Brought(Len(sent), pid))

\* The counter of a PID goes up by one from packet to packet, and a packet is
\* marked as a start exactly if all before it is whole PES packets.
PacketsMarked ==
  LET ps == Stream IN \A k \in DOMAIN ps :
    /\ \A j \in 1 .. k - 1 :
         ps[j][3] = ps[k][3] /\ (\A l \in j + 1 .. k - 1 : ps[l][3] # ps[k][3]) =>
           ps[k][4] % 16 = ((ps[j][4] % 16) + 1) % CounterSize
    /\ ps[k][2] = 64 <=> \E n \in 0 .. Len(sent) :
         Carried(SubSeq(ps, 1, k - 1), ps[k][3]) = Brought(n, ps[k][3])

\* Whatever garbage comes, remux gets through all that the server sent, but for
\* the last bytes that do not make MinIn.
KeepsUp == pending = << >> ~> Len(in) < MinIn
================================================================================
