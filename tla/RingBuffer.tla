------------------------------ MODULE RingBuffer -------------------------------
(***************************************************************************)
(* The lock-free ring buffer of ringbuffer.c with one writing and one      *)
(* reading thread, at the granularity of its shared accesses.              *)
(*                                                                         *)
(* Neither pointer update is atomic: "ptr += n; ptr &= size_mask" on a     *)
(* volatile field is two stores, so the other thread can see a pointer     *)
(* that has left the buffer (up to 2 * size - 1).  One look at such a      *)
(* pointer is harmless, a second look during the same update is not:       *)
(* LongStall says whether the model lets a thread be held up between the   *)
(* two stores long enough for the other to begin a second call.            *)
(*                                                                         *)
(* The memcpy of a segment is one step; NoOverlap, which says that the     *)
(* bytes the two threads touch are disjoint for as long as each may touch  *)
(* them, is what makes that granularity enough.                            *)
(*                                                                         *)
(* A byte is identified by its position in the stream the writer sends, so *)
(* a byte lost, repeated, torn or out of order is visible in its value.    *)
(***************************************************************************)
EXTENDS Integers

CONSTANTS
  Size,        \* rb->size, a power of two that ringbuffer_create computes
  Requests,    \* the values of `cnt' that callers pass
  MaxBytes,    \* bound: the stream has at most MaxBytes bytes
  LongStall    \* may a thread look twice into one half-done update

ASSUME SizeAssumption == Size \in Nat /\ Size >= 2
ASSUME RequestsAssumption == Requests \subseteq Nat \ {0}
ASSUME MaxBytesAssumption == MaxBytes \in Nat
ASSUME LongStallAssumption == LongStall \in BOOLEAN

VARIABLES
  buf,         \* rb->buf
  write_ptr,   \* rb->write_ptr
  read_ptr,    \* rb->read_ptr
  wpc,         \* where the writing thread is
  wn1, wn2,    \* the writer's first and second segment (n1, n2)
  rpc,         \* where the reading thread is
  rn1, rn2,    \* the reader's first and second segment
  dest,        \* bytes the reader has copied or looked at
  wseen,       \* history: the reader looked during the writer's update
  rseen,       \* history: the writer looked during the reader's update
  sent,        \* history: bytes published by a write_ptr store
  taken,       \* history: bytes given back by a read_ptr store or a reset
  out          \* history: the chunk consumed by the last read_ptr store

writer == <<wpc, wn1, wn2>>
reader == <<rpc, rn1, rn2>>
seen == <<wseen, rseen>>
vars == <<buf, write_ptr, read_ptr, writer, reader, dest, seen, sent, taken, out>>

Index == 0 .. Size - 1

--------------------------------------------------------------------------------
(***************************************************************************)
(* The arithmetic.  "x & size_mask" with size a power of two is x % Size.  *)
(***************************************************************************)

\* The buffer size for a request of sz bytes: the loop of ringbuffer_create.
CreateSize(sz) ==
  2 ^ (CHOOSE p \in 1 .. 30 : 2 ^ p >= sz /\ \A q \in 1 .. p - 1 : 2 ^ q < sz)

\* Mutant: the mask is forgotten.
MaskForgotten(p) == p

Masked(p) == p % Size

\* Mutant: content that wraps around is not seen.
ReadSpaceNoWrap(w, r) == IF w > r THEN w - r ELSE 0

ReadSpace(w, r) == IF w > r THEN w - r ELSE Masked(w - r + Size)

\* Mutant: the byte that tells a full ring from an empty one is given away.
WriteSpaceAll(w, r) ==
  IF w > r THEN Masked(r - w + Size) ELSE IF w < r THEN r - w ELSE Size - 1

WriteSpace(w, r) ==
  IF w > r THEN Masked(r - w + Size) - 1
  ELSE IF w < r THEN (r - w) - 1
  ELSE Size - 1

\* Mutant: the request is not cut to the space.
RequestUncut(cnt, space) == cnt

AtMost(cnt, space) == IF cnt > space THEN space ELSE cnt

\* The contiguous part and the wrapped part of n bytes from pointer p on.
Segment1(p, n) == IF p + n > Size THEN Size - p ELSE n
Segment2(p, n) == IF p + n > Size THEN Masked(p + n) ELSE 0

\* Mutant: the second part of the vector is left out.
ReadVectorFirst(w, r) == <<Segment1(r, ReadSpace(w, r)), 0>>

\* The lengths that ringbuffer_get_read_vector and _write_vector return.
ReadVector(w, r) ==
  <<Segment1(r, ReadSpace(w, r)), Segment2(r, ReadSpace(w, r))>>
WriteVector(w, r) ==
  <<Segment1(w, WriteSpace(w, r)), Segment2(w, WriteSpace(w, r))>>

--------------------------------------------------------------------------------
Init ==
  /\ buf = [i \in Index |-> -1]
  /\ write_ptr = 0 /\ read_ptr = 0
  /\ wpc = "idle" /\ wn1 = 0 /\ wn2 = 0
  /\ rpc = "idle" /\ rn1 = 0 /\ rn2 = 0
  /\ dest = << >> /\ out = << >>
  /\ wseen = FALSE /\ rseen = FALSE
  /\ sent = 0 /\ taken = 0

--------------------------------------------------------------------------------
(***************************************************************************)
(* The writing thread.                                                     *)
(***************************************************************************)
MayWrite(cnt) ==
  /\ wpc = "idle"
  /\ rpc # "reset"                    \* the callers' duty around a reset
  /\ sent + cnt <= MaxBytes
  /\ WriteSpace(write_ptr, read_ptr) > 0
  /\ LongStall \/ ~ rseen
  /\ rseen' = (rpc = "mask")

\* ringbuffer_write: look at the space, once, and split the request.
BeginWrite(cnt) ==
  LET n == AtMost(cnt, WriteSpace(write_ptr, read_ptr)) IN
  /\ MayWrite(cnt)
  /\ wpc' = "copy"
  /\ wn1' = Segment1(write_ptr, n)
  /\ wn2' = Segment2(write_ptr, n)
  /\ UNCHANGED <<buf, write_ptr, read_ptr, reader, dest, wseen, sent, taken, out>>

\* ringbuffer_get_writepointer: a window in place, refused when it would wrap.
BeginDirectWrite(cnt) ==
  LET n == AtMost(cnt, WriteSpace(write_ptr, read_ptr)) IN
  /\ MayWrite(cnt)
  /\ write_ptr + n <= Size
  /\ wpc' = "fill"
  /\ wn1' = n
  /\ wn2' = 0
  /\ UNCHANGED <<buf, write_ptr, read_ptr, reader, dest, wseen, sent, taken, out>>

Stored(n) ==
  [i \in Index |-> IF i \in write_ptr .. write_ptr + n - 1
                   THEN sent + (i - write_ptr) ELSE buf[i]]

\* memcpy of the current segment.
CopyIn ==
  /\ wpc = "copy"
  /\ buf' = Stored(wn1)
  /\ wpc' = "add"
  /\ UNCHANGED <<write_ptr, read_ptr, wn1, wn2, reader, dest, seen, sent, taken, out>>

\* The caller puts m bytes in the window (a short read of the socket) and
\* calls ringbuffer_write_advance with m, or drops the window.
Fill(m) ==
  /\ wpc = "fill"
  /\ m <= wn1
  /\ buf' = Stored(m)
  /\ wpc' = IF m = 0 THEN "idle" ELSE "add"
  /\ wn1' = m
  /\ UNCHANGED <<write_ptr, read_ptr, wn2, reader, dest, seen, sent, taken, out>>

\* write_ptr += n
AddWrite ==
  /\ wpc = "add"
  /\ write_ptr' = write_ptr + wn1
  /\ sent' = sent + wn1
  /\ wpc' = "mask"
  /\ wseen' = FALSE
  /\ UNCHANGED <<buf, read_ptr, wn1, wn2, reader, dest, taken, out, rseen>>

\* write_ptr &= size_mask, then the second segment or the return.
MaskWrite ==
  /\ wpc = "mask"
  /\ write_ptr' = Masked(write_ptr)
  /\ wpc' = IF wn2 > 0 THEN "copy" ELSE "idle"
  /\ wn1' = wn2
  /\ wn2' = 0
  /\ wseen' = FALSE
  /\ UNCHANGED <<buf, read_ptr, reader, dest, rseen, sent, taken, out>>

WriterStep == CopyIn \/ (\E m \in 0 .. Size : Fill(m)) \/ AddWrite \/ MaskWrite
Writer ==
  \/ \E cnt \in Requests : BeginWrite(cnt) \/ BeginDirectWrite(cnt)
  \/ WriterStep

--------------------------------------------------------------------------------
(***************************************************************************)
(* The reading thread.                                                     *)
(***************************************************************************)
MayRead ==
  /\ rpc = "idle"
  /\ ReadSpace(write_ptr, read_ptr) > 0
  /\ LongStall \/ ~ wseen
  /\ wseen' = (wpc = "mask")

\* ringbuffer_read: look at the readable bytes, once, and split the request.
BeginRead(cnt) ==
  LET n == AtMost(cnt, ReadSpace(write_ptr, read_ptr)) IN
  /\ MayRead
  /\ rpc' = "copy"
  /\ rn1' = Segment1(read_ptr, n)
  /\ rn2' = Segment2(read_ptr, n)
  /\ UNCHANGED <<buf, write_ptr, read_ptr, writer, dest, rseen, sent, taken, out>>

\* ringbuffer_get_readpointer: bytes that wrap go through helpbuf, the others
\* are handed out in place.
Peek(cnt) ==
  LET n == AtMost(cnt, ReadSpace(write_ptr, read_ptr)) IN
  /\ MayRead
  /\ rpc' = IF Segment2(read_ptr, n) > 0 THEN "help" ELSE "held"
  /\ rn1' = n
  /\ rn2' = 0
  /\ UNCHANGED <<buf, write_ptr, read_ptr, writer, dest, rseen, sent, taken, out>>

\* Mutant: the copy starts at the beginning of the buffer.
CopyOutFromStart ==
  /\ rpc = "copy"
  /\ dest' = [i \in 0 .. rn1 - 1 |-> buf[i]]
  /\ rpc' = "add"
  /\ UNCHANGED <<buf, write_ptr, read_ptr, writer, rn1, rn2, seen, sent, taken, out>>

\* memcpy of the current segment to the caller.
CopyOut ==
  /\ rpc = "copy"
  /\ dest' = [i \in 0 .. rn1 - 1 |-> buf[read_ptr + i]]
  /\ rpc' = "add"
  /\ UNCHANGED <<buf, write_ptr, read_ptr, writer, rn1, rn2, seen, sent, taken, out>>

\* The two memcpy to helpbuf.
CopyHelp ==
  /\ rpc = "help"
  /\ dest' = [i \in 0 .. rn1 - 1 |-> buf[Masked(read_ptr + i)]]
  /\ rpc' = "helped"
  /\ UNCHANGED <<buf, write_ptr, read_ptr, writer, rn1, rn2, seen, sent, taken, out>>

\* The caller uses m of the bytes it looked at and calls
\* ringbuffer_read_advance with m, or leaves them all.
UseHeld(m) ==
  /\ rpc = "held"
  /\ m <= rn1
  /\ dest' = [i \in 0 .. m - 1 |-> buf[read_ptr + i]]
  /\ rpc' = IF m = 0 THEN "idle" ELSE "add"
  /\ rn1' = m
  /\ UNCHANGED <<buf, write_ptr, read_ptr, writer, rn2, seen, sent, taken, out>>

UseHelped(m) ==
  /\ rpc = "helped"
  /\ m <= rn1
  /\ dest' = [i \in 0 .. m - 1 |-> dest[i]]
  /\ rpc' = IF m = 0 THEN "idle" ELSE "add"
  /\ rn1' = m
  /\ UNCHANGED <<buf, write_ptr, read_ptr, writer, rn2, seen, sent, taken, out>>

\* read_ptr += n
AddRead ==
  /\ rpc = "add"
  /\ read_ptr' = read_ptr + rn1
  /\ taken' = taken + rn1
  /\ out' = dest
  /\ rpc' = "mask"
  /\ rseen' = FALSE
  /\ UNCHANGED <<buf, write_ptr, writer, rn1, rn2, dest, sent, wseen>>

\* read_ptr &= size_mask, then the second segment or the return.
MaskRead ==
  /\ rpc = "mask"
  /\ read_ptr' = Masked(read_ptr)
  /\ rpc' = IF rn2 > 0 THEN "copy" ELSE "idle"
  /\ rn1' = rn2
  /\ rn2' = 0
  /\ rseen' = FALSE
  /\ UNCHANGED <<buf, write_ptr, writer, dest, wseen, sent, taken, out>>

\* ringbuffer_reset is two stores.  "This is not thread safe": the callers'
\* duty is that the writer is outside the ring and stays there.
BeginReset ==
  /\ rpc = "idle"
  /\ wpc = "idle"
  /\ read_ptr' = 0
  /\ taken' = sent
  /\ rpc' = "reset"
  /\ UNCHANGED <<buf, write_ptr, writer, rn1, rn2, dest, sent, out, seen>>

EndReset ==
  /\ rpc = "reset"
  /\ write_ptr' = 0
  /\ rpc' = "idle"
  /\ UNCHANGED <<buf, read_ptr, writer, rn1, rn2, dest, seen, sent, taken, out>>

ReaderStep ==
  \/ CopyOut \/ CopyHelp \/ AddRead \/ MaskRead \/ EndReset
  \/ \E m \in 0 .. Size : UseHeld(m) \/ UseHelped(m)
Reader ==
  \/ \E cnt \in Requests : BeginRead(cnt) \/ Peek(cnt)
  \/ ReaderStep
  \/ BeginReset

--------------------------------------------------------------------------------
Next == Writer \/ Reader

Spec == Init /\ [][Next]_vars

\* Neither thread stops in the middle of a call; the reading thread polls the
\* ring in a loop and, however often it only looks, uses bytes again and again.
FairSpec ==
  /\ Spec
  /\ WF_vars(WriterStep)
  /\ WF_vars(ReaderStep)
  /\ WF_vars(\E cnt \in Requests : BeginRead(cnt) \/ Peek(cnt))
  /\ SF_vars(\E m \in 1 .. Size : UseHeld(m) \/ UseHelped(m))

--------------------------------------------------------------------------------
(***************************************************************************)
(* Properties.                                                             *)
(***************************************************************************)

\* Every variable has its type; a pointer leaves the buffer only between the
\* two stores of an update (ringbuffer.c:234, 274, 291, 300).
TypeOK ==
  /\ buf \in [Index -> Int]
  /\ write_ptr \in 0 .. Size
  /\ read_ptr \in 0 .. 2 * Size - 1
  /\ wpc \in {"idle", "copy", "fill", "add", "mask"}
  /\ rpc \in {"idle", "copy", "held", "help", "helped", "add", "mask", "reset"}
  /\ wn1 \in 0 .. Size - 1 /\ wn2 \in 0 .. Size - 1
  /\ rn1 \in 0 .. Size - 1 /\ rn2 \in 0 .. Size - 1
  /\ wseen \in BOOLEAN /\ rseen \in BOOLEAN
  /\ sent \in Nat /\ taken \in Nat
  /\ wpc # "mask" => write_ptr \in Index
  /\ rpc # "mask" => read_ptr \in Index

\* The bytes a writer is storing and the bytes a reader is copying, or was
\* handed a pointer to, are never the same (the claim of ringbuffer.c:20).
WriterTouches ==
  IF wpc \in {"copy", "fill"}
  THEN {Masked(write_ptr + i) : i \in 0 .. wn1 + wn2 - 1} ELSE {}
ReaderTouches ==
  IF rpc \in {"copy", "held", "help"}
  THEN {Masked(read_ptr + i) : i \in 0 .. rn1 + rn2 - 1} ELSE {}
NoOverlap == WriterTouches \cap ReaderTouches = {}

\* Whatever instant a thread samples the two pointers at, also between the two
\* stores of the other thread's update (once per update), it computes the exact
\* number of bytes in the ring or free in it (ringbuffer_read_space and
\* ringbuffer_write_space, ringbuffer.c:94-128).
SpaceExact ==
  /\ rpc = "idle" /\ ~ wseen => ReadSpace(write_ptr, read_ptr) = sent - taken
  /\ wpc = "idle" /\ ~ rseen /\ rpc # "reset" =>
        WriteSpace(write_ptr, read_ptr) = Size - 1 - (sent - taken)

\* The vectors of the non-copying interface cover the readable, resp. the
\* writeable, bytes whenever their thread asks for them.
VectorsCover ==
  /\ rpc = "idle" /\ ~ wseen =>
       LET v == ReadVector(write_ptr, read_ptr)
       IN  v[1] + v[2] = sent - taken /\ (v[2] > 0 => read_ptr + v[1] = Size)
  /\ wpc = "idle" /\ ~ rseen /\ rpc # "reset" =>
       LET v == WriteVector(write_ptr, read_ptr)
       IN  /\ v[1] + v[2] = Size - 1 - (sent - taken)
           /\ v[2] > 0 => write_ptr + v[1] = Size

\* The ring implements the bounded FIFO channel: the reader consumes exactly
\* the bytes written, in order, whatever the wrap-arounds and interleavings.
Channel == INSTANCE ByteChannel WITH Capacity <- Size - 1
ImplementsChannel == Channel!ChannelSpec

\* Every byte that is written is read or discarded in the end.
Delivered == \A n \in 1 .. MaxBytes : sent >= n ~> taken >= n
================================================================================
