--------------------------- MODULE RingBufferProofs ---------------------------
(***************************************************************************)
(* Proofs about RingBuffer for every buffer size, every set of request     *)
(* sizes and streams of any length, as long as no thread is held up        *)
(* between the two stores of a pointer update while the other one looks    *)
(* twice (LongStall = FALSE; with LongStall = TRUE they are false, as the  *)
(* run ring_stall shows).                                                  *)
(***************************************************************************)
EXTENDS RingBuffer, TLAPS

--------------------------------------------------------------------------------
(***************************************************************************)
(* The inductive invariant.  A pointer between the two stores of its       *)
(* update stands for the position Wrapped(pointer).                        *)
(***************************************************************************)
Wrapped(p) == IF p >= Size THEN p - Size ELSE p

Occupied == sent - taken
Free == Size - 1 - Occupied
W == Wrapped(write_ptr)
R == Wrapped(read_ptr)

\* Bytes that a thread will still publish, resp. give back, before it looks at
\* the pointers again.
WPending ==
  IF wpc \in {"copy", "add"} THEN wn1 + wn2
  ELSE IF wpc = "fill" THEN wn1
  ELSE IF wpc = "mask" THEN wn2 ELSE 0
RPending ==
  IF rpc \in {"copy", "add"} THEN rn1 + rn2
  ELSE IF rpc \in {"held", "help", "helped"} THEN rn1
  ELSE IF rpc = "mask" THEN rn2 ELSE 0

Positions ==
  /\ Occupied \in 0 .. Size - 1
  /\ rpc # "reset" => W = R + Occupied \/ W = R + Occupied - Size
  /\ rpc = "reset" => wpc = "idle" /\ Occupied = 0 /\ read_ptr = 0

\* The ring holds the bytes with the numbers taken .. sent - 1, from R on.
Content ==
  \A i \in Index :
    /\ R <= i /\ i < R + Occupied => buf[i] = taken + (i - R)
    /\ i + Size < R + Occupied => buf[i] = taken + (i + Size - R)

WriterSegments ==
  /\ WPending <= Free
  /\ wpc # "idle" => wn1 >= 1
  /\ wpc \in {"copy", "fill", "add"} => write_ptr + wn1 <= Size
  /\ wpc \in {"copy", "add"} /\ wn2 > 0 => write_ptr + wn1 = Size
  /\ wpc = "mask" /\ wn2 > 0 => write_ptr = Size
  /\ wpc = "fill" => wn2 = 0

NewBytes ==
  wpc = "add" =>
    \A i \in Index : write_ptr <= i /\ i < write_ptr + wn1 =>
                        buf[i] = sent + (i - write_ptr)

\* A reader that has not looked since the first store of the writer's update
\* will not take the bytes that this store published.
WriterUpdate ==
  /\ wseen => wpc = "mask"
  /\ wpc = "mask" /\ ~ wseen => RPending + wn1 <= Occupied

ReaderSegments ==
  /\ RPending <= Occupied
  /\ rpc \notin {"idle", "reset"} => rn1 >= 1
  /\ rpc \in {"copy", "held"} => read_ptr + rn1 <= Size
  /\ rpc \in {"copy", "add"} /\ rn2 > 0 => read_ptr + rn1 = Size
  /\ rpc = "mask" /\ rn2 > 0 => read_ptr = Size
  /\ rpc \in {"held", "help", "helped"} => rn2 = 0

OldBytes == rpc \in {"add", "helped"} => dest = [i \in 0 .. rn1 - 1 |-> taken + i]

ReaderUpdate ==
  /\ rseen => rpc = "mask"
  /\ rpc = "mask" => read_ptr - rn1 \in Index
  /\ rpc = "mask" /\ ~ rseen => WPending + rn1 <= Free

IInv ==
  /\ TypeOK
  /\ Positions
  /\ Content
  /\ WriterSegments
  /\ NewBytes
  /\ WriterUpdate
  /\ ReaderSegments
  /\ OldBytes
  /\ ReaderUpdate

--------------------------------------------------------------------------------
(***************************************************************************)
(* Lemmas about the arithmetic.                                            *)
(***************************************************************************)

\* The mask takes off one turn of the ring at most.
LEMMA MaskedIsWrapped ==
  ASSUME NEW p \in 0 .. 2 * Size - 1
  PROVE  Masked(p) = Wrapped(p) /\ Masked(p) \in Index
<1>1. CASE p < Size
  <2>1. p % Size = p
    BY <1>1, SizeAssumption
  <2> QED
    BY <2>1, <1>1, SizeAssumption DEF Masked, Wrapped, Index
<1>2. CASE p >= Size
  <2>1. p % Size = p - Size
    BY <1>2, SizeAssumption
  <2> QED
    BY <2>1, <1>2, SizeAssumption DEF Masked, Wrapped, Index
<1> QED
  BY <1>1, <1>2, SizeAssumption

\* ringbuffer_read_space, for a write pointer that has just left the buffer too.
LEMMA ReadSpaceValue ==
  ASSUME NEW w \in 0 .. Size, NEW r \in Index
  PROVE  ReadSpace(w, r) = IF w < r THEN w - r + Size ELSE w - r
<1>1. w <= r => Masked(w - r + Size) = Wrapped(w - r + Size)
  BY MaskedIsWrapped, SizeAssumption DEF Index
<1> QED
  BY <1>1, SizeAssumption DEF ReadSpace, Wrapped, Index

\* ringbuffer_write_space, for a read pointer anywhere it can be.
LEMMA WriteSpaceValue ==
  ASSUME NEW w \in Index, NEW r \in 0 .. 2 * Size - 1
  PROVE  WriteSpace(w, r) = IF w < r THEN r - w - 1 ELSE r - w + Size - 1
<1>1. w > r => Masked(r - w + Size) = Wrapped(r - w + Size)
  BY MaskedIsWrapped, SizeAssumption DEF Index
<1> QED
  BY <1>1, SizeAssumption DEF WriteSpace, Wrapped, Index

\* The two segments of a request make up the request, and the second one
\* starts at the beginning of the buffer.
LEMMA Segments ==
  ASSUME NEW p \in Index, NEW n \in 1 .. Size - 1
  PROVE  /\ Segment1(p, n) \in 1 .. n
         /\ Segment2(p, n) \in 0 .. n
         /\ Segment1(p, n) + Segment2(p, n) = n
         /\ p + Segment1(p, n) <= Size
         /\ Segment2(p, n) > 0 => p + Segment1(p, n) = Size
<1>1. p + n > Size => Masked(p + n) = p + n - Size
  BY MaskedIsWrapped, SizeAssumption DEF Index, Wrapped
<1> QED
  BY <1>1, SizeAssumption DEF Segment1, Segment2, Index

--------------------------------------------------------------------------------
(***************************************************************************)
(* Each action keeps the inductive invariant.                              *)
(***************************************************************************)

\* A thread that has not looked since the other's last store computes the exact
\* number of readable bytes ...
LEMMA OccupiedWhenIdle ==
  ASSUME IInv, rpc = "idle", ~ wseen
  PROVE  ReadSpace(write_ptr, read_ptr) = Occupied
<1> USE SizeAssumption DEF IInv, TypeOK, Index, Occupied, W, R, Wrapped
<1>1. read_ptr \in Index /\ write_ptr \in 0 .. Size
  OBVIOUS
<1>2. /\ Occupied \in 0 .. Size - 1
      /\ W = read_ptr + Occupied \/ W = read_ptr + Occupied - Size
  BY <1>1 DEF Positions
<1>3. write_ptr = Size => Occupied >= 1
  BY DEF WriterUpdate, WriterSegments, RPending
<1>4. Occupied = IF write_ptr < read_ptr THEN write_ptr - read_ptr + Size
                 ELSE write_ptr - read_ptr
  BY <1>1, <1>2, <1>3
<1> QED
  BY <1>1, <1>4, ReadSpaceValue

\* ... or of free ones.
LEMMA FreeWhenIdle ==
  ASSUME IInv, wpc = "idle", rpc # "reset", ~ rseen
  PROVE  WriteSpace(write_ptr, read_ptr) = Free
<1> USE SizeAssumption DEF IInv, TypeOK, Index, Occupied, Free, W, R, Wrapped
<1>1. write_ptr \in Index /\ read_ptr \in 0 .. 2 * Size - 1
  OBVIOUS
<1>2. rpc # "mask" => read_ptr < Size
  OBVIOUS
<1>3. rpc = "mask" => read_ptr - rn1 < Size /\ rn1 <= Free
  BY DEF ReaderUpdate, WPending
<1>4. /\ Occupied \in 0 .. Size - 1
      /\ write_ptr = R + Occupied \/ write_ptr = R + Occupied - Size
  BY <1>1 DEF Positions
<1>5. Free = IF write_ptr < read_ptr THEN read_ptr - write_ptr - 1
             ELSE read_ptr - write_ptr + Size - 1
  BY <1>1, <1>2, <1>3, <1>4
<1> QED
  BY <1>1, <1>5, WriteSpaceValue

\* The i-th byte from the read position on is the i-th oldest.
LEMMA ContentAt ==
  ASSUME IInv, NEW i \in 0 .. Occupied - 1
  PROVE  buf[Wrapped(R + i)] = taken + i
<1> USE SizeAssumption DEF IInv, TypeOK, Index, Occupied
<1>1. R \in Index /\ Occupied \in 0 .. Size - 1
  BY DEF Positions, ReaderUpdate, R, Wrapped
<1>2. CASE R + i < Size
  <2>1. Wrapped(R + i) = R + i /\ R + i \in Index
    BY <1>1, <1>2 DEF Wrapped
  <2> QED
    BY <1>1, <2>1 DEF Content
<1>3. CASE R + i >= Size
  <2>1. Wrapped(R + i) = R + i - Size /\ R + i - Size \in Index
    BY <1>1, <1>3 DEF Wrapped
  <2>2. R + i - Size + Size < R + Occupied
    BY <1>1
  <2>3. buf[R + i - Size] = taken + (R + i - Size + Size - R)
    BY <1>1, <2>1, <2>2 DEF Content
  <2> QED
    BY <1>1, <2>1, <2>3
<1> QED
  BY <1>1, <1>2, <1>3

\* memcpy of a segment: the bytes written are outside the content.
LEMMA CopyInKeeps ==
  ASSUME IInv, CopyIn
  PROVE  IInv'
<1> USE SizeAssumption DEF IInv, TypeOK, Index, Occupied, Free, W, R, Wrapped,
      WPending, RPending, CopyIn, Stored, seen, reader
<1>1. TypeOK'
  BY DEF WriterSegments
<1>2. Positions' /\ WriterSegments'
  BY DEF Positions, WriterSegments
<1>3. Content'
  BY DEF Positions, Content, WriterSegments
<1>4. NewBytes'
  BY DEF WriterSegments, NewBytes
<1>5. WriterUpdate' /\ ReaderUpdate'
  BY DEF WriterUpdate, ReaderUpdate
<1>6. ReaderSegments' /\ OldBytes'
  BY DEF ReaderSegments, OldBytes
<1> QED
  BY <1>1, <1>2, <1>3, <1>4, <1>5, <1>6

\* A socket read of m bytes into the window, or the window given back.
LEMMA FillKeeps ==
  ASSUME IInv, NEW m \in 0 .. Size, Fill(m)
  PROVE  IInv'
<1> USE SizeAssumption DEF IInv, TypeOK, Index, Occupied, Free, W, R, Wrapped,
      WPending, RPending, Fill, Stored, seen, reader
<1>1. TypeOK'
  <2>1. buf' \in [Index -> Int]
    OBVIOUS
  <2>2. wn1' \in 0 .. Size - 1 /\ wpc' \in {"idle", "add"}
    OBVIOUS
  <2> QED
    BY <2>1, <2>2
<1>2. Positions' /\ WriterSegments'
  BY DEF Positions, WriterSegments
<1>3. Content'
  BY DEF Positions, Content, WriterSegments
<1>4. NewBytes'
  BY DEF WriterSegments, NewBytes
<1>5. WriterUpdate' /\ ReaderUpdate'
  BY DEF WriterUpdate, ReaderUpdate, WriterSegments
<1>6. ReaderSegments' /\ OldBytes'
  BY DEF ReaderSegments, OldBytes
<1> QED
  BY <1>1, <1>2, <1>3, <1>4, <1>5, <1>6

\* write_ptr += n: the new bytes join the content.
LEMMA AddWriteKeeps ==
  ASSUME IInv, AddWrite
  PROVE  IInv'
<1> USE SizeAssumption DEF IInv, TypeOK, Index, Occupied, Free, W, R, Wrapped,
      WPending, RPending, AddWrite, reader
<1>1. TypeOK'
  <2>1. write_ptr' \in 0 .. Size /\ sent' \in Nat
    BY DEF WriterSegments
  <2> QED
    BY <2>1
<1>2. Positions'
  BY DEF Positions, WriterSegments
<1>3. Content'
  BY DEF Positions, Content, WriterSegments, NewBytes
<1>4. WriterSegments' /\ NewBytes'
  BY DEF WriterSegments, NewBytes
<1>5. WriterUpdate'
  BY DEF WriterUpdate, ReaderSegments
<1>6. ReaderSegments' /\ OldBytes'
  BY DEF ReaderSegments, OldBytes, WriterSegments
<1>7. ReaderUpdate'
  BY DEF ReaderUpdate, WriterSegments
<1> QED
  BY <1>1, <1>2, <1>3, <1>4, <1>5, <1>6, <1>7

\* write_ptr &= size_mask: the position stays, the pointer is back in range.
LEMMA MaskWriteKeeps ==
  ASSUME IInv, MaskWrite
  PROVE  IInv'
<1> USE SizeAssumption DEF IInv, TypeOK, Index, Occupied, Free, W, R, Wrapped,
      WPending, RPending, MaskWrite, reader
<1>0. Masked(write_ptr) = Wrapped(write_ptr) /\ write_ptr' \in Index
  BY MaskedIsWrapped
<1>1. TypeOK'
  <2>1. write_ptr' \in 0 .. Size /\ (wpc' # "mask" => write_ptr' \in Index)
    BY <1>0
  <2>2. wpc' \in {"idle", "copy"} /\ wn1' \in 0 .. Size - 1 /\ wn2' \in 0 .. Size - 1
    OBVIOUS
  <2> QED
    BY <2>1, <2>2
<1>2. Positions' /\ Content'
  BY <1>0 DEF Positions, Content
<1>3. WriterSegments' /\ NewBytes'
  BY <1>0 DEF WriterSegments, NewBytes
<1>4. WriterUpdate' /\ ReaderUpdate'
  BY <1>0 DEF WriterUpdate, ReaderUpdate
<1>5. ReaderSegments' /\ OldBytes'
  BY DEF ReaderSegments, OldBytes
<1> QED
  BY <1>1, <1>2, <1>3, <1>4, <1>5

\* memcpy of a segment to the caller: these are the oldest bytes.
LEMMA CopyOutKeeps ==
  ASSUME IInv, CopyOut
  PROVE  IInv'
<1> USE SizeAssumption DEF IInv, TypeOK, Index, Occupied, Free, W, R, Wrapped,
      WPending, RPending, CopyOut, seen, writer
<1>1. TypeOK' /\ Positions' /\ Content'
  BY DEF Positions, Content, ReaderSegments
<1>2. WriterSegments' /\ NewBytes'
  BY DEF WriterSegments, NewBytes
<1>3. WriterUpdate' /\ ReaderUpdate'
  BY DEF WriterUpdate, ReaderUpdate
<1>4. ReaderSegments'
  BY DEF ReaderSegments
<1>5. OldBytes'
  <2>1. \A i \in 0 .. rn1 - 1 : buf[read_ptr + i] = taken + i
    BY DEF Positions, Content, ReaderSegments
  <2> QED
    BY <2>1 DEF OldBytes
<1> QED
  BY <1>1, <1>2, <1>3, <1>4, <1>5

\* The two memcpy to helpbuf.
LEMMA CopyHelpKeeps ==
  ASSUME IInv, CopyHelp
  PROVE  IInv'
<1> USE SizeAssumption DEF IInv, TypeOK, Index, Occupied, Free, W, R, Wrapped,
      WPending, RPending, CopyHelp, seen, writer
<1>1. TypeOK' /\ Positions' /\ Content'
  BY DEF Positions, Content, ReaderSegments
<1>2. WriterSegments' /\ NewBytes'
  BY DEF WriterSegments, NewBytes
<1>3. WriterUpdate' /\ ReaderUpdate'
  BY DEF WriterUpdate, ReaderUpdate
<1>4. ReaderSegments'
  BY DEF ReaderSegments
<1>5. OldBytes'
  <2>1. ASSUME NEW i \in 0 .. rn1 - 1
        PROVE  buf[Masked(read_ptr + i)] = taken + i
    <3>1. Masked(read_ptr + i) = Wrapped(read_ptr + i)
      BY MaskedIsWrapped
    <3>2. i \in 0 .. Occupied - 1 /\ R = read_ptr
      BY DEF ReaderSegments
    <3> QED
      BY <3>1, <3>2, ContentAt
  <2> QED
    BY <2>1 DEF OldBytes
<1> QED
  BY <1>1, <1>2, <1>3, <1>4, <1>5

\* The caller uses m bytes of a window handed out in place.
LEMMA UseHeldKeeps ==
  ASSUME IInv, NEW m \in 0 .. Size, UseHeld(m)
  PROVE  IInv'
<1> USE SizeAssumption DEF IInv, TypeOK, Index, Occupied, Free, W, R, Wrapped,
      WPending, RPending, UseHeld, seen, writer
<1>1. TypeOK' /\ Positions' /\ Content'
  BY DEF Positions, Content, ReaderSegments
<1>2. WriterSegments' /\ NewBytes'
  BY DEF WriterSegments, NewBytes
<1>3. WriterUpdate' /\ ReaderUpdate'
  BY DEF WriterUpdate, ReaderUpdate, ReaderSegments
<1>4. ReaderSegments'
  BY DEF ReaderSegments
<1>5. OldBytes'
  <2>1. ASSUME NEW i \in 0 .. m - 1
        PROVE  buf[read_ptr + i] = taken + i
    <3>1. i \in 0 .. Occupied - 1 /\ R = read_ptr /\ read_ptr + i < Size
      BY DEF ReaderSegments
    <3>2. buf[Wrapped(R + i)] = taken + i
      BY <3>1, ContentAt
    <3> QED
      BY <3>1, <3>2
  <2> QED
    BY <2>1 DEF OldBytes
<1> QED
  BY <1>1, <1>2, <1>3, <1>4, <1>5

\* The caller uses m bytes of those copied to helpbuf.
LEMMA UseHelpedKeeps ==
  ASSUME IInv, NEW m \in 0 .. Size, UseHelped(m)
  PROVE  IInv'
<1> USE SizeAssumption DEF IInv, TypeOK, Index, Occupied, Free, W, R, Wrapped,
      WPending, RPending, UseHelped, seen, writer
<1>1. TypeOK' /\ Positions' /\ Content'
  BY DEF Positions, Content, ReaderSegments
<1>2. WriterSegments' /\ NewBytes'
  BY DEF WriterSegments, NewBytes
<1>3. WriterUpdate' /\ ReaderUpdate'
  BY DEF WriterUpdate, ReaderUpdate, ReaderSegments
<1>4. ReaderSegments'
  BY DEF ReaderSegments
<1>5. OldBytes'
  <2>1. \A i \in 0 .. m - 1 : dest[i] = taken + i
    BY DEF OldBytes
  <2> QED
    BY <2>1 DEF OldBytes
<1> QED
  BY <1>1, <1>2, <1>3, <1>4, <1>5

\* read_ptr += n: the bytes read leave the content.
LEMMA AddReadKeeps ==
  ASSUME IInv, AddRead
  PROVE  IInv'
<1> USE SizeAssumption DEF IInv, TypeOK, Index, Occupied, Free, W, R, Wrapped,
      WPending, RPending, AddRead, writer
<1>1. TypeOK'
  <2>1. read_ptr' \in 0 .. 2 * Size - 1 /\ taken' \in Nat
    BY DEF ReaderSegments
  <2> QED
    BY <2>1
<1>2. Positions'
  BY DEF Positions, ReaderSegments
<1>3. Content'
  <2>1. R' = R + rn1 \/ R' = R + rn1 - Size
    BY DEF ReaderSegments
  <2>2. rn1 \in 0 .. Occupied /\ Occupied \in 0 .. Size - 1 /\ R' \in Index
    BY DEF Positions, ReaderSegments
  <2>3. ASSUME NEW i \in Index, R' <= i, i < R' + Occupied'
        PROVE  buf'[i] = taken' + (i - R')
    BY <2>1, <2>2, <2>3 DEF Content
  <2>4. ASSUME NEW i \in Index, i + Size < R' + Occupied'
        PROVE  buf'[i] = taken' + (i + Size - R')
    <3>1. R' = R + rn1 /\ i + Size < R + Occupied
      BY <2>1, <2>2, <2>4
    <3>2. buf[i] = taken + (i + Size - R)
      BY <3>1 DEF Content
    <3> QED
      BY <2>2, <3>1, <3>2
  <2> QED
    BY <2>3, <2>4 DEF Content
<1>4. WriterSegments' /\ NewBytes'
  BY DEF WriterSegments, NewBytes, ReaderSegments
<1>5. WriterUpdate'
  BY DEF WriterUpdate, ReaderSegments
<1>6. ReaderSegments' /\ OldBytes'
  BY DEF ReaderSegments, OldBytes
<1>7. ReaderUpdate'
  BY DEF ReaderUpdate, WriterSegments
<1> QED
  BY <1>1, <1>2, <1>3, <1>4, <1>5, <1>6, <1>7

\* read_ptr &= size_mask: the position stays, the pointer is back in range.
LEMMA MaskReadKeeps ==
  ASSUME IInv, MaskRead
  PROVE  IInv'
<1> USE SizeAssumption DEF IInv, TypeOK, Index, Occupied, Free, W, R, Wrapped,
      WPending, RPending, MaskRead, writer
<1>0. Masked(read_ptr) = Wrapped(read_ptr) /\ read_ptr' \in Index
  BY MaskedIsWrapped
<1>1. TypeOK'
  <2>1. read_ptr' \in 0 .. 2 * Size - 1 /\ (rpc' # "mask" => read_ptr' \in Index)
    BY <1>0
  <2>2. rpc' \in {"idle", "copy"} /\ rn1' \in 0 .. Size - 1 /\ rn2' \in 0 .. Size - 1
    OBVIOUS
  <2> QED
    BY <2>1, <2>2
<1>2. Positions'
  BY <1>0 DEF Positions
<1>3. Content'
  <2>1. R' = R
    BY <1>0
  <2> QED
    BY <2>1 DEF Content
<1>4. WriterSegments' /\ NewBytes'
  BY <1>0 DEF WriterSegments, NewBytes
<1>5. WriterUpdate' /\ ReaderUpdate'
  BY <1>0 DEF WriterUpdate, ReaderUpdate
<1>6. ReaderSegments' /\ OldBytes'
  BY <1>0 DEF ReaderSegments, OldBytes
<1> QED
  BY <1>1, <1>2, <1>3, <1>4, <1>5, <1>6

\* The first store of a reset drops the content as a whole.
LEMMA BeginResetKeeps ==
  ASSUME IInv, BeginReset
  PROVE  IInv'
<1> USE SizeAssumption DEF IInv, TypeOK, Index, Occupied, Free, W, R, Wrapped,
      WPending, RPending, BeginReset, seen, writer
<1>1. TypeOK'
  OBVIOUS
<1>2. Positions' /\ Content'
  BY DEF Positions, Content
<1>3. WriterSegments' /\ NewBytes'
  BY DEF WriterSegments, NewBytes
<1>4. WriterUpdate' /\ ReaderUpdate'
  BY DEF WriterUpdate, ReaderUpdate
<1>5. ReaderSegments' /\ OldBytes'
  BY DEF ReaderSegments, OldBytes
<1> QED
  BY <1>1, <1>2, <1>3, <1>4, <1>5

\* The second store makes the pointers agree again.
LEMMA EndResetKeeps ==
  ASSUME IInv, EndReset
  PROVE  IInv'
<1> USE SizeAssumption DEF IInv, TypeOK, Index, Occupied, Free, W, R, Wrapped,
      WPending, RPending, EndReset, seen, writer
<1>1. TypeOK'
  OBVIOUS
<1>2. Positions' /\ Content'
  BY DEF Positions, Content
<1>3. WriterSegments' /\ NewBytes'
  BY DEF Positions, WriterSegments, NewBytes
<1>4. WriterUpdate' /\ ReaderUpdate'
  BY DEF Positions, WriterUpdate, ReaderUpdate
<1>5. ReaderSegments' /\ OldBytes'
  BY DEF ReaderSegments, OldBytes
<1> QED
  BY <1>1, <1>2, <1>3, <1>4, <1>5

\* ringbuffer_write splits what fits.
LEMMA BeginWriteKeeps ==
  ASSUME IInv, ~ LongStall, NEW cnt \in Requests, BeginWrite(cnt)
  PROVE  IInv'
<1> USE SizeAssumption DEF IInv, TypeOK, Index, Occupied, Free, W, R, Wrapped,
      WPending, RPending, BeginWrite, reader
<1> DEFINE n == AtMost(cnt, WriteSpace(write_ptr, read_ptr))
<1>0. n \in 1 .. Size - 1 /\ n <= Free
  <2>1. WriteSpace(write_ptr, read_ptr) = Free
    BY FreeWhenIdle DEF MayWrite
  <2> QED
    BY <2>1, RequestsAssumption DEF AtMost, MayWrite, Positions
<1> HIDE DEF n
<1>p. write_ptr \in Index
  BY DEF MayWrite
<1>s. /\ Segment1(write_ptr, n) \in 1 .. n
      /\ Segment2(write_ptr, n) \in 0 .. n
      /\ Segment1(write_ptr, n) + Segment2(write_ptr, n) = n
      /\ write_ptr + Segment1(write_ptr, n) <= Size
      /\ Segment2(write_ptr, n) > 0 => write_ptr + Segment1(write_ptr, n) = Size
  BY <1>0, <1>p, Segments
<1>w. wn1' = Segment1(write_ptr, n) /\ wn2' = Segment2(write_ptr, n)
  BY DEF n
<1>1. TypeOK'
  BY <1>0, <1>s, <1>w DEF MayWrite
<1>2. Positions' /\ Content'
  BY DEF Positions, Content, MayWrite
<1>3. WriterSegments' /\ NewBytes'
  BY <1>0, <1>s, <1>w DEF WriterSegments, NewBytes
<1>4. WriterUpdate' /\ ReaderUpdate'
  BY DEF WriterUpdate, ReaderUpdate, MayWrite
<1>5. ReaderSegments' /\ OldBytes'
  BY DEF ReaderSegments, OldBytes
<1> QED
  BY <1>1, <1>2, <1>3, <1>4, <1>5

\* ringbuffer_get_writepointer hands out what fits without wrapping.
LEMMA BeginDirectWriteKeeps ==
  ASSUME IInv, ~ LongStall, NEW cnt \in Requests, BeginDirectWrite(cnt)
  PROVE  IInv'
<1> USE SizeAssumption DEF IInv, TypeOK, Index, Occupied, Free, W, R, Wrapped,
      WPending, RPending, BeginDirectWrite, reader
<1> DEFINE n == AtMost(cnt, WriteSpace(write_ptr, read_ptr))
<1>0. n \in 1 .. Size - 1 /\ n <= Free
  <2>1. WriteSpace(write_ptr, read_ptr) = Free
    BY FreeWhenIdle DEF MayWrite
  <2> QED
    BY <2>1, RequestsAssumption DEF AtMost, MayWrite, Positions
<1>w. wn1' = n /\ wn2' = 0 /\ write_ptr + n <= Size
  BY DEF n
<1>1. TypeOK'
  BY <1>0, <1>w DEF MayWrite
<1>2. Positions' /\ Content'
  BY DEF Positions, Content, MayWrite
<1>3. WriterSegments' /\ NewBytes'
  BY <1>0, <1>w DEF WriterSegments, NewBytes
<1>4. WriterUpdate' /\ ReaderUpdate'
  BY DEF WriterUpdate, ReaderUpdate, MayWrite
<1>5. ReaderSegments' /\ OldBytes'
  BY DEF ReaderSegments, OldBytes
<1> QED
  BY <1>1, <1>2, <1>3, <1>4, <1>5

\* ringbuffer_read splits what is readable.
LEMMA BeginReadKeeps ==
  ASSUME IInv, ~ LongStall, NEW cnt \in Requests, BeginRead(cnt)
  PROVE  IInv'
<1> USE SizeAssumption DEF IInv, TypeOK, Index, Occupied, Free, W, R, Wrapped,
      WPending, RPending, BeginRead, writer
<1> DEFINE n == AtMost(cnt, ReadSpace(write_ptr, read_ptr))
<1>0. n \in 1 .. Size - 1 /\ n <= Occupied
  <2>1. ReadSpace(write_ptr, read_ptr) = Occupied
    BY OccupiedWhenIdle DEF MayRead
  <2> QED
    BY <2>1, RequestsAssumption DEF AtMost, MayRead, Positions
<1> HIDE DEF n
<1>p. read_ptr \in Index
  BY DEF MayRead
<1>s. /\ Segment1(read_ptr, n) \in 1 .. n
      /\ Segment2(read_ptr, n) \in 0 .. n
      /\ Segment1(read_ptr, n) + Segment2(read_ptr, n) = n
      /\ read_ptr + Segment1(read_ptr, n) <= Size
      /\ Segment2(read_ptr, n) > 0 => read_ptr + Segment1(read_ptr, n) = Size
  BY <1>0, <1>p, Segments
<1>r. rn1' = Segment1(read_ptr, n) /\ rn2' = Segment2(read_ptr, n)
  BY DEF n
<1>1. TypeOK'
  BY <1>0, <1>s, <1>r DEF MayRead
<1>2. Positions' /\ Content'
  BY DEF Positions, Content, MayRead
<1>3. WriterSegments' /\ NewBytes'
  BY DEF WriterSegments, NewBytes
<1>4. WriterUpdate' /\ ReaderUpdate'
  BY DEF WriterUpdate, ReaderUpdate, MayRead
<1>5. ReaderSegments' /\ OldBytes'
  BY <1>0, <1>s, <1>r DEF ReaderSegments, OldBytes
<1> QED
  BY <1>1, <1>2, <1>3, <1>4, <1>5

\* ringbuffer_get_readpointer looks at what is readable.
LEMMA PeekKeeps ==
  ASSUME IInv, ~ LongStall, NEW cnt \in Requests, Peek(cnt)
  PROVE  IInv'
<1> USE SizeAssumption DEF IInv, TypeOK, Index, Occupied, Free, W, R, Wrapped,
      WPending, RPending, Peek, writer
<1> DEFINE n == AtMost(cnt, ReadSpace(write_ptr, read_ptr))
<1>0. n \in 1 .. Size - 1 /\ n <= Occupied
  <2>1. ReadSpace(write_ptr, read_ptr) = Occupied
    BY OccupiedWhenIdle DEF MayRead
  <2> QED
    BY <2>1, RequestsAssumption DEF AtMost, MayRead, Positions
<1> HIDE DEF n
<1>p. read_ptr \in Index
  BY DEF MayRead
<1>s. /\ Segment1(read_ptr, n) \in 1 .. n
      /\ Segment2(read_ptr, n) \in 0 .. n
      /\ Segment1(read_ptr, n) + Segment2(read_ptr, n) = n
      /\ read_ptr + Segment1(read_ptr, n) <= Size
      /\ Segment2(read_ptr, n) > 0 => read_ptr + Segment1(read_ptr, n) = Size
  BY <1>0, <1>p, Segments
<1>r. /\ rn1' = n /\ rn2' = 0
      /\ rpc' = IF Segment2(read_ptr, n) > 0 THEN "help" ELSE "held"
  BY DEF n
<1>1. TypeOK'
  BY <1>0, <1>r DEF MayRead
<1>2. Positions' /\ Content'
  BY <1>r DEF Positions, Content, MayRead
<1>3. WriterSegments' /\ NewBytes'
  BY DEF WriterSegments, NewBytes
<1>4. WriterUpdate' /\ ReaderUpdate'
  BY <1>r DEF WriterUpdate, ReaderUpdate, MayRead
<1>5. ReaderSegments' /\ OldBytes'
  BY <1>0, <1>s, <1>r DEF ReaderSegments, OldBytes
<1> QED
  BY <1>1, <1>2, <1>3, <1>4, <1>5

--------------------------------------------------------------------------------
(***************************************************************************)
(* The theorems.                                                           *)
(***************************************************************************)

\* The ring starts in the invariant ...
LEMMA IInvInit == Init => IInv
<1> SUFFICES ASSUME Init PROVE IInv
  OBVIOUS
<1> USE SizeAssumption DEF Init, Index, Occupied, Free, W, R, Wrapped, WPending, RPending
<1>1. TypeOK
  BY DEF TypeOK
<1>2. Positions /\ Content
  BY DEF Positions, Content
<1>3. WriterSegments /\ NewBytes /\ WriterUpdate
  BY DEF WriterSegments, NewBytes, WriterUpdate
<1>4. ReaderSegments /\ OldBytes /\ ReaderUpdate
  BY DEF ReaderSegments, OldBytes, ReaderUpdate
<1> QED
  BY <1>1, <1>2, <1>3, <1>4 DEF IInv

\* ... and no step of either thread leaves it ...
LEMMA IInvNext ==
  ASSUME ~ LongStall, IInv, [Next]_vars
  PROVE  IInv'
<1>1. CASE Writer
  BY <1>1, BeginWriteKeeps, BeginDirectWriteKeeps, CopyInKeeps, FillKeeps,
     AddWriteKeeps, MaskWriteKeeps DEF Writer, WriterStep
<1>2. CASE Reader
  BY <1>2, BeginReadKeeps, PeekKeeps, CopyOutKeeps, CopyHelpKeeps, UseHeldKeeps,
     UseHelpedKeeps, AddReadKeeps, MaskReadKeeps, BeginResetKeeps, EndResetKeeps
     DEF Reader, ReaderStep
<1>3. CASE UNCHANGED vars
  BY <1>3 DEF vars, writer, reader, seen, IInv, TypeOK, Positions, Content,
     WriterSegments, NewBytes, WriterUpdate, ReaderSegments, OldBytes, ReaderUpdate,
     Occupied, Free, W, R, WPending, RPending
<1> QED
  BY <1>1, <1>2, <1>3 DEF Next

\* ... so that it holds in every state (ringbuffer.c:80-302, all of its calls).
THEOREM Invariance ==
  ASSUME ~ LongStall
  PROVE  Spec => []IInv
<1>1. Init => IInv
  BY IInvInit
<1>2. IInv /\ [Next]_vars => IInv'
  BY IInvNext
<1> QED
  BY <1>1, <1>2, PTL DEF Spec

\* Every variable keeps its type, and a pointer leaves the buffer only between
\* the two stores of its update.
THEOREM TypeCorrect ==
  ASSUME ~ LongStall
  PROVE  Spec => []TypeOK
<1>1. IInv => TypeOK
  BY DEF IInv
<1> QED
  BY <1>1, Invariance, PTL

\* Whatever instant a thread looks at the pointers at, it computes the exact
\* number of readable, resp. free, bytes.
THEOREM SpaceIsExact ==
  ASSUME ~ LongStall
  PROVE  Spec => []SpaceExact
<1>1. IInv => SpaceExact
  BY OccupiedWhenIdle, FreeWhenIdle DEF SpaceExact, Occupied, Free, IInv
<1> QED
  BY <1>1, Invariance, PTL

\* The two threads never touch the same byte at the same time.
THEOREM NoRace ==
  ASSUME ~ LongStall
  PROVE  Spec => []NoOverlap
<1>1. ASSUME IInv PROVE NoOverlap
  <2> USE SizeAssumption DEF IInv, TypeOK, Index, Occupied, Free, Wrapped
  <2>1. CASE wpc \in {"copy", "fill"} /\ rpc \in {"copy", "held", "help"}
    <3>1. /\ write_ptr \in Index /\ read_ptr \in Index
          /\ wn1 + wn2 \in 1 .. Free /\ rn1 + rn2 \in 1 .. Occupied
          /\ Occupied \in 0 .. Size - 1
          /\ write_ptr = read_ptr + Occupied \/ write_ptr = read_ptr + Occupied - Size
      BY <1>1, <2>1 DEF Positions, WriterSegments, ReaderSegments, W, R, WPending, RPending
    <3>2. ASSUME NEW i \in 0 .. wn1 + wn2 - 1, NEW j \in 0 .. rn1 + rn2 - 1
          PROVE  Masked(write_ptr + i) # Masked(read_ptr + j)
      <4>0. /\ i \in Nat /\ i < wn1 + wn2 /\ i < Free
            /\ j \in Nat /\ j < rn1 + rn2 /\ j < Occupied
        BY <1>1, <3>1, <3>2
      <4>1. /\ write_ptr + i \in 0 .. 2 * Size - 1
            /\ read_ptr + j \in 0 .. 2 * Size - 1
        BY <4>0, <3>1
      <4>2. /\ Masked(write_ptr + i) = Wrapped(write_ptr + i)
            /\ Masked(read_ptr + j) = Wrapped(read_ptr + j)
        BY <4>1, MaskedIsWrapped
      <4>4. Wrapped(write_ptr + i) # Wrapped(read_ptr + j)
        BY <3>1, <4>0, <4>1
      <4> QED
        BY <4>2, <4>4
    <3> QED
      BY <3>2, <2>1 DEF NoOverlap, WriterTouches, ReaderTouches
  <2>2. CASE ~ (wpc \in {"copy", "fill"} /\ rpc \in {"copy", "held", "help"})
    BY <2>2 DEF NoOverlap, WriterTouches, ReaderTouches
  <2> QED
    BY <2>1, <2>2
<1> QED
  BY <1>1, Invariance, PTL

\* The vectors of the non-copying interface cover what is readable, resp. free.
THEOREM VectorsAreExact ==
  ASSUME ~ LongStall
  PROVE  Spec => []VectorsCover
<1>1. ASSUME NEW p \in Index, NEW n \in 0 .. Size - 1
      PROVE  /\ Segment1(p, n) + Segment2(p, n) = n
             /\ Segment2(p, n) > 0 => p + Segment1(p, n) = Size
  <2>1. CASE n = 0
    BY <2>1, SizeAssumption DEF Segment1, Segment2, Index
  <2>2. CASE n # 0
    BY <2>2, Segments, SizeAssumption
  <2> QED
    BY <2>1, <2>2
<1>2. ASSUME IInv PROVE VectorsCover
  <2>1. Occupied \in 0 .. Size - 1 /\ Free \in 0 .. Size - 1
    BY <1>2, SizeAssumption DEF IInv, Positions, Free
  <2>2. ASSUME rpc = "idle", ~ wseen
        PROVE  LET v == ReadVector(write_ptr, read_ptr)
               IN  v[1] + v[2] = sent - taken /\ (v[2] > 0 => read_ptr + v[1] = Size)
    <3>1. ReadSpace(write_ptr, read_ptr) = Occupied /\ read_ptr \in Index
      BY <1>2, <2>2, OccupiedWhenIdle DEF IInv, TypeOK
    <3> QED
      BY <1>1, <2>1, <3>1 DEF ReadVector, Occupied
  <2>3. ASSUME wpc = "idle", ~ rseen, rpc # "reset"
        PROVE  LET v == WriteVector(write_ptr, read_ptr)
               IN  /\ v[1] + v[2] = Size - 1 - (sent - taken)
                   /\ v[2] > 0 => write_ptr + v[1] = Size
    <3>1. WriteSpace(write_ptr, read_ptr) = Free /\ write_ptr \in Index
      BY <1>2, <2>3, FreeWhenIdle DEF IInv, TypeOK
    <3> QED
      BY <1>1, <2>1, <3>1 DEF WriteVector, Free, Occupied
  <2> QED
    BY <2>2, <2>3 DEF VectorsCover
<1> QED
  BY <1>2, Invariance, PTL

\* The ring implements the bounded FIFO byte channel.
THEOREM RingImplementsChannel ==
  ASSUME ~ LongStall
  PROVE  Spec => ImplementsChannel
<1>1. Init => Channel!ChannelInit
  BY DEF Init, Channel!ChannelInit
<1>2. ASSUME IInv, [Next]_vars
      PROVE  [Channel!ChannelNext]_(Channel!channelVars)
  <2> USE SizeAssumption DEF IInv, TypeOK, Occupied, Free, Index
  <2>1. CASE AddWrite
    <3>1. wn1 \in 1 .. Size - 1 /\ sent - taken + wn1 <= Size - 1
      BY <1>2, <2>1 DEF AddWrite, WriterSegments, WPending
    <3>2. Channel!Send(wn1)
      BY <2>1, <3>1 DEF AddWrite, Channel!Send
    <3> QED
      BY <3>1, <3>2 DEF Channel!ChannelNext
  <2>2. CASE AddRead
    <3>1. rn1 \in 1 .. Size - 1 /\ taken + rn1 <= sent
      BY <1>2, <2>2 DEF AddRead, ReaderSegments, RPending
    <3>2. Channel!Receive(rn1)
      BY <1>2, <2>2, <3>1 DEF AddRead, OldBytes, Channel!Receive
    <3> QED
      BY <3>1, <3>2 DEF Channel!ChannelNext
  <2>3. CASE BeginReset
    BY <2>3 DEF BeginReset, Channel!ChannelNext, Channel!Discard
  <2>4. CASE UNCHANGED <<sent, taken, out>>
    BY <2>4 DEF Channel!channelVars
  <2>5. Next => AddWrite \/ AddRead \/ BeginReset \/ UNCHANGED <<sent, taken, out>>
    BY DEF Next, Writer, WriterStep, Reader, ReaderStep, BeginWrite, BeginDirectWrite,
       CopyIn, Fill, MaskWrite, BeginRead, Peek, CopyOut, CopyHelp, UseHeld,
       UseHelped, MaskRead, EndReset
  <2> QED
    BY <1>2, <2>1, <2>2, <2>3, <2>4, <2>5 DEF vars
<1> QED
  BY <1>1, <1>2, Invariance, PTL DEF Spec, ImplementsChannel, Channel!ChannelSpec
================================================================================
