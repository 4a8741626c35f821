---------------------------- MODULE MemoryProofs ----------------------------
(***************************************************************************)
(* Theorems about the ring buffer, for every size, header size and set of  *)
(* items, about the memory manager, for every alignment, header size,      *)
(* amount of memory and set of requests, and, at the end, about what       *)
(* MCMemory makes of the two.                                              *)
(*                                                                         *)
(* The ring: its counters stay consistent and, used for text, it           *)
(* implements the bounded queue of characters.  Used for items, its bytes  *)
(* always are whole items laid end to end, so a getter never meets half an *)
(* item, and it implements the queue of items.                             *)
(***************************************************************************)
EXTENDS MCMemory, WellFoundedInduction, TLAPS

-----------------------------------------------------------------------------
(* The ring buffer.                                                         *)
\* Walking k <= Size places around the ring stays in it.
LEMMA PosInRing ==
  ASSUME NEW f \in Index, NEW k \in 0 .. Size
  PROVE  Pos(f, k) \in Index
BY SizeAssumption DEF Pos, Index

\* Walking there in two legs is the same as walking there at once.
LEMMA PosCompose ==
  ASSUME NEW f \in Index, NEW j \in 0 .. Size, NEW k \in 0 .. Size, j + k <= Size
  PROVE  Pos(Pos(f, j), k) = Pos(f, j + k)
BY SizeAssumption DEF Pos, Index

\* Dist undoes Pos, except for a full turn.
LEMMA DistOfPos ==
  ASSUME NEW f \in Index, NEW k \in 0 .. Size - 1
  PROVE  Dist(f, Pos(f, k)) = k
BY SizeAssumption DEF Pos, Dist, Index

(* Storing a string that fits keeps the ring consistent.                    *)
LEMMA StoreRing ==
  ASSUME RingOK, NEW s \in Seq(Byte), len + Len(s) <= Size, Store(s)
  PROVE  RingOK'
<1>1. Len(s) \in 0 .. Size
  BY SizeAssumption DEF RingOK
<1>2. rear' \in Index
  BY <1>1, PosInRing DEF RingOK, Store
<1>3. rear' = Pos(front, len + Len(s))
  BY <1>1, PosCompose DEF RingOK, Store
<1>4. buf' \in [Index -> Byte]
  <2> SUFFICES ASSUME NEW p \in Index
               PROVE  (IF Dist(rear, p) < Len(s) THEN s[Dist(rear, p) + 1] ELSE buf[p]) \in Byte
    BY DEF Store
  <2>1. Dist(rear, p) \in Nat
    BY SizeAssumption DEF Dist, RingOK, Index
  <2>2. CASE Dist(rear, p) < Len(s)
    BY <2>1, <2>2
  <2>3. CASE ~(Dist(rear, p) < Len(s))
    BY <2>3 DEF RingOK
  <2> QED BY <2>2, <2>3
<1>5. len' \in 0 .. Size /\ front' \in Index
  <2>1. len' = len + Len(s) /\ front' = front
    BY DEF Store
  <2>2. len \in 0 .. Size /\ front \in Index
    BY DEF RingOK
  <2> QED BY <1>1, <2>1, <2>2, SizeAssumption
<1>6. rear' = Pos(front, len)'
  BY <1>3 DEF Store, Pos
<1> QED BY <1>2, <1>4, <1>5, <1>6 DEF RingOK

(* So does dropping bytes that are there.                                   *)
LEMMA DropRing ==
  ASSUME RingOK, NEW n \in 0 .. len, Drop(n)
  PROVE  RingOK' /\ len' = len - n
<1>1. n \in 0 .. Size /\ len - n \in 0 .. Size
  BY SizeAssumption DEF RingOK
<1>2. U16(len - n) = len - n
  BY <1>1, SizeAssumption DEF U16
<1>3. front' \in Index
  BY <1>1, PosInRing DEF RingOK, Drop
<1>4. Pos(front', len - n) = Pos(front, len)
  <2>1. n + (len - n) = len /\ n + (len - n) <= Size
    BY <1>1 DEF RingOK
  <2> QED BY <1>1, <2>1, PosCompose DEF RingOK, Drop
<1> QED BY <1>1, <1>2, <1>3, <1>4 DEF RingOK, Drop, Pos

\* The bytes that were in the ring before a store are still there, and the
\* stored ones follow them.
LEMMA StoreCells ==
  ASSUME RingOK, NEW s \in Seq(Byte), len + Len(s) <= Size, Store(s)
  PROVE  /\ \A k \in 0 .. len - 1 : Cell(k)' = Cell(k)
         /\ \A k \in 0 .. Len(s) - 1 : buf'[Pos(front, len + k)] = s[k + 1]
<1>0. Len(s) \in 0 .. Size /\ len \in 0 .. Size /\ front \in Index /\ rear \in Index
  BY SizeAssumption DEF RingOK
<1>1. ASSUME NEW k \in 0 .. len - 1
      PROVE  Cell(k)' = Cell(k)
  <2>1. Pos(front, k) \in Index
    <3>1. k \in 0 .. Size
      BY <1>0, SizeAssumption
    <3> QED BY <1>0, <3>1, PosInRing
  <2>2. ~(Dist(rear, Pos(front, k)) < Len(s))
    BY <1>0, SizeAssumption DEF RingOK, Pos, Dist, Index
  <2>3. buf'[Pos(front, k)] = buf[Pos(front, k)]
    BY <2>1, <2>2 DEF Store
  <2> QED BY <2>3 DEF Cell, Store, Pos
<1>2. ASSUME NEW k \in 0 .. Len(s) - 1
      PROVE  buf'[Pos(front, len + k)] = s[k + 1]
  <2>0. k \in 0 .. Size - 1 /\ k \in 0 .. Size /\ len + k \in 0 .. Size
    BY <1>0, SizeAssumption
  <2>1. Pos(front, len + k) \in Index
    BY <1>0, <2>0, PosInRing
  <2>2. Pos(rear, k) = Pos(front, len + k)
    <3>1. len + k <= Size
      BY <2>0, SizeAssumption
    <3>2. rear = Pos(front, len)
      BY DEF RingOK
    <3> QED BY <1>0, <2>0, <3>1, <3>2, PosCompose
  <2>3. Dist(rear, Pos(front, len + k)) = k
    BY <1>0, <2>0, <2>2, DistOfPos
  <2> QED BY <2>1, <2>3 DEF Store
<1> QED BY <1>1, <1>2

\* After a drop of n bytes, the bytes n and further have moved to the front.
LEMMA DropCells ==
  ASSUME RingOK, NEW n \in 0 .. len, Drop(n), NEW k \in 0 .. len - n - 1
  PROVE  Cell(k)' = Cell(n + k)
<1>1. n \in 0 .. Size /\ k \in 0 .. Size /\ n + k <= Size /\ front \in Index
  BY SizeAssumption DEF RingOK
<1>2. front' = Pos(front, n)
  BY DEF Drop
<1>3. Pos(front', k) = Pos(front, n + k)
  BY <1>1, <1>2, PosCompose
<1> QED BY <1>3 DEF Cell, Drop, Pos

-----------------------------------------------------------------------------
(* picodata_cbPutCh and picodata_cbGetCh keep the ring's positions and      *)
(* length consistent, whatever the size: rear is always len places behind   *)
(* front, len never exceeds the size and never wraps below zero.            *)
LEMMA TextInit == Init => RingOK
BY SizeAssumption DEF Init, RingOK, Pos, Index, Byte

LEMMA TextStep == RingOK /\ [TextNext]_cbVars => RingOK'
<1> SUFFICES ASSUME RingOK, [TextNext]_cbVars PROVE RingOK'
  OBVIOUS
<1>1. CASE Reset
  BY <1>1, SizeAssumption DEF Reset, RingOK, Pos, Index
<1>2. CASE GetCh
  <2>1. CASE len > 0 /\ Drop(1)
    BY <2>1, DropRing DEF RingOK
  <2>2. CASE Keep
    BY <2>2 DEF Keep, RingOK, Pos
  <2> QED BY <1>2, <2>1, <2>2 DEF GetCh
<1>3. ASSUME NEW ch \in Chars, PutCh(ch) PROVE RingOK'
  <2>1. CASE len < Size /\ Store(<< ch >>)
    <3>1. << ch >> \in Seq(Byte) /\ len + Len(<< ch >>) <= Size
      BY <2>1, CharsAssumption, SizeAssumption DEF RingOK
    <3> QED BY <2>1, <3>1, StoreRing
  <2>2. CASE Keep
    BY <2>2 DEF Keep, RingOK, Pos
  <2> QED BY <1>3, <2>1, <2>2 DEF PutCh
<1>4. CASE UNCHANGED cbVars
  BY <1>4 DEF cbVars, RingOK, Pos
<1> QED BY <1>1, <1>2, <1>3, <1>4 DEF TextNext

THEOREM TextRingOK == TextSpec => []RingOK
BY TextInit, TextStep, PTL DEF TextSpec

-----------------------------------------------------------------------------
(* The refinement: Contents behaves as the queue of CharFifo.               *)
RingBytes(b, f, n) == [i \in 1 .. n |-> b[Pos(f, i - 1)]]

LEMMA RingBytesSeq ==
  ASSUME NEW b \in [Index -> Byte], NEW f \in Index, NEW n \in 0 .. Size
  PROVE  /\ RingBytes(b, f, n) \in Seq(Byte)
         /\ Len(RingBytes(b, f, n)) = n
         /\ \A i \in 1 .. n : RingBytes(b, f, n)[i] = b[Pos(f, i - 1)]
<1>1. ASSUME NEW i \in 1 .. n PROVE b[Pos(f, i - 1)] \in Byte
  <2>1. i - 1 \in 0 .. Size
    BY SizeAssumption
  <2> QED BY <2>1, PosInRing
<1>2. n \in Nat
  BY SizeAssumption
<1>3. RingBytes(b, f, n) \in [1 .. n -> Byte]
  BY <1>1 DEF RingBytes
<1> QED BY <1>2, <1>3 DEF RingBytes

LEMMA ContentsSeq ==
  /\ RingOK => /\ Contents \in Seq(Byte)
               /\ Len(Contents) = len
               /\ \A i \in 1 .. len : Contents[i] = Cell(i - 1)
  /\ RingOK' => /\ Contents' \in Seq(Byte)
                /\ Len(Contents') = len'
                /\ \A i \in 1 .. len' : Contents'[i] = Cell(i - 1)'
<1>2. Contents = RingBytes(buf, front, len)
  BY DEF Contents, Peek, Cell, RingBytes
<1>3. Contents' = RingBytes(buf', front', len')
  BY DEF Contents, Peek, Cell, RingBytes, Pos
<1> QED BY <1>2, <1>3, RingBytesSeq DEF RingOK, Cell, Pos

LEMMA PutAppends ==
  ASSUME RingOK, NEW ch \in Byte, len < Size, Store(<< ch >>)
  PROVE  Contents' = Append(Contents, ch)
<1>1. << ch >> \in Seq(Byte) /\ Len(<< ch >>) = 1 /\ len + 1 <= Size /\ len \in Nat
  BY SizeAssumption DEF RingOK
<1>2. RingOK' /\ len' = len + 1
  BY <1>1, StoreRing DEF Store
<1>3. /\ \A k \in 0 .. len - 1 : Cell(k)' = Cell(k)
      /\ buf'[Pos(front, len)] = ch
  <2> DEFINE s == << ch >>
  <2>1. s \in Seq(Byte) /\ len + Len(s) <= Size /\ Len(s) = 1 /\ s[1] = ch
    BY <1>1
  <2> HIDE DEF s
  <2>2. Store(s)
    BY DEF s
  <2>3. /\ \A k \in 0 .. len - 1 : Cell(k)' = Cell(k)
        /\ \A k \in 0 .. Len(s) - 1 : buf'[Pos(front, len + k)] = s[k + 1]
    BY <2>1, <2>2, StoreCells
  <2>4. 0 \in 0 .. Len(s) - 1 /\ len + 0 = len /\ 0 + 1 = 1
    BY <1>1, <2>1
  <2> QED BY <2>1, <2>3, <2>4
<1>4. /\ Contents' \in Seq(Byte)
      /\ Len(Contents') = len + 1
      /\ \A i \in 1 .. len + 1 : Contents'[i] = Cell(i - 1)'
  BY <1>2, ContentsSeq
<1>5. ASSUME NEW i \in 1 .. len + 1
      PROVE  Contents'[i] = Append(Contents, ch)[i]
  <2>1. CASE i <= len
    <3>1. i \in 1 .. len /\ i - 1 \in 0 .. len - 1
      BY <1>1, <2>1
    <3>2. Contents'[i] = Cell(i - 1)
      BY <1>3, <1>4, <3>1
    <3>3. Contents[i] = Cell(i - 1) /\ Append(Contents, ch)[i] = Contents[i]
      BY <3>1, ContentsSeq
    <3> QED BY <3>2, <3>3
  <2>2. CASE i = len + 1
    <3>1. i - 1 = len /\ front' = front
      BY <1>1, <2>2 DEF Store
    <3>2. Contents'[i] = buf'[Pos(front', i - 1)]
      BY <1>4 DEF Cell, Pos
    <3>3. Pos(front', i - 1) = Pos(front, len)
      BY <3>1
    <3>4. Contents'[i] = ch
      BY <1>3, <3>2, <3>3
    <3>5. Append(Contents, ch)[Len(Contents) + 1] = ch
      BY ContentsSeq
    <3> QED BY <2>2, <3>4, <3>5, ContentsSeq
  <2>3. i <= len \/ i = len + 1
    BY <1>1
  <2> QED BY <2>1, <2>2, <2>3
<1>6. Append(Contents, ch) \in Seq(Byte) /\ Len(Append(Contents, ch)) = len + 1
  BY ContentsSeq
<1> QED BY <1>1, <1>4, <1>5, <1>6

LEMMA GetTakesHead ==
  ASSUME RingOK, len > 0, Drop(1)
  PROVE  /\ Contents # << >>
         /\ Contents' = Tail(Contents)
         /\ Peek(0, 1) = << Head(Contents) >>
<1>1. len \in Nat /\ 1 \in 0 .. len
  BY SizeAssumption DEF RingOK
<1>2. RingOK' /\ len' = len - 1
  BY <1>1, DropRing
<1>3. /\ Contents' \in Seq(Byte)
      /\ Len(Contents') = len - 1
      /\ \A i \in 1 .. len - 1 : Contents'[i] = Cell(i - 1)'
  BY <1>2, ContentsSeq
<1>4. \A k \in 0 .. len - 2 : Cell(k)' = Cell(1 + k)
  BY <1>1, DropCells
<1>5. Contents # << >> /\ Head(Contents) = Cell(0)
  BY <1>1, ContentsSeq
<1>6. ASSUME NEW i \in 1 .. len - 1
      PROVE  Contents'[i] = Tail(Contents)[i]
  <2>1. i - 1 \in 0 .. len - 2 /\ i + 1 \in 1 .. len
    BY <1>1
  <2>2. Contents'[i] = Cell(1 + (i - 1))
    BY <1>3, <1>4, <2>1
  <2>3. Contents[i + 1] = Cell(i + 1 - 1)
    BY <2>1, ContentsSeq
  <2>4. 1 + (i - 1) = i + 1 - 1
    BY <1>1
  <2> QED BY <1>1, <2>2, <2>3, <2>4, ContentsSeq
<1>7. Tail(Contents) \in Seq(Byte) /\ Len(Tail(Contents)) = len - 1
  BY <1>1, <1>5, ContentsSeq
<1>8. Contents' = Tail(Contents)
  BY <1>1, <1>3, <1>6, <1>7
<1>9. Peek(0, 1) = << Cell(0) >>
  BY DEF Peek
<1> QED BY <1>5, <1>8, <1>9

(* A step that keeps positions and cells keeps the contents; a reset empties *)
(* them.                                                                    *)
LEMMA KeepContents == Keep => Contents' = Contents
BY DEF Keep, Contents, Peek, Cell, Pos

LEMMA ResetContents == len' = 0 => Contents' = << >>
BY DEF Contents, Peek

LEMMA FifoInit == Init => Fifo!Init
<1> SUFFICES ASSUME Init PROVE Fifo!Init
  OBVIOUS
<1>1. Contents = << >>
  BY DEF Init, Contents, Peek
<1> QED BY <1>1 DEF Init, Fifo!Init

LEMMA FifoStep ==
  RingOK /\ [TextNext]_cbVars => [Fifo!Next]_<< Contents, ret >>
<1> SUFFICES ASSUME RingOK, [TextNext]_cbVars
             PROVE  [Fifo!Next]_<< Contents, ret >>
  OBVIOUS
<1>0. Len(Contents) = len /\ len \in 0 .. Size
  BY ContentsSeq DEF RingOK
<1>1. CASE Reset
  BY <1>1, ResetContents DEF Reset, Returns, Fifo!Next, Fifo!Reset, Fifo!Answer
<1>2. CASE GetCh
  <2>1. CASE len > 0 /\ Drop(1) /\ Returns("getCh", "OK", Peek(0, 1))
    <3>1. Fifo!GetCh
      BY <2>1, GetTakesHead DEF Returns, Fifo!GetCh, Fifo!Answer
    <3> QED BY <3>1 DEF Fifo!Next
  <2>2. CASE len = 0 /\ Keep /\ Returns("getCh", "EOF", << >>)
    <3>1. Contents = << >>
      BY <2>2 DEF Contents, Peek
    <3>2. Fifo!GetCh
      BY <2>2, <3>1, KeepContents DEF Returns, Fifo!GetCh, Fifo!Answer
    <3> QED BY <3>2 DEF Fifo!Next
  <2> QED BY <1>2, <2>1, <2>2 DEF GetCh
<1>3. ASSUME NEW ch \in Chars, PutCh(ch) PROVE Fifo!Next
  <2>1. CASE len < Size /\ Store(<< ch >>) /\ Returns("putCh", "OK", << >>)
    <3>1. Contents' = Append(Contents, ch)
      BY <2>1, CharsAssumption, PutAppends
    <3>2. Fifo!PutCh(ch)
      BY <1>0, <2>1, <3>1 DEF Returns, Fifo!PutCh, Fifo!Answer
    <3> QED BY <3>2 DEF Fifo!Next
  <2>2. CASE len >= Size /\ Keep /\ Returns("putCh", "OVERFLOW", << >>)
    <3>1. Len(Contents) = Size
      BY <1>0, <2>2, SizeAssumption
    <3>2. Fifo!PutCh(ch)
      BY <2>2, <3>1, KeepContents DEF Returns, Fifo!PutCh, Fifo!Answer
    <3> QED BY <3>2 DEF Fifo!Next
  <2> QED BY <1>3, <2>1, <2>2 DEF PutCh
<1>4. CASE UNCHANGED cbVars
  BY <1>4, KeepContents DEF cbVars, Keep
<1> QED BY <1>1, <1>2, <1>3, <1>4 DEF TextNext

(* The engine's text buffer, of any size, implements the bounded queue of   *)
(* characters.                                                              *)
THEOREM TextRefinement == TextSpec => RefinesCharFifo
BY FifoInit, FifoStep, TextRingOK, PTL DEF TextSpec, RefinesCharFifo, Fifo!Spec

-----------------------------------------------------------------------------
(* The ring used for items.                                                *)
IBInv == RingOK /\ Framed /\ NoTornItem

LEMMA ItemFacts ==
  ASSUME NEW it \in Items
  PROVE  /\ it \in Seq(Byte) /\ Len(it) \in Nat /\ Len(it) >= HEADSIZE
         /\ ItemLen(it) = Len(it)
<1>1. it \in Seq(Byte) /\ Len(it) >= HEADSIZE /\ Len(it) = HEADSIZE + it[HEADSIZE]
  BY ItemsAssumption
<1>2. HEADSIZE \in Nat \ {0} /\ Len(it) \in Nat
  BY <1>1, SizeAssumption
<1>3. HEADSIZE \in 1 .. Len(it)
  BY <1>1, <1>2
<1>4. it[HEADSIZE] \in Byte
  BY <1>1, <1>3
<1>5. it[HEADSIZE] \in Nat
  BY <1>4 DEF Byte
<1>6. ItemLen(it) = Len(it)
  BY <1>1, <1>2, <1>5 DEF ItemLen
<1> QED BY <1>1, <1>2, <1>6

LEMMA RingTypes ==
  ASSUME RingOK
  PROVE  /\ len \in 0 .. Size /\ len \in Nat
         /\ front \in Index /\ Size \in Nat /\ HEADSIZE \in Nat \ {0}
<1>1. len \in 0 .. Size /\ front \in Index
  BY DEF RingOK
<1> QED BY <1>1, SizeAssumption

\* A buffer that is not empty starts with a whole item, and the length the
\* getter computes is the length of that item.
LEMMA FirstItem ==
  ASSUME RingOK, Framed, len > 0
  PROVE  /\ items # << >> /\ items[1] \in Items
         /\ Len(items[1]) <= len /\ HEADSIZE <= len
         /\ \A j \in 1 .. Len(items[1]) : Cell(j - 1) = items[1][j]
         /\ HeadLen = Len(items[1])
         /\ Cell(0) = items[1][1]
<1>1. items # << >> /\ items \in Seq(Items) /\ len \in Nat /\ HEADSIZE \in Nat \ {0}
  BY RingTypes DEF Framed
<1>2. 1 \in 1 .. Len(items) /\ items[1] \in Items
  BY <1>1
<1>3. at[1] = 0 /\ at[1] + Len(items[1]) <= len
  BY <1>1, <1>2 DEF Framed
<1>4. Len(items[1]) \in Nat /\ Len(items[1]) >= HEADSIZE /\ ItemLen(items[1]) = Len(items[1])
  BY <1>2, ItemFacts
<1>5. ASSUME NEW j \in 1 .. Len(items[1]) PROVE Cell(j - 1) = items[1][j]
  <2>1. Cell(at[1] + j - 1) = items[1][j]
    BY <1>2 DEF Framed
  <2>2. at[1] + j - 1 = j - 1
    BY <1>3, <1>4
  <2> QED BY <2>1, <2>2
<1>6. HEADSIZE \in 1 .. Len(items[1]) /\ 1 \in 1 .. Len(items[1])
  BY <1>4, SizeAssumption
<1>7. Cell(HEADSIZE - 1) = items[1][HEADSIZE] /\ Cell(1 - 1) = items[1][1]
  BY <1>5, <1>6
<1>8. HeadLen = Len(items[1])
  <2>1. items[1][HEADSIZE] \in Byte
    BY <1>2, <1>6, ItemFacts
  <2>2. items[1][HEADSIZE] \in Nat
    BY <2>1 DEF Byte
  <2> QED BY <1>1, <1>4, <1>7, <2>2 DEF HeadLen, ItemLen
<1>9. Len(items[1]) <= len /\ HEADSIZE <= len
  BY <1>1, <1>3, <1>4
<1>10. Cell(0) = items[1][1]
  <2>1. 1 - 1 = 0
    OBVIOUS
  <2> QED BY <1>7, <2>1
<1> QED BY <1>1, <1>2, <1>5, <1>8, <1>9, <1>10

-----------------------------------------------------------------------------
LEMMA PutFramed ==
  ASSUME RingOK, Framed, NEW it \in Items, len + Len(it) <= Size, Store(it),
         Remember(it)
  PROVE  Framed'
<1> DEFINE n == Len(items)
<1>1. /\ items \in Seq(Items) /\ at \in Seq(Offsets) /\ Len(at) = n /\ n \in Nat
      /\ len \in 0 .. Size /\ front' = front /\ len' = len + Len(it) /\ Len(items) = n
  <2>1. items \in Seq(Items) /\ at \in Seq(Offsets) /\ Len(at) = n
    BY DEF Framed
  <2>2. front' = front /\ len' = len + Len(it)
    BY DEF Store
  <2> QED BY <2>1, <2>2, RingTypes
<1>F. /\ \A i \in 1 .. n : at[i] + Len(items[i]) <= len
      /\ \A i \in 1 .. n : i < n => at[i + 1] = at[i] + Len(items[i])
      /\ \A i \in 1 .. n : \A k \in i + 1 .. n : at[i] + Len(items[i]) <= at[k]
      /\ \A i \in 1 .. n : \A j \in 1 .. Len(items[i]) : Cell(at[i] + j - 1) = items[i][j]
      /\ items # << >> => at[1] = 0 /\ at[n] + Len(items[n]) = len
      /\ items = << >> => len = 0
  BY DEF Framed
<1>N. ASSUME NEW i \in 1 .. n
      PROVE  items[i] \in Items /\ Len(items[i]) \in Nat /\ at[i] \in 0 .. Size /\ at[i] \in Nat
  <2>1. items \in Seq(Items) /\ at \in Seq(Offsets) /\ Len(at) = Len(items)
    BY DEF Framed
  <2>2. items[i] \in Items
    BY <2>1
  <2>3. at[i] \in Offsets
    BY <2>1
  <2>4. at[i] \in 0 .. Size
    BY <2>3 DEF Offsets
  <2> QED BY <2>2, <2>4, ItemFacts, RingTypes
<1>E. n = 0 <=> items = << >>
  BY <1>1
<1> HIDE DEF n
<1>2. it \in Seq(Byte) /\ Len(it) \in Nat /\ Len(it) >= HEADSIZE /\ HEADSIZE > 0
  BY ItemFacts, RingTypes
<1>O. len \in Offsets
  BY RingTypes DEF Offsets
<1>3. /\ items' \in Seq(Items) /\ at' \in Seq(Offsets)
      /\ Len(items') = n + 1 /\ Len(at') = n + 1 /\ items' # << >>
  BY <1>1, <1>O DEF Remember
<1>4. /\ \A i \in 1 .. n : items'[i] = items[i] /\ at'[i] = at[i]
      /\ items'[n + 1] = it /\ at'[n + 1] = len
  BY <1>1 DEF Remember
<1>6. /\ \A k \in 0 .. len - 1 : Cell(k)' = Cell(k)
      /\ \A k \in 0 .. Len(it) - 1 : buf'[Pos(front, len + k)] = it[k + 1]
  BY <1>2, StoreCells
<1>7. at'[1] = 0
  <2>1. CASE n = 0
    BY <1>4, <1>E, <1>F, <2>1
  <2>2. CASE n > 0
    <3>1. 1 \in 1 .. n /\ items # << >>
      BY <1>1, <1>E, <2>2
    <3> QED BY <1>4, <1>F, <3>1
  <2> QED BY <1>1, <2>1, <2>2
<1>8. at'[Len(at')] + Len(items'[Len(items')]) = len'
  BY <1>1, <1>3, <1>4
<1>9. ASSUME NEW i \in 1 .. n + 1
      PROVE  /\ at'[i] + Len(items'[i]) <= len'
             /\ i < n + 1 => at'[i + 1] = at'[i] + Len(items'[i])
             /\ \A k \in i + 1 .. n + 1 : at'[i] + Len(items'[i]) <= at'[k]
             /\ \A j \in 1 .. Len(items'[i]) :
                  buf'[Pos(front', at'[i] + j - 1)] = items'[i][j]
  <2>1. CASE i \in 1 .. n
    <3>1. at'[i] = at[i] /\ items'[i] = items[i] /\ at[i] + Len(items[i]) <= len
      BY <1>4, <1>F, <2>1
    <3>2. at'[i] + Len(items'[i]) <= len'
      <4>1. Len(items[i]) \in Nat /\ at[i] \in Nat /\ len \in Nat
        BY <1>N, <2>1, RingTypes
      <4>2. len' = len + Len(it) /\ Len(it) \in Nat
        BY <1>1, <1>2
      <4> QED BY <3>1, <4>1, <4>2
    <3>3. ASSUME i < n + 1 PROVE at'[i + 1] = at'[i] + Len(items'[i])
      <4>1. CASE i = n
        <5>1. items # << >>
          BY <1>1, <1>E, <2>1, <4>1
        <5>2. at[n] + Len(items[n]) = len
          BY <1>F, <5>1
        <5> QED BY <1>4, <3>1, <4>1, <5>2
      <4>2. CASE i < n
        <5>1. i + 1 \in 1 .. n /\ at[i + 1] = at[i] + Len(items[i])
          <6>1. i + 1 \in 1 .. n
            BY <1>1, <2>1, <4>2
          <6> QED BY <1>F, <2>1, <4>2, <6>1
        <5> QED BY <1>4, <3>1, <5>1
      <4> QED BY <1>1, <2>1, <4>1, <4>2
    <3>4. ASSUME NEW k \in i + 1 .. n + 1 PROVE at'[i] + Len(items'[i]) <= at'[k]
      <4>1. CASE k = n + 1
        BY <1>4, <3>1, <4>1
      <4>2. CASE k # n + 1
        <5>1. k \in i + 1 .. n /\ k \in 1 .. n
          <6>1. n \in Nat /\ i \in 1 .. n
            BY <1>1, <2>1
          <6> QED BY <4>2, <6>1
        <5>2. at[i] + Len(items[i]) <= at[k]
          BY <1>F, <2>1, <5>1
        <5> QED BY <1>4, <3>1, <5>1, <5>2
      <4> QED BY <4>1, <4>2
    <3>5. ASSUME NEW j \in 1 .. Len(items'[i])
          PROVE  buf'[Pos(front', at'[i] + j - 1)] = items'[i][j]
      <4>1. Cell(at[i] + j - 1) = items[i][j]
        BY <1>F, <2>1, <3>1
      <4>2. at[i] + j - 1 \in 0 .. len - 1
        <5>1. at[i] \in Nat /\ Len(items[i]) \in Nat /\ len \in Nat /\ j \in 1 .. Len(items[i])
          BY <1>N, <2>1, <3>1, RingTypes
        <5> QED BY <3>1, <5>1, SMTT(30)
      <4>3. Cell(at[i] + j - 1)' = buf'[Pos(front', at'[i] + j - 1)]
        BY <3>1 DEF Cell, Pos
      <4>4. buf'[Pos(front', at[i] + j - 1)] = buf[Pos(front, at[i] + j - 1)]
        BY <1>1, <1>6, <4>2 DEF Cell, Pos
      <4> QED BY <3>1, <4>1, <4>4 DEF Cell
    <3> QED BY <3>2, <3>3, <3>4, <3>5
  <2>2. CASE i = n + 1
    <3>1. at'[i] = len /\ items'[i] = it
      BY <1>4, <2>2
    <3>2. ASSUME NEW j \in 1 .. Len(it)
          PROVE  buf'[Pos(front', len + j - 1)] = it[j]
      <4>1. j - 1 \in 0 .. Len(it) - 1 /\ len + (j - 1) = len + j - 1 /\ (j - 1) + 1 = j
        BY <1>1, <1>2
      <4> QED BY <1>1, <1>6, <4>1
    <3>3. (i + 1) .. (n + 1) = {} /\ ~(i < n + 1) /\ at'[i] + Len(items'[i]) <= len'
      BY <1>1, <1>2, <2>2, <3>1
    <3> QED BY <3>1, <3>2, <3>3
  <2> QED BY <1>1, <2>1, <2>2
<1> QED BY <1>3, <1>7, <1>8, <1>9 DEF Framed, Cell, Pos

LEMMA GetFramed ==
  ASSUME RingOK, Framed, len > 0, Drop(HeadLen), Forget
  PROVE  Framed'
<1> DEFINE n == Len(items)
           h == HeadLen
<1>1. /\ items \in Seq(Items) /\ at \in Seq(Offsets) /\ Len(at) = n
      /\ items # << >> /\ n \in Nat \ {0} /\ n \in Int /\ Len(items) = n
  BY FirstItem DEF Framed
<1>2. h = Len(items[1]) /\ h \in Nat /\ h <= len /\ h \in 0 .. len
  <2>1. items[1] \in Items /\ Len(items[1]) <= len /\ h = Len(items[1])
    BY FirstItem
  <2> QED BY <2>1, ItemFacts, RingTypes
<1>F. /\ \A i \in 1 .. n : at[i] + Len(items[i]) <= len
      /\ \A i \in 1 .. n : i < n => at[i + 1] = at[i] + Len(items[i])
      /\ \A i \in 1 .. n : \A k \in i + 1 .. n : at[i] + Len(items[i]) <= at[k]
      /\ \A i \in 1 .. n : \A j \in 1 .. Len(items[i]) : Cell(at[i] + j - 1) = items[i][j]
      /\ items # << >> => at[1] = 0 /\ at[n] + Len(items[n]) = len
      /\ items = << >> => len = 0
  BY DEF Framed
<1>N. ASSUME NEW i \in 1 .. n
      PROVE  items[i] \in Items /\ Len(items[i]) \in Nat /\ at[i] \in 0 .. Size /\ at[i] \in Nat
  <2>1. items \in Seq(Items) /\ at \in Seq(Offsets) /\ Len(at) = Len(items)
    BY DEF Framed
  <2>2. items[i] \in Items
    BY <2>1
  <2>3. at[i] \in Offsets
    BY <2>1
  <2>4. at[i] \in 0 .. Size
    BY <2>3 DEF Offsets
  <2> QED BY <2>2, <2>4, ItemFacts, RingTypes
<1>3. RingOK' /\ len' = len - h /\ len \in Nat
  BY <1>2, DropRing, RingTypes
<1> HIDE DEF n
<1>4. \A k \in 0 .. len - h - 1 : Cell(k)' = Cell(h + k)
  BY <1>2, DropCells
<1>5. items' \in Seq(Items) /\ Len(items') = n - 1 /\ \A i \in 1 .. n - 1 : items'[i] = items[i + 1]
  BY <1>1 DEF Forget
<1>6. ASSUME NEW i \in 1 .. n - 1
      PROVE  /\ i + 1 \in 1 .. n /\ Len(items[i + 1]) \in Nat
             /\ at[i + 1] \in 0 .. Size /\ at[i + 1] >= h
             /\ at'[i] = at[i + 1] - h /\ at'[i] \in 0 .. Size
             /\ at[i + 1] + Len(items[i + 1]) <= len
  <2> HIDE DEF h
  <2>1. i + 1 \in 1 .. n /\ 1 \in 1 .. n /\ i + 1 \in 1 + 1 .. n
    BY <1>1
  <2>2. at[i + 1] \in 0 .. Size /\ at[i + 1] \in Nat /\ Size \in Nat
    BY <1>N, <2>1, RingTypes
  <2>3. Len(items[i + 1]) \in Nat
    BY <1>N, <2>1
  <2>4. at[1] = 0 /\ at[1] + Len(items[1]) <= at[i + 1]
    BY <1>1, <1>F, <2>1
  <2>5. at[i + 1] >= h
    BY <1>2, <2>4
  <2>6. at'[i] = at[i + 1] - h
    BY <1>1 DEF h, Forget
  <2>7. at'[i] \in 0 .. Size
    BY <1>2, <2>2, <2>5, <2>6
  <2>8. at[i + 1] + Len(items[i + 1]) <= len
    BY <1>F, <2>1
  <2> QED BY <2>1, <2>2, <2>3, <2>5, <2>6, <2>7, <2>8
<1> HIDE DEF h
<1>7. at' \in Seq(Offsets) /\ Len(at') = n - 1
  <2>1. at' = [i \in 1 .. n - 1 |-> at'[i]]
    BY <1>1 DEF Forget
  <2>2. at' \in [1 .. n - 1 -> Offsets]
    BY <1>6, <2>1 DEF Offsets
  <2>3. n - 1 \in Nat
    BY <1>1
  <2> QED BY <2>1, <2>2, <2>3
<1>8. CASE n = 1
  <2>1. items' = << >> /\ Len(items') = 0 /\ items \in Seq(Items)
    BY <1>1, <1>5, <1>8
  <2>2. at[1] = 0 /\ at[n] + Len(items[n]) = len
    BY <1>1, <1>F
  <2>3. len' = 0
    BY <1>2, <1>3, <1>8, <2>2, RingTypes
  <2> QED BY <1>5, <1>7, <1>8, <2>1, <2>3 DEF Framed
<1>9. CASE n # 1
  <2>1. n - 1 \in 1 .. n - 1 /\ 1 \in 1 .. n - 1 /\ (n - 1) + 1 = n /\ 1 + 1 = 2
    BY <1>1, <1>9
  <2>2. at'[1] = 0
    <3>1. at[2] = at[1] + Len(items[1]) /\ at[1] = 0
      <4>1. 1 \in 1 .. n /\ 1 < n /\ 1 + 1 = 2
        BY <1>1, <1>9
      <4> QED BY <1>1, <1>F, <4>1
    <3>2. at'[1] = at[2] - h
      BY <1>6, <2>1
    <3> QED BY <1>2, <3>1, <3>2
  <2>3. at'[n - 1] + Len(items'[n - 1]) = len'
    <3>1. at[n] + Len(items[n]) = len
      BY <1>1, <1>F
    <3>2. at'[n - 1] = at[n] - h /\ items'[n - 1] = items[n]
      BY <1>5, <1>6, <2>1
    <3>3. at[n] \in Nat /\ Len(items[n]) \in Nat /\ len \in Nat /\ h \in Nat
      <4>1. n \in 1 .. n
        BY <1>1
      <4> QED BY <1>2, <1>3, <1>N, <4>1
    <3> QED BY <1>3, <3>1, <3>2, <3>3
  <2>4. ASSUME NEW i \in 1 .. n - 1
        PROVE  /\ at'[i] + Len(items'[i]) <= len'
               /\ i < n - 1 => at'[i + 1] = at'[i] + Len(items'[i])
               /\ \A k \in i + 1 .. n - 1 : at'[i] + Len(items'[i]) <= at'[k]
               /\ \A j \in 1 .. Len(items'[i]) :
                    buf'[Pos(front', at'[i] + j - 1)] = items'[i][j]
    <3>1. /\ i + 1 \in 1 .. n /\ Len(items[i + 1]) \in Nat /\ at[i + 1] \in Int
          /\ at'[i] = at[i + 1] - h /\ items'[i] = items[i + 1]
          /\ at[i + 1] + Len(items[i + 1]) <= len /\ at[i + 1] >= h /\ at[i + 1] \in Nat
      <4>1. i + 1 \in 1 .. n
        BY <1>6
      <4>2. at[i + 1] \in Nat /\ at[i + 1] \in Int
        BY <1>N, <4>1
      <4> QED BY <1>5, <1>6, <4>2
    <3>2. at'[i] + Len(items'[i]) <= len'
      BY <1>2, <1>3, <3>1
    <3>3. ASSUME i < n - 1 PROVE at'[i + 1] = at'[i] + Len(items'[i])
      <4>1. i + 1 \in 1 .. n - 1 /\ i + 1 < n /\ (i + 1) + 1 \in 1 .. n
        BY <1>1, <3>1, <3>3
      <4>2. at[(i + 1) + 1] = at[i + 1] + Len(items[i + 1])
        BY <1>F, <3>1, <4>1
      <4>3. at'[i + 1] = at[(i + 1) + 1] - h
        BY <1>6, <4>1
      <4>4. at[(i + 1) + 1] \in Nat
        BY <1>N, <4>1
      <4> DEFINE a == at[i + 1]
                 b == at[(i + 1) + 1]
                 c == Len(items[i + 1])
      <4>5. a \in Int /\ b \in Int /\ c \in Int /\ b = a + c
        BY <3>1, <4>2, <4>4
      <4>6. at'[i] = a - h /\ Len(items'[i]) = c /\ at'[i + 1] = b - h
        BY <3>1, <4>3
      <4> HIDE DEF a, b, c
      <4>7. b - h = (a - h) + c
        BY <1>2, <4>5
      <4> QED BY <4>6, <4>7
    <3>4. ASSUME NEW k \in i + 1 .. n - 1 PROVE at'[i] + Len(items'[i]) <= at'[k]
      <4>1. k \in 1 .. n - 1 /\ k + 1 \in (i + 1) + 1 .. n
        <5>1. i \in 1 .. n - 1 /\ k \in i + 1 .. n - 1 /\ n \in Nat
          BY <1>1
        <5> QED BY <5>1
      <4>2. at[i + 1] + Len(items[i + 1]) <= at[k + 1]
        BY <1>F, <3>1, <4>1
      <4>3. at'[k] = at[k + 1] - h /\ at[k + 1] \in 0 .. Size
        BY <1>6, <4>1
      <4>4. at[k + 1] \in Nat
        <5>1. k + 1 \in 1 .. n
          BY <1>6, <4>1
        <5> QED BY <1>N, <5>1
      <4> QED BY <1>2, <3>1, <4>2, <4>3, <4>4, SMTT(30)
    <3>5. ASSUME NEW j \in 1 .. Len(items'[i])
          PROVE  buf'[Pos(front', at'[i] + j - 1)] = items'[i][j]
      <4>1. Cell(at[i + 1] + j - 1) = items[i + 1][j]
        BY <1>F, <3>1
      <4>2. /\ at'[i] + j - 1 \in 0 .. len - h - 1
            /\ h + (at'[i] + j - 1) = at[i + 1] + j - 1
        <5>1. j \in 1 .. Len(items[i + 1]) /\ len \in Nat
          BY <1>3, <3>1
        <5>2. j \in Nat /\ j >= 1 /\ j <= Len(items[i + 1]) /\ h \in Nat
          BY <1>2, <3>1, <5>1
        <5>3. at[i + 1] + j <= len /\ at[i + 1] >= h /\ at[i + 1] \in Nat
          BY <3>1, <5>1, <5>2
        <5>4. at'[i] = at[i + 1] - h
          BY <3>1
        <5> QED BY <5>1, <5>2, <5>3, <5>4, SMTT(30)
      <4>3. \A k \in 0 .. len - h - 1 : buf'[Pos(front', k)] = buf[Pos(front, h + k)]
        BY <1>4 DEF Cell, Pos
      <4>4. buf'[Pos(front', at'[i] + j - 1)] = buf[Pos(front, at[i + 1] + j - 1)]
        BY <4>2, <4>3
      <4>5. buf[Pos(front, at[i + 1] + j - 1)] = items[i + 1][j]
        BY <4>1 DEF Cell
      <4> QED BY <3>1, <4>4, <4>5
    <3> QED BY <3>2, <3>3, <3>4, <3>5
  <2>5. Len(at') = n - 1 /\ Len(items') = n - 1 /\ items' # << >>
    BY <1>1, <1>5, <1>7, <1>9
  <2>6. at'[Len(at')] + Len(items'[Len(items')]) = len'
    BY <2>3, <2>5
  <2>7. \A i \in 1 .. Len(items') :
          /\ at'[i] + Len(items'[i]) <= len'
          /\ i < Len(items') => at'[i + 1] = at'[i] + Len(items'[i])
          /\ \A k \in i + 1 .. Len(items') : at'[i] + Len(items'[i]) <= at'[k]
          /\ \A j \in 1 .. Len(items'[i]) :
               buf'[Pos(front', at'[i] + j - 1)] = items'[i][j]
    BY <2>4, <2>5
  <2>8. items' \in Seq(Items) /\ at' \in Seq(Offsets) /\ Len(at') = Len(items')
    BY <1>5, <1>7, <2>5
  <2> QED BY <2>2, <2>5, <2>6, <2>7, <2>8 DEF Framed, Cell, Pos, Offsets
<1> QED BY <1>8, <1>9

\* A call that leaves the ring and the history alone leaves Framed alone.
LEMMA KeepFramed ==
  ASSUME RingOK, Framed, Keep, UNCHANGED << items, at >>
  PROVE  RingOK' /\ Framed'
BY DEF RingOK, Framed, Keep, Cell, Pos, Offsets

\* A getter that takes an item takes it from a buffer that is not empty, and
\* drops as many bytes as that item has.
LEMMA GetTakes ==
  ASSUME NEW issd, NEW n, GetItemRc(issd, n) = "OK"
  PROVE  len # 0
BY DEF GetItemRc

LEMMA IBInitInv == IBInit => IBInv
<1> SUFFICES ASSUME IBInit PROVE IBInv
  OBVIOUS
<1>1. RingOK
  BY TextInit DEF IBInit
<1>2. Framed
  BY DEF IBInit, Init, Framed
<1>3. NoTornItem
  BY DEF IBInit, Init, NoTornItem
<1> QED BY <1>1, <1>2, <1>3 DEF IBInv

LEMMA IBStepInv == IBInv /\ [IBNext]_ibVars => IBInv'
<1> SUFFICES ASSUME RingOK, Framed, NoTornItem, [IBNext]_ibVars PROVE IBInv'
  BY DEF IBInv
<1>1. CASE IBReset
  <2>1. RingOK'
    <3>1. buf' = buf /\ front' = 0 /\ rear' = 0 /\ len' = 0
      BY <1>1 DEF IBReset, Reset
    <3>2. 0 \in Index /\ 0 \in 0 .. Size /\ 0 = Pos(0, 0)
      BY SizeAssumption DEF Index, Pos
    <3> QED BY <3>1, <3>2 DEF RingOK
  <2>2. Framed'
    BY <1>1 DEF IBReset, Reset, Framed
  <2>3. NoTornItem'
    BY <1>1 DEF IBReset, Reset, Returns, NoTornItem
  <2> QED BY <2>1, <2>2, <2>3 DEF IBInv
<1>2. ASSUME NEW it \in Items, NEW n \in BufLens, IBPutItem(it, n) PROVE IBInv'
  <2>1. NoTornItem'
    BY <1>2 DEF IBPutItem, PutItem, Returns, NoTornItem
  <2>2. CASE PutItemRc(it, n) = "OK"
    <3>1. Store(it) /\ Remember(it)
      BY <1>2, <2>2 DEF IBPutItem, PutItem
    <3>2. ~(ItemLen(it) > Size - len)
      BY <2>2 DEF PutItemRc
    <3>3. it \in Seq(Byte) /\ len + Len(it) <= Size
      BY <3>2, ItemFacts, RingTypes
    <3> QED BY <2>1, <3>1, <3>3, StoreRing, PutFramed DEF IBInv
  <2>3. CASE PutItemRc(it, n) # "OK"
    <3>1. Keep /\ UNCHANGED << items, at >>
      BY <1>2, <2>3 DEF IBPutItem, PutItem
    <3> QED BY <2>1, <3>1, KeepFramed DEF IBInv
  <2> QED BY <2>2, <2>3
<1>3. ASSUME NEW issd \in BOOLEAN, NEW n \in BufLens, IBGetItem(issd, n) PROVE IBInv'
  <2>1. NoTornItem'
    <3>1. GetItemRc(issd, n) # "UNDERFLOW"
      <4>1. CASE len = 0
        BY <4>1 DEF GetItemRc
      <4>2. CASE len # 0
        <5>1. /\ HEADSIZE <= len /\ HeadLen = Len(items[1])
              /\ Len(items[1]) <= len /\ items[1] \in Items
          BY <4>2, FirstItem, RingTypes
        <5>2. ~(len < HEADSIZE) /\ ~(HeadLen > len)
          BY <5>1, ItemFacts, RingTypes
        <5> QED BY <4>2, <5>2 DEF GetItemRc
      <4> QED BY <4>1, <4>2
    <3> QED BY <1>3, <3>1 DEF IBGetItem, GetItem, Returns, NoTornItem
  <2>2. CASE GetItemRc(issd, n) = "OK"
    <3>1. Drop(HeadLen) /\ Forget /\ len > 0
      BY <1>3, <2>2, GetTakes, RingTypes DEF IBGetItem, GetItem
    <3>2. HeadLen \in 0 .. len
      <4>1. items[1] \in Items /\ Len(items[1]) <= len /\ HeadLen = Len(items[1])
        BY <3>1, FirstItem
      <4> QED BY <4>1, ItemFacts, RingTypes
    <3> QED BY <2>1, <3>1, <3>2, DropRing, GetFramed DEF IBInv
  <2>3. CASE GetItemRc(issd, n) # "OK"
    <3>1. Keep /\ UNCHANGED << items, at >>
      BY <1>3, <2>3 DEF IBGetItem, GetItem
    <3> QED BY <2>1, <3>1, KeepFramed DEF IBInv
  <2> QED BY <2>2, <2>3
<1>4. CASE UNCHANGED ibVars
  <2>1. Keep /\ UNCHANGED << items, at >> /\ ret' = ret
    BY <1>4 DEF ibVars, Keep
  <2> QED BY <2>1, KeepFramed DEF IBInv, NoTornItem
<1> QED BY <1>1, <1>2, <1>3, <1>4 DEF IBNext

(* The bytes between front and rear are whole items, laid end to end, in    *)
(* every reachable state of a buffer of any size.                           *)
THEOREM ItemsFramed == IBSpec => []Framed
<1>1. IBInv => Framed
  BY DEF IBInv
<1> QED BY <1>1, IBInitInv, IBStepInv, PTL DEF IBSpec

(* No getter ever answers PICO_EXC_BUF_UNDERFLOW.                           *)
THEOREM NeverTorn == IBSpec => []NoTornItem
<1>1. IBInv => NoTornItem
  BY DEF IBInv
<1> QED BY <1>1, IBInitInv, IBStepInv, PTL DEF IBSpec

-----------------------------------------------------------------------------
(* The refinement of the queue of whole items.                              *)
LEMMA IBFifoStep == IBInv /\ [IBNext]_ibVars => [IBFifo!Next]_<< items, len, ret >>
<1> SUFFICES ASSUME RingOK, Framed, [IBNext]_ibVars
             PROVE  [IBFifo!Next]_<< items, len, ret >>
  BY DEF IBInv
<1>1. CASE IBReset
  BY <1>1 DEF IBReset, Reset, Returns, IBFifo!Next, IBFifo!Reset, IBFifo!Answer
<1>2. ASSUME NEW it \in Items, NEW n \in BufLens, IBPutItem(it, n)
      PROVE  IBFifo!Put(it, n)
  <2>1. /\ ItemLen(it) = Len(it) /\ Len(it) \in Nat /\ HEADSIZE <= Len(it)
        /\ n \in Nat /\ len \in Nat /\ Size \in Nat /\ HEADSIZE \in Nat
    BY ItemFacts, RingTypes, CharsAssumption
  <2>2. ret' = [op |-> "putItem", rc |-> PutItemRc(it, n), out |-> << >>]
    BY <1>2 DEF IBPutItem, PutItem, Returns
  <2>3. CASE PutItemRc(it, n) = "OK"
    <3>1. items' = Append(items, it) /\ len' = len + Len(it)
      BY <1>2, <2>3 DEF IBPutItem, PutItem, Store, Remember
    <3>2. len + Len(it) <= Size /\ Len(it) <= n
      BY <2>1, <2>3 DEF PutItemRc
    <3> QED BY <2>2, <2>3, <3>1, <3>2 DEF IBFifo!Put, IBFifo!Answer
  <2>4. CASE PutItemRc(it, n) # "OK"
    <3>1. UNCHANGED << items, len >>
      BY <1>2, <2>4 DEF IBPutItem, PutItem, Keep
    <3>2. \/ PutItemRc(it, n) = "OVERFLOW" /\ len + Len(it) > Size
          \/ PutItemRc(it, n) = "UNDERFLOW" /\ Len(it) > n
      BY <2>1, <2>4 DEF PutItemRc
    <3> QED BY <2>2, <3>1, <3>2 DEF IBFifo!Put, IBFifo!Answer
  <2> QED BY <2>3, <2>4
<1>3. ASSUME NEW issd \in BOOLEAN, NEW n \in BufLens, IBGetItem(issd, n)
      PROVE  IBFifo!GetNothing(issd) \/ IBFifo!Get(issd, n)
  <2> DEFINE op == IF issd THEN "getSpeechData" ELSE "getItem"
             hd == IF issd THEN HEADSIZE ELSE 0
             out == IF GetItemRc(issd, n) # "OK" \/ SkipsItem(issd)
                    THEN << >> ELSE Peek(hd, HeadLen - hd)
  <2>1. ret' = [op |-> op, rc |-> GetItemRc(issd, n), out |-> out] /\ op = IBFifo!GetOp(issd)
    BY <1>3 DEF IBGetItem, GetItem, Returns, IBFifo!GetOp
  <2> HIDE DEF op
  <2>2. CASE len = 0
    <3>1. items = << >>
      <4>1. ASSUME items # << >> PROVE FALSE
        <5>1. /\ items \in Seq(Items) /\ 1 \in 1 .. Len(items)
          BY <4>1 DEF Framed
        <5>2. items[1] \in Items /\ at[1] = 0 /\ at[1] + Len(items[1]) <= len
          BY <4>1, <5>1 DEF Framed
        <5>3. Len(items[1]) \in Nat /\ Len(items[1]) >= HEADSIZE
          BY <5>2, ItemFacts
        <5> QED BY <2>2, <5>2, <5>3, RingTypes
      <4> QED BY <4>1
    <3>2. GetItemRc(issd, n) = "EOF"
      BY <2>2 DEF GetItemRc
    <3>3. UNCHANGED << items, len >>
      BY <1>3, <3>2 DEF IBGetItem, GetItem, Keep
    <3> QED BY <2>1, <3>1, <3>2, <3>3 DEF IBFifo!GetNothing, IBFifo!Answer
  <2>3. CASE len # 0
    <3>1. /\ items # << >> /\ items[1] \in Items /\ items \in Seq(Items)
          /\ Len(items[1]) <= len /\ HEADSIZE <= len
          /\ \A j \in 1 .. Len(items[1]) : Cell(j - 1) = items[1][j]
          /\ HeadLen = Len(items[1]) /\ Cell(0) = items[1][1]
      BY <2>3, FirstItem, RingTypes DEF Framed
    <3>2. /\ Head(items) = items[1] /\ Len(items[1]) \in Nat /\ Len(items[1]) >= HEADSIZE
          /\ n \in Nat /\ len \in Nat /\ HEADSIZE \in Nat
      BY <3>1, ItemFacts, RingTypes, CharsAssumption
    <3>3. ASSUME GetItemRc(issd, n) = "OK"
          PROVE  items' = Tail(items) /\ len' = len - Len(items[1])
      <4>1. Drop(HeadLen) /\ Forget
        BY <1>3, <3>3 DEF IBGetItem, GetItem
      <4>2. HeadLen \in 0 .. len
        BY <3>1, <3>2
      <4> QED BY <3>1, <4>1, <4>2, DropRing DEF Forget
    <3>4. CASE issd /\ Cell(0) # FRAME
      <4>1. GetItemRc(issd, n) = "OK" /\ SkipsItem(issd)
        BY <2>3, <3>1, <3>2, <3>4 DEF GetItemRc, SkipsItem
      <4>2. out = << >>
        BY <4>1
      <4> QED BY <2>1, <3>1, <3>2, <3>3, <3>4, <4>1, <4>2 DEF IBFifo!Get, IBFifo!Answer
    <3>5. CASE ~(issd /\ Cell(0) # FRAME) /\ n < HeadLen
      <4>1. GetItemRc(issd, n) = "OVERFLOW"
        BY <2>3, <3>1, <3>2, <3>5 DEF GetItemRc, SkipsItem
      <4>2. UNCHANGED << items, len >> /\ out = << >>
        BY <1>3, <4>1 DEF IBGetItem, GetItem, Keep
      <4> QED BY <2>1, <3>1, <3>2, <3>5, <4>1, <4>2 DEF IBFifo!Get, IBFifo!Answer
    <3>6. CASE ~(issd /\ Cell(0) # FRAME) /\ ~(n < HeadLen)
      <4>1. GetItemRc(issd, n) = "OK" /\ ~SkipsItem(issd)
        BY <2>3, <3>1, <3>2, <3>6 DEF GetItemRc, SkipsItem
      <4>2. out = Peek(hd, Len(items[1]) - hd)
        BY <3>1, <4>1
      <4>3. Peek(hd, Len(items[1]) - hd) = IBFifo!Payload(items[1], issd)
        <5>1. CASE issd
          <6>1. hd = HEADSIZE
            BY <5>1
          <6>2. ASSUME NEW i \in 1 .. Len(items[1]) - HEADSIZE
                PROVE  Cell(HEADSIZE + i - 1) = items[1][i + HEADSIZE]
            <7>1. i + HEADSIZE \in 1 .. Len(items[1]) /\ HEADSIZE + i - 1 = (i + HEADSIZE) - 1
              BY <3>2
            <7> QED BY <3>1, <7>1
          <6> QED BY <5>1, <6>1, <6>2 DEF Peek, IBFifo!Payload
        <5>2. CASE ~issd
          <6>1. hd = 0 /\ Len(items[1]) - 0 = Len(items[1])
            BY <3>2, <5>2
          <6>2. ASSUME NEW i \in 1 .. Len(items[1]) PROVE Cell(0 + i - 1) = items[1][i]
            <7>1. 0 + i - 1 = i - 1
              OBVIOUS
            <7> QED BY <3>1, <7>1
          <6>3. items[1] = [i \in 1 .. Len(items[1]) |-> items[1][i]]
            BY <3>1, ItemFacts
          <6> QED BY <5>2, <6>1, <6>2, <6>3 DEF Peek, IBFifo!Payload
        <5> QED BY <5>1, <5>2
      <4>4. out = IBFifo!Payload(items[1], issd)
        BY <4>2, <4>3
      <4> HIDE DEF out, hd
      <4> QED BY <2>1, <3>1, <3>2, <3>3, <3>6, <4>1, <4>4 DEF IBFifo!Get, IBFifo!Answer
    <3> QED BY <3>4, <3>5, <3>6
  <2> QED BY <2>2, <2>3
<1>4. CASE UNCHANGED ibVars
  BY <1>4 DEF ibVars
<1> QED BY <1>1, <1>2, <1>3, <1>4 DEF IBNext, IBFifo!Next

LEMMA IBFifoInit == IBInit => IBFifo!Init
BY DEF IBInit, Init, IBFifo!Init

(* A ring buffer of any size implements the bounded queue of whole items:   *)
(* processing units lose, tear, duplicate and reorder nothing.              *)
THEOREM ItemRefinement == IBSpec => RefinesItemFifo
BY IBFifoInit, IBInitInv, IBStepInv, IBFifoStep, PTL
   DEF IBSpec, RefinesItemFifo, IBFifo!Spec

-----------------------------------------------------------------------------
(* The memory manager.  Constants.                                          *)
\* Rounding up to the alignment never makes a request smaller.
LEMMA RoundsUp == ASSUME NEW n \in Nat PROVE RoundUp(n) \in Nat /\ RoundUp(n) >= n
<1> DEFINE q == (n + Align - 1) \div Align
<1>1. q \in Nat /\ Align * q <= n + Align - 1 /\ n + Align - 1 < Align * q + Align
  BY MemAssumption
<1>2. Align * q \in Nat /\ q * Align = Align * q
  BY <1>1, MemAssumption
<1>3. RoundUp(n) = Align * q
  BY <1>2 DEF RoundUp
<1> HIDE DEF q
<1> QED  BY <1>1, <1>2, <1>3, MemAssumption

\* Where the sentinels lie.
LEMMA Layout ==
  /\ Cbeg \in Nat /\ Cbeg > 0 /\ Cmid = Cbeg + FullHdr
  /\ Cend \in Int /\ Cmid + FullHdr <= Cend /\ Cbeg # Cend
  /\ FullHdr \in Nat /\ FullHdr > 0 /\ UsedHdr \in Nat /\ UsedHdr > 0 /\ UsedHdr < FullHdr
  /\ Align \in Nat /\ Align > 0 /\ MinCell \in Nat /\ MinCell >= FullHdr
<1>1. RoundUp(MgrSize) \in Nat /\ RoundUp(MgrSize) >= MgrSize
      /\ RoundUp(BlockHdr) \in Nat /\ RoundUp(BlockHdr) >= BlockHdr
  BY RoundsUp, MemAssumption
<1> QED  BY <1>1, MemAssumption DEF Cbeg, Cmid, Cend, MinCell

\* No request asks for a cell too small for a full header.
LEMMA CellLarge ==
  ASSUME NEW n \in Nat
  PROVE  Content(n) + UsedHdr \in Nat /\ Content(n) + UsedHdr >= FullHdr
<1>1. MinCont \in Nat /\ MinCont + UsedHdr = FullHdr
  BY Layout DEF MinCont
<1> DEFINE m == IF n < MinCont THEN MinCont ELSE n
<1>2. m \in Nat /\ m >= MinCont
  BY <1>1
<1>3. RoundUp(m) \in Nat /\ RoundUp(m) >= m
  BY <1>2, RoundsUp
<1> QED  BY <1>1, <1>2, <1>3, Layout DEF Content

-----------------------------------------------------------------------------
(* The free list.  That it has no cycle is said by ranks that grow along    *)
(* it; without that, replacing a cell by itself could not be excluded.  The *)
(* ranks leave nothing out: no cell has its rank between those of a cell    *)
(* and of the next one, so a walk along the list meets every cell.          *)
Ranks(n, r) ==
  /\ r \in [DOMAIN n -> Int]
  /\ \A c \in DOMAIN n \ {Cend} : r[c] < r[n[c]]
  /\ \A c \in DOMAIN n \ {Cend}, d \in DOMAIN n : r[d] <= r[c] \/ r[n[c]] <= r[d]
  /\ \A c, d \in DOMAIN n : r[c] = r[d] => c = d
  /\ \A d \in DOMAIN n : r[Cbeg] <= r[d] /\ r[d] <= r[Cend]

List(n, p) == Linked(n, p) /\ \E r : Ranks(n, r)

\* Taking a cell out of the list.
LEMMA Unlink ==
  ASSUME NEW n, NEW p, List(n, p), NEW c \in DOMAIN n \ {Cbeg, Cend}
  PROVE  List([x \in DOMAIN n \ {c} |-> IF x = p[c] THEN n[c] ELSE n[x]],
              [x \in DOMAIN p \ {c} |-> IF x = n[c] THEN p[c] ELSE p[x]])
<1> DEFINE N == [x \in DOMAIN n \ {c} |-> IF x = p[c] THEN n[c] ELSE n[x]]
           P == [x \in DOMAIN p \ {c} |-> IF x = n[c] THEN p[c] ELSE p[x]]
<1>1. PICK r : Ranks(n, r)
  BY DEF List
<1>2. n[c] # c /\ p[c] # c
  BY <1>1 DEF List, Linked, Ranks
<1>3. Linked(N, P)
  BY <1>2 DEF List, Linked
<1>4. Ranks(N, [x \in DOMAIN n \ {c} |-> r[x]])
  BY <1>1, <1>2 DEF List, Linked, Ranks
<1> QED  BY <1>3, <1>4 DEF List

\* A cell d takes the place of the cell c.
LEMMA Replace ==
  ASSUME NEW n, NEW p, List(n, p), NEW c \in DOMAIN n \ {Cbeg, Cend},
         NEW d, d \notin DOMAIN n
  PROVE  List([x \in (DOMAIN n \ {c}) \cup {d} |->
                 IF x = d THEN n[c] ELSE IF x = p[c] THEN d ELSE n[x]],
              [x \in (DOMAIN n \ {c}) \cup {d} |->
                 IF x = d THEN p[c] ELSE IF x = n[c] THEN d ELSE p[x]])
<1> DEFINE D == (DOMAIN n \ {c}) \cup {d}
           N == [x \in D |-> IF x = d THEN n[c] ELSE IF x = p[c] THEN d ELSE n[x]]
           P == [x \in D |-> IF x = d THEN p[c] ELSE IF x = n[c] THEN d ELSE p[x]]
<1>1. PICK r : Ranks(n, r)
  BY DEF List
<1>2. n[c] # c /\ p[c] # c
  BY <1>1 DEF List, Linked, Ranks
<1>3. Linked(N, P)
  BY <1>2 DEF List, Linked
<1>4. Ranks(N, [x \in D |-> IF x = d THEN r[c] ELSE r[x]])
  BY <1>1, <1>2 DEF List, Linked, Ranks
<1> QED  BY <1>3, <1>4 DEF List

\* A cell is put in front of the list.
LEMMA PutFirst ==
  ASSUME NEW n, NEW p, List(n, p), NEW c, c \notin DOMAIN n
  PROVE  List([x \in DOMAIN n \cup {c} |->
                 IF x = c THEN n[Cbeg] ELSE IF x = Cbeg THEN c ELSE n[x]],
              [x \in DOMAIN p \cup {c} |->
                 IF x = c THEN Cbeg ELSE IF x = n[Cbeg] THEN c ELSE p[x]])
<1> DEFINE D == DOMAIN n \cup {c}
           N == [x \in D |-> IF x = c THEN n[Cbeg] ELSE IF x = Cbeg THEN c ELSE n[x]]
           P == [x \in DOMAIN p \cup {c} |-> IF x = c THEN Cbeg ELSE IF x = n[Cbeg] THEN c ELSE p[x]]
<1>1. PICK r : Ranks(n, r)
  BY DEF List
<1>2. Linked(N, P)
  BY Layout DEF List, Linked
<1>3. Ranks(N, [x \in D |-> IF x = c THEN r[Cbeg] ELSE IF x = Cbeg THEN r[Cbeg] - 1 ELSE r[x]])
  BY <1>1, Layout DEF List, Linked, Ranks
<1> QED  BY <1>2, <1>3 DEF List

-----------------------------------------------------------------------------
(* Cells end to end.                                                        *)
End(s, c) == IF c = Cbeg THEN Cmid ELSE c + Magnitude(s[c])

TileOK(s, l, c) ==
  /\ End(s, c) \in DOMAIN s /\ l[End(s, c)] = c /\ End(s, c) - c >= FullHdr
  /\ \A d \in DOMAIN s : d <= c \/ End(s, c) <= d

LeftOK(s, l, c) == l[c] \in DOMAIN s \ {Cend} /\ End(s, l[c]) = c

Tiles(s, l) ==
  /\ DOMAIN l = DOMAIN s /\ {Cbeg, Cend} \subseteq DOMAIN s
  /\ \A c \in DOMAIN s : /\ c \in Int /\ s[c] \in Int /\ Cbeg <= c /\ c <= Cend
                         /\ (s[c] = 0 <=> c \in {Cbeg, Cend})
  /\ \A c \in DOMAIN s \ {Cend} : TileOK(s, l, c)
  /\ \A c \in DOMAIN s \ {Cbeg} : LeftOK(s, l, c)

\* The sign of a cell's size has no part in it.
LEMMA FlipTiles ==
  ASSUME NEW s, NEW l, Tiles(s, l), NEW c \in DOMAIN s \ {Cbeg, Cend}
  PROVE  Tiles([s EXCEPT ![c] = -@], l)
<1> DEFINE S == [s EXCEPT ![c] = -@]
<1>1. DOMAIN S = DOMAIN s /\ \A d \in DOMAIN s : Magnitude(S[d]) = Magnitude(s[d])
  BY DEF Tiles, Magnitude
<1>2. \A d \in DOMAIN s : End(S, d) = End(s, d)
  BY <1>1 DEF End
<1>3. \A d \in DOMAIN s : S[d] \in Int /\ (S[d] = 0 <=> s[d] = 0)
  BY DEF Tiles
<1> HIDE DEF S
<1>4. \A d \in DOMAIN s \ {Cend} : TileOK(S, l, d)
  BY <1>1, <1>2 DEF Tiles, TileOK
<1>5. \A d \in DOMAIN s : /\ d \in Int /\ S[d] \in Int /\ Cbeg <= d /\ d <= Cend
                         /\ (S[d] = 0 <=> d \in {Cbeg, Cend})
  BY <1>3 DEF Tiles
<1>6. DOMAIN l = DOMAIN S /\ {Cbeg, Cend} \subseteq DOMAIN S
  BY <1>1 DEF Tiles
<1>7. \A d \in DOMAIN s \ {Cbeg} : LeftOK(S, l, d)
  BY <1>1, <1>2 DEF Tiles, LeftOK
<1> QED  BY <1>1, <1>4, <1>5, <1>6, <1>7 DEF Tiles, S

\* A cell is split at k; the sign of the first part may change.
LEMMA SplitTiles ==
  ASSUME NEW s, NEW l, Tiles(s, l), NEW c \in DOMAIN s \ {Cbeg, Cend}, s[c] > 0,
         NEW k \in Int, k >= FullHdr, s[c] - k >= FullHdr
  PROVE  /\ c + k \notin DOMAIN s
         /\ Tiles([x \in DOMAIN s \cup {c + k} |->
                     IF x = c + k THEN s[c] - k ELSE IF x = c THEN -k ELSE s[x]],
                  [x \in DOMAIN s \cup {c + k} |->
                     IF x = c + k THEN c ELSE IF x = c + s[c] THEN c + k ELSE l[x]])
<1> DEFINE c2 == c + k
           e == c + s[c]
           D == DOMAIN s \cup {c2}
           S == [x \in D |-> IF x = c2 THEN s[c] - k ELSE IF x = c THEN -k ELSE s[x]]
           L == [x \in D |-> IF x = c2 THEN c ELSE IF x = e THEN c2 ELSE l[x]]
<1>1. c \in Int /\ s[c] \in Int /\ c2 \in Int /\ e \in Int /\ c < c2 /\ c2 < e /\ e - c2 >= FullHdr
      /\ c2 - c >= FullHdr
  BY Layout DEF Tiles
<1>2. End(s, c) = e /\ e \in DOMAIN s /\ l[e] = c
      /\ \A d \in DOMAIN s : d <= c \/ e <= d
  BY <1>1 DEF Tiles, TileOK, End, Magnitude
<1>3. c2 \notin DOMAIN s
  BY <1>1, <1>2
<1>4. c # Cbeg /\ c2 # Cbeg /\ c2 # Cend
  BY <1>3 DEF Tiles
<1>5. End(S, c) = c2 /\ End(S, c2) = e
  BY <1>1, <1>3, <1>4, Layout DEF End, Magnitude
<1>6. \A d \in DOMAIN s \ {c} : End(S, d) = End(s, d)
  BY <1>3 DEF End
<1>7. /\ DOMAIN S = D /\ DOMAIN L = D
      /\ \A d \in D : d \in Int /\ S[d] \in Int /\ Cbeg <= d /\ d <= Cend
                      /\ (S[d] = 0 <=> d \in {Cbeg, Cend})
  BY <1>1, <1>2, <1>3, <1>4, Layout DEF Tiles
<1> HIDE DEF c2, e
<1>8. TileOK(S, L, c)
  <2>1. L[c2] = c
    BY <1>7
  <2>2. ASSUME NEW d \in D PROVE d <= c \/ c2 <= d
    <3>1. d \in Int /\ (d = c2 \/ d <= c \/ e <= d)
      BY <1>2, <1>7
    <3> QED  BY <3>1, <1>1
  <2> QED  BY <2>1, <2>2, <1>1, <1>5, <1>7 DEF TileOK
<1>9. TileOK(S, L, c2)
  <2>1. e \in D /\ L[e] = c2
    BY <1>1, <1>2
  <2>2. ASSUME NEW d \in D PROVE d <= c2 \/ e <= d
    <3>1. d \in Int /\ (d = c2 \/ d <= c \/ e <= d)
      BY <1>2, <1>7
    <3> QED  BY <3>1, <1>1
  <2> QED  BY <2>1, <2>2, <1>1, <1>5, <1>7 DEF TileOK
<1>10. ASSUME NEW d \in DOMAIN s \ {c, Cend} PROVE TileOK(S, L, d)
  <2>1. TileOK(s, l, d) /\ d \in Int /\ End(s, d) \in DOMAIN s /\ End(s, d) \in Int
    BY DEF Tiles, TileOK
  <2>2. End(s, d) # c2 /\ End(s, d) # e
    BY <2>1, <1>2, <1>3 DEF TileOK
  <2>3. c2 <= d \/ End(s, d) <= c2
    BY <2>1, <1>1, <1>2 DEF TileOK
  <2> QED  BY <2>1, <2>2, <2>3, <1>6, <1>7 DEF TileOK
<1>11. ASSUME NEW d \in D \ {Cbeg} PROVE LeftOK(S, L, d)
  <2>1. CASE d = c2
    BY <2>1, <1>4, <1>5, <1>7 DEF LeftOK, Tiles
  <2>2. CASE d = e
    BY <2>2, <1>1, <1>4, <1>5, <1>7 DEF LeftOK
  <2>3. CASE d \notin {c2, e}
    <3>1. d \in DOMAIN s \ {Cbeg} /\ LeftOK(s, l, d) /\ L[d] = l[d]
      BY <2>3 DEF Tiles
    <3>2. l[d] # c
      BY <2>3, <3>1, <1>2 DEF LeftOK
    <3> QED  BY <3>1, <3>2, <1>6, <1>7 DEF LeftOK
  <2> QED  BY <2>1, <2>2, <2>3
<1>12. Tiles(S, L)
  BY <1>2, <1>4, <1>7, <1>8, <1>9, <1>10, <1>11 DEF Tiles
<1> QED  BY <1>3, <1>12 DEF c2, e

\* A cell swallows its right neighbour r and has the size z from then on.
LEMMA MergeTiles ==
  ASSUME NEW s, NEW l, Tiles(s, l), NEW c \in DOMAIN s \ {Cbeg, Cend},
         NEW r, r = End(s, c), r # Cend,
         NEW z \in Int, Magnitude(z) = Magnitude(s[c]) + Magnitude(s[r])
  PROVE  Tiles([x \in DOMAIN s \ {r} |-> IF x = c THEN z ELSE s[x]],
               [x \in DOMAIN s \ {r} |-> IF x = End(s, r) THEN c ELSE l[x]])
<1> DEFINE e == End(s, r)
           D == DOMAIN s \ {r}
           S == [x \in D |-> IF x = c THEN z ELSE s[x]]
           L == [x \in D |-> IF x = e THEN c ELSE l[x]]
<1>1. /\ c \in Int /\ r \in Int /\ e \in Int /\ r \in DOMAIN s /\ e \in DOMAIN s
      /\ l[r] = c /\ l[e] = r /\ r - c >= FullHdr /\ e - r >= FullHdr
      /\ \A d \in DOMAIN s : d <= c \/ r <= d
      /\ \A d \in DOMAIN s : d <= r \/ e <= d
  BY DEF Tiles, TileOK
<1>2. r # Cbeg /\ c < r /\ r < e
  BY <1>1, Layout DEF Tiles
<1>3. End(S, c) = e
  <2>1. r = c + Magnitude(s[c]) /\ e = r + Magnitude(s[r])
    BY <1>2 DEF End
  <2>2. Magnitude(s[c]) \in Int /\ Magnitude(s[r]) \in Int
    BY <1>1 DEF Tiles, Magnitude
  <2>3. End(S, c) = c + Magnitude(z)
    BY <1>1, <1>2 DEF End
  <2> QED  BY <1>1, <2>1, <2>2, <2>3
<1>4. \A d \in D \ {c} : End(S, d) = End(s, d)
  BY DEF End
<1>5. z # 0
  BY <1>1, <1>2 DEF Tiles, Magnitude
<1>6. /\ DOMAIN S = D /\ DOMAIN L = D /\ {Cbeg, Cend} \subseteq D
      /\ \A d \in D : d \in Int /\ S[d] \in Int /\ Cbeg <= d /\ d <= Cend
                      /\ (S[d] = 0 <=> d \in {Cbeg, Cend})
  BY <1>1, <1>2, <1>5 DEF Tiles
<1>7. TileOK(S, L, c)
  <2>1. e \in D /\ L[e] = c /\ e - c >= FullHdr
    BY <1>1, <1>2, Layout
  <2>2. \A d \in D : d <= c \/ e <= d
    BY <1>1, <1>2, <1>6
  <2> QED  BY <2>1, <2>2, <1>3, <1>6 DEF TileOK
<1>8. ASSUME NEW d \in D \ {c, Cend} PROVE TileOK(S, L, d)
  <2>1. TileOK(s, l, d) /\ d \in Int /\ End(s, d) \in DOMAIN s /\ End(s, d) \in Int
    BY DEF Tiles, TileOK
  <2>2. End(s, d) # r /\ End(s, d) # e
    BY <2>1, <1>1 DEF TileOK
  <2> QED  BY <2>1, <2>2, <1>4, <1>6 DEF TileOK
<1>9. ASSUME NEW d \in D \ {Cbeg} PROVE LeftOK(S, L, d)
  <2>1. CASE d = e
    BY <2>1, <1>1, <1>3, <1>6 DEF LeftOK
  <2>2. CASE d # e
    <3>1. LeftOK(s, l, d) /\ L[d] = l[d]
      BY <2>2 DEF Tiles
    <3>2. l[d] # c /\ l[d] # r
      BY <2>2, <3>1 DEF LeftOK
    <3> QED  BY <3>1, <3>2, <1>4, <1>6 DEF LeftOK
  <2> QED  BY <2>1, <2>2
<1> HIDE DEF S, L
<1> QED  BY <1>6, <1>7, <1>8, <1>9 DEF Tiles, S, L

-----------------------------------------------------------------------------
(* The invariant.  Tiled and LinksSound need each other: whether a cell may *)
(* be merged is read from the size of its neighbour, and where it is linked *)
(* from its links.                                                          *)
CellsSound ==
  /\ Tiles(size, left)
  /\ DOMAIN next = {c \in Cells : Free(c)} \cup {Cbeg, Cend}
  /\ List(next, prev)

\* While picoos_allocate searches, it is for a request, and no free cell that
\* it has left behind takes the request.
Passed ==
  \E r : Ranks(next, r)
         /\ \A c \in DOMAIN next : Free(c) /\ (cur = NULL \/ r[c] < r[cur]) => ~Fits(c)

Searching ==
  Running => (\E n \in Requests : cellSize = Content(n) + UsedHdr) /\ Passed

MemInv ==
  /\ CellsSound
  /\ Coalesced
  /\ CursorListed
  /\ cellSize \in Int /\ (Running => cellSize >= FullHdr)
  /\ Searching

LEMMA Initially == MemInit => MemInv
<1> SUFFICES ASSUME MemInit PROVE MemInv
  OBVIOUS
<1> USE Layout
<1>1. Cells = {Cbeg, Cmid, Cend} /\ DOMAIN left = Cells
      /\ Cbeg < Cmid /\ Cmid < Cend /\ Cmid \in Int
      /\ size[Cbeg] = 0 /\ size[Cmid] = Cend - Cmid /\ size[Cend] = 0
      /\ left[Cmid] = Cbeg /\ left[Cend] = Cmid
  BY DEF MemInit, Cells
<1>2. End(size, Cbeg) = Cmid /\ End(size, Cmid) = Cend
  BY <1>1 DEF End, Magnitude
<1>3. TileOK(size, left, Cbeg) /\ TileOK(size, left, Cmid)
  BY <1>1, <1>2 DEF TileOK, Cells
<1>4. Tiles(size, left)
  BY <1>1, <1>2, <1>3 DEF Tiles, LeftOK, Cells
<1>5. Linked(next, prev) /\ DOMAIN next = {Cbeg, Cmid, Cend}
  BY <1>1 DEF MemInit, Linked
<1>6. Ranks(next, [c \in DOMAIN next |-> c])
  BY <1>1 DEF MemInit, Ranks
<1>7. Coalesced
  BY <1>1, <1>2 DEF Coalesced, Free, EndOf, End
<1>8. CellsSound
  BY <1>1, <1>4, <1>5, <1>6 DEF CellsSound, List, Free
<1> QED  BY <1>7, <1>8 DEF MemInv, CursorListed, Searching, Running, MemInit

-----------------------------------------------------------------------------
(* picoos_allocate.                                                         *)
LEMMA GrantWhole ==
  ASSUME MemInv, cur \in DOMAIN next, size[cur] > 0, TakeWhole(cur)
  PROVE  CellsSound' /\ Coalesced'
<1>1. cur \in Cells \ {Cbeg, Cend} /\ cur \in DOMAIN next \ {Cbeg, Cend}
  BY DEF MemInv, CellsSound, Tiles, Cells
<1>2. size' = [size EXCEPT ![cur] = -@] /\ left' = left /\ size[cur] \in Int
  BY <1>1 DEF TakeWhole, MemInv, CellsSound, Tiles, Cells
<1>3. Tiles(size', left')
  BY <1>1, <1>2, FlipTiles DEF MemInv, CellsSound, Cells
<1>4. List(next', prev')
  BY <1>1, Unlink DEF TakeWhole, UnlinkedNext, UnlinkedPrev, MemInv, CellsSound
<1>5. DOMAIN next' = {c \in Cells : Free(c)}' \cup {Cbeg, Cend}
  BY <1>1, <1>2 DEF TakeWhole, UnlinkedNext, MemInv, CellsSound, Free, Cells
<1>6. \A c \in Cells : EndOf(c)' = EndOf(c)
  BY <1>1, <1>2 DEF EndOf, Magnitude, Cells
<1>7. Coalesced'
  BY <1>1, <1>2, <1>6 DEF MemInv, Coalesced, Free, Cells, CellsSound, Tiles, TileOK, EndOf, End
<1> QED  BY <1>3, <1>4, <1>5, <1>7 DEF CellsSound

\* What the tiling says of a cell in terms of the code's address arithmetic.
LEMMA Neighbours ==
  ASSUME MemInv, NEW c \in Cells \ {Cbeg, Cend}
  PROVE  /\ c \in Int /\ size[c] \in Int /\ size[c] # 0
         /\ left[c] \in Cells \ {Cend} /\ End(size, left[c]) = c
         /\ End(size, c) \in Cells \ {Cbeg} /\ End(size, c) \in Int /\ c < End(size, c)
         /\ left[End(size, c)] = c
         /\ Free(c) => End(size, c) = c + size[c]
         /\ InUse(c) => End(size, c) = Right(c)
<1>1. /\ c \in Int /\ size[c] \in Int /\ size[c] # 0
      /\ left[c] \in Cells \ {Cend} /\ End(size, left[c]) = c
      /\ End(size, c) \in Cells /\ End(size, c) \in Int
      /\ left[End(size, c)] = c /\ End(size, c) - c >= FullHdr
      /\ Cbeg <= c
  BY DEF MemInv, CellsSound, Tiles, TileOK, LeftOK, Cells
<1>2. Free(c) => End(size, c) = c + size[c]
  BY <1>1 DEF Free, End, Magnitude
<1>3. InUse(c) => End(size, c) = Right(c)
  BY <1>1 DEF InUse, Right, End, Magnitude
<1> QED  BY <1>1, <1>2, <1>3, Layout

LEMMA GrantSplit ==
  ASSUME MemInv, Running, cur \in DOMAIN next, size[cur] >= cellSize + MinCell, Split(cur)
  PROVE  CellsSound' /\ Coalesced'
<1> DEFINE c == cur
           c2 == c + cellSize
           e == c + size[c]
<1>1. c \in Cells \ {Cbeg, Cend} /\ c \in DOMAIN next \ {Cbeg, Cend} /\ size[c] > 0
      /\ cellSize \in Int /\ cellSize >= FullHdr /\ size[c] \in Int
      /\ size[c] - cellSize >= FullHdr
  BY Layout DEF MemInv, CellsSound, Tiles, Cells
<1>2. /\ size' = [x \in Cells \cup {c2} |->
                    IF x = c2 THEN size[c] - cellSize ELSE IF x = c THEN -cellSize ELSE size[x]]
      /\ left' = [x \in Cells \cup {c2} |->
                    IF x = c2 THEN c ELSE IF x = e THEN c2 ELSE left[x]]
      /\ next' = [x \in (DOMAIN next \ {c}) \cup {c2} |->
                    IF x = c2 THEN next[c] ELSE IF x = prev[c] THEN c2 ELSE next[x]]
      /\ prev' = [x \in (DOMAIN next \ {c}) \cup {c2} |->
                    IF x = c2 THEN prev[c] ELSE IF x = next[c] THEN c2 ELSE prev[x]]
  BY DEF Split
<1>3. c2 \notin Cells /\ Tiles(size', left')
  <2>1. Tiles(size, left) /\ DOMAIN left = DOMAIN size
    BY DEF MemInv, CellsSound, Tiles
  <2>2. /\ c \in DOMAIN size \ {Cbeg, Cend} /\ size[c] > 0 /\ cellSize \in Int
        /\ cellSize >= FullHdr /\ size[c] - cellSize >= FullHdr
    BY <1>1 DEF Cells
  <2>3. /\ c2 \notin DOMAIN size
        /\ Tiles([x \in DOMAIN size \cup {c2} |->
                    IF x = c2 THEN size[c] - cellSize ELSE IF x = c THEN -cellSize ELSE size[x]],
                 [x \in DOMAIN size \cup {c2} |->
                    IF x = c2 THEN c ELSE IF x = e THEN c2 ELSE left[x]])
    BY <2>1, <2>2, SplitTiles
  <2> QED  BY <2>3, <1>2 DEF Cells
<1>4. c2 \notin DOMAIN next
  BY <1>3 DEF MemInv, CellsSound, Tiles, Cells
<1>5. List(next', prev')
  <2>1. List(next, prev)
    BY DEF MemInv, CellsSound
  <2> QED  BY <2>1, <1>1, <1>2, <1>4, Replace
<1>6. DOMAIN next' = {x \in Cells : Free(x)}' \cup {Cbeg, Cend}
  BY <1>1, <1>2, <1>3, Layout DEF MemInv, CellsSound, Free, Cells
<1>7. Coalesced'
  <2>1. End(size, c) = e /\ e \in Cells /\ c \in Int
    BY <1>1, Neighbours DEF Free
  <2>2. c2 # Cbeg /\ c2 \in Int
    BY <1>1, <1>3, <2>1 DEF MemInv, CellsSound, Tiles, Cells
  <2>3. End(size', c2) = e
    BY <1>1, <1>2, <2>1, <2>2, Layout DEF End, Magnitude
  <2>4. \A x \in Cells \ {c} : End(size', x) = End(size, x)
    BY <1>2, <1>3 DEF End
  <2>5. ~(size[e] > 0) /\ size'[e] = size[e]
    BY <1>1, <1>2, <1>3, <2>1, Neighbours DEF MemInv, Coalesced, Free, EndOf, End
  <2>6. ASSUME NEW x \in Cells', x # Cend
        PROVE  ~(size'[x] > 0 /\ size'[End(size', x)] > 0)
    <3>1. CASE x = c
      BY <3>1, <1>1, <1>2, <1>3, Layout
    <3>2. CASE x = c2
      BY <3>2, <2>3, <2>5
    <3>3. CASE x \in Cells \ {c}
      <4>1. End(size, x) \in Cells
        BY <3>3, <2>6 DEF MemInv, CellsSound, Tiles, TileOK, Cells
      <4>2. size'[x] = size[x]
        BY <3>3, <1>2, <1>3
      <4>3. size'[End(size, x)] > 0 => size[End(size, x)] > 0
        BY <4>1, <1>1, <1>2, <1>3, Layout
      <4>4. ~(size[x] > 0 /\ size[End(size, x)] > 0)
        BY <3>3, <2>6 DEF MemInv, Coalesced, Free, EndOf, End
      <4> QED  BY <3>3, <4>2, <4>3, <4>4, <2>4
    <3> QED  BY <3>1, <3>2, <3>3, <1>2 DEF Cells
  <2> QED  BY <2>6 DEF Coalesced, Free, EndOf, End
<1> QED  BY <1>3, <1>5, <1>6, <1>7 DEF CellsSound

-----------------------------------------------------------------------------
(* picoos_deallocate.                                                       *)
\* What a cell in use and its neighbours are, in the terms of the code.
LEMMA Around ==
  ASSUME MemInv, NEW c \in Cells, InUse(c)
  PROVE  /\ c \in Cells \ {Cbeg, Cend} /\ c \in Int /\ size[c] \in Int /\ size[c] < 0
         /\ c \notin DOMAIN next
         /\ Right(c) = End(size, c) /\ Right(c) \in Cells \ {Cbeg} /\ Right(c) \in Int
         /\ c < Right(c) /\ left[Right(c)] = c
         /\ left[c] \in Cells \ {Cend} /\ End(size, left[c]) = c
<1>1. c \in Cells \ {Cbeg, Cend} /\ size[c] < 0
  BY DEF MemInv, CellsSound, Tiles, Cells, InUse
<1>2. c \notin DOMAIN next
  BY <1>1, Neighbours DEF MemInv, CellsSound, Free
<1> QED  BY <1>1, <1>2, Neighbours

\* A free neighbour is no sentinel and on the list, and ends at a cell that
\* is not free.
LEMMA FreeNeighbour ==
  ASSUME MemInv, NEW c \in Cells, Free(c)
  PROVE  /\ c \in DOMAIN next \ {Cbeg, Cend} /\ c \in Cells \ {Cbeg, Cend}
         /\ c \in Int /\ size[c] \in Int /\ size[c] > 0
         /\ End(size, c) = c + size[c] /\ End(size, c) \in Cells /\ ~Free(End(size, c))
         /\ \A x \in Cells \ {Cend} : End(size, x) = c => ~Free(x)
<1>1. c \in Cells \ {Cbeg, Cend} /\ size[c] > 0 /\ c \in DOMAIN next
  BY DEF MemInv, CellsSound, Tiles, Cells, Free
<1>2. ~Free(End(size, c)) /\ \A x \in Cells \ {Cend} : End(size, x) = c => ~Free(x)
  BY <1>1 DEF MemInv, Coalesced, EndOf, End, Free
<1> QED  BY <1>1, <1>2, Neighbours

\* Cells other than the ones named in a step keep Coalesced.
LEMMA ElsewhereCoalesced ==
  ASSUME MemInv, NEW x \in Cells \ {Cend}
  PROVE  End(size, x) \in Cells /\ ~(Free(x) /\ Free(End(size, x)))
         /\ (x # Cbeg => left[x] \in Cells /\ End(size, left[x]) = x)
         /\ left[End(size, x)] = x
BY DEF MemInv, CellsSound, Tiles, TileOK, LeftOK, Coalesced, EndOf, End, Cells

LEMMA PushSound ==
  ASSUME MemInv, NEW c \in Cells, InUse(c), Push(c)
  PROVE  CellsSound' /\ Coalesced'
<1> USE Around
<1>1. size' = [size EXCEPT ![c] = -@] /\ left' = left /\ DOMAIN size' = Cells
  BY DEF Push, Cells
<1>2. Tiles(size', left')
  BY <1>1, FlipTiles DEF MemInv, CellsSound, Cells
<1>3. List(next', prev')
  <2>1. List(next, prev)
    BY DEF MemInv, CellsSound
  <2>2. c \notin DOMAIN next
    BY Around
  <2>3. List([x \in DOMAIN next \cup {c} |->
                IF x = c THEN next[Cbeg] ELSE IF x = Cbeg THEN c ELSE next[x]],
             [x \in DOMAIN prev \cup {c} |->
                IF x = c THEN Cbeg ELSE IF x = next[Cbeg] THEN c ELSE prev[x]])
    BY <2>1, <2>2, PutFirst
  <2> QED  BY <2>3 DEF Push, PushedNext
<1>4. DOMAIN next' = {x \in Cells : Free(x)}' \cup {Cbeg, Cend}
  BY <1>1 DEF Push, PushedNext, MemInv, CellsSound, Free, Cells
<1>5. \A x \in Cells : End(size', x) = End(size, x)
  BY <1>1 DEF End, Magnitude, Cells
<1>6. ASSUME NEW x \in Cells, x # Cend
      PROVE  ~(size'[x] > 0 /\ size'[End(size, x)] > 0)
  <2>1. ~(size[left[c]] > 0) /\ ~(size[Right(c)] > 0)
    BY DEF Push, LeftFree, RightFree
  <2>2. CASE x = c
    BY <2>1, <2>2, <1>1
  <2>3. CASE x # c /\ End(size, x) = c
    <3>1. x = left[c]
      BY <2>3, <1>6, ElsewhereCoalesced
    <3> QED  BY <3>1, <2>1, <2>3, <1>1
  <2>4. CASE x # c /\ End(size, x) # c
    BY <2>4, <1>1, <1>6, ElsewhereCoalesced DEF Free
  <2> QED  BY <2>2, <2>3, <2>4
<1>7. Coalesced'
  BY <1>1, <1>5, <1>6 DEF Coalesced, Free, EndOf, End, Cells
<1> QED  BY <1>2, <1>3, <1>4, <1>7 DEF CellsSound

LEMMA MergeLeftSound ==
  ASSUME MemInv, NEW c \in Cells, InUse(c), MergeLeft(c)
  PROVE  CellsSound' /\ Coalesced'
<1> DEFINE cl == left[c]
           z == size[cl] - size[c]
<1>1. /\ c \in Cells \ {Cbeg, Cend} /\ c \in Int /\ size[c] \in Int /\ size[c] < 0
      /\ c \notin DOMAIN next /\ Right(c) = End(size, c) /\ Right(c) \in Cells
      /\ cl \in Cells \ {Cend} /\ End(size, cl) = c /\ c < Right(c) /\ Right(c) \in Int
  BY Around
<1>2. Free(cl) /\ ~Free(Right(c))
  BY DEF MergeLeft, LeftFree, RightFree, Free
<1>3. /\ cl \in Cells \ {Cbeg, Cend} /\ size[cl] \in Int /\ size[cl] > 0
      /\ cl # c /\ \A x \in Cells \ {Cend} : End(size, x) = cl => ~Free(x)
  BY <1>1, <1>2, FreeNeighbour DEF Free
<1>4. /\ size' = [x \in Cells \ {c} |-> IF x = cl THEN z ELSE size[x]]
      /\ left' = [x \in Cells \ {c} |-> IF x = End(size, c) THEN cl ELSE left[x]]
      /\ next' = next /\ prev' = prev
  BY <1>1, <1>3 DEF MergeLeft
<1>5. z \in Int /\ z > 0 /\ Magnitude(z) = Magnitude(size[cl]) + Magnitude(size[c])
  BY <1>1, <1>3 DEF Magnitude
<1>6. Tiles(size', left')
  <2>1. Tiles(size, left)
    BY DEF MemInv, CellsSound
  <2> HIDE DEF z
  <2> QED  BY <2>1, <1>1, <1>3, <1>4, <1>5, MergeTiles DEF Cells
<1>7. DOMAIN next' = {x \in Cells : Free(x)}' \cup {Cbeg, Cend}
  BY <1>1, <1>3, <1>4, <1>5 DEF MemInv, CellsSound, Free, Cells
<1>8. End(size', cl) = Right(c) /\ \A x \in Cells \ {c, cl} : End(size', x) = End(size, x)
  <2>1. End(size', cl) = cl + Magnitude(z)
    BY <1>1, <1>3, <1>4 DEF End
  <2>2. c = cl + size[cl] /\ Right(c) = c - size[c] /\ cl \in Int
    BY <1>1, <1>2, FreeNeighbour DEF Right
  <2>3. Magnitude(z) = z
    BY <1>5 DEF Magnitude
  <2>4. End(size', cl) = Right(c)
    BY <2>1, <2>2, <2>3, <1>1, <1>3
  <2> QED  BY <2>4, <1>4 DEF End
<1>9. ASSUME NEW x \in Cells \ {c}, x # Cend
      PROVE  ~(size'[x] > 0 /\ size'[End(size', x)] > 0)
  <2>1. CASE x = cl
    <3>1. Right(c) \in Cells \ {c, cl}
      BY <1>1, <1>2
    <3>2. size'[Right(c)] = size[Right(c)]
      BY <3>1, <1>4
    <3> QED  BY <2>1, <3>2, <1>2, <1>8 DEF Free
  <2>2. CASE x # cl
    <3>1. End(size, x) \in Cells \ {c} /\ ~(Free(x) /\ Free(End(size, x)))
      BY <2>2, <1>1, <1>9, ElsewhereCoalesced
    <3> QED  BY <3>1, <2>2, <1>3, <1>4, <1>8, <1>9 DEF Free
  <2> QED  BY <2>1, <2>2
<1>10. Coalesced'
  BY <1>4, <1>9 DEF Coalesced, Free, EndOf, End, Cells
<1> QED  BY <1>4, <1>6, <1>7, <1>10 DEF CellsSound, MemInv

LEMMA MergeRightSound ==
  ASSUME MemInv, NEW c \in Cells, InUse(c), MergeRight(c)
  PROVE  CellsSound' /\ Coalesced'
<1> DEFINE cr == Right(c)
           crr == cr + size[cr]
           z == size[cr] - size[c]
<1>1. /\ c \in Cells \ {Cbeg, Cend} /\ c \in Int /\ size[c] \in Int /\ size[c] < 0
      /\ c \notin DOMAIN next /\ cr = End(size, c) /\ cr \in Cells /\ cr \in Int /\ c < cr
      /\ left[c] \in Cells \ {Cend} /\ End(size, left[c]) = c
  BY Around
<1>2. Free(cr) /\ ~Free(left[c])
  BY DEF MergeRight, LeftFree, RightFree, Free
<1>3. /\ cr \in DOMAIN next \ {Cbeg, Cend} /\ cr # Cend /\ cr # Cbeg
      /\ size[cr] \in Int /\ size[cr] > 0 /\ crr = End(size, cr) /\ crr \in Cells
      /\ crr \in Int /\ cr < crr /\ ~Free(crr)
  BY <1>1, <1>2, FreeNeighbour DEF Free
<1>4. /\ size' = [x \in Cells \ {cr} |-> IF x = c THEN z ELSE size[x]]
      /\ left' = [x \in Cells \ {cr} |-> IF x = crr THEN c ELSE left[x]]
      /\ next' = [x \in (DOMAIN next \ {cr}) \cup {c} |->
                    IF x = c THEN next[cr] ELSE IF x = prev[cr] THEN c ELSE next[x]]
      /\ prev' = [x \in (DOMAIN next \ {cr}) \cup {c} |->
                    IF x = c THEN prev[cr] ELSE IF x = next[cr] THEN c ELSE prev[x]]
  BY DEF MergeRight
<1>5. z \in Int /\ z > 0 /\ Magnitude(z) = Magnitude(size[c]) + Magnitude(size[cr])
  BY <1>1, <1>3 DEF Magnitude
<1>6. Tiles(size', left')
  <2>1. Tiles(size, left)
    BY DEF MemInv, CellsSound
  <2> HIDE DEF z, cr, crr
  <2> QED  BY <2>1, <1>1, <1>3, <1>4, <1>5, MergeTiles DEF Cells
<1>7. List(next', prev')
  <2>1. List(next, prev)
    BY DEF MemInv, CellsSound
  <2> HIDE DEF cr
  <2> QED  BY <2>1, <1>1, <1>3, <1>4, Replace
<1>8. DOMAIN next' = {x \in Cells : Free(x)}' \cup {Cbeg, Cend}
  BY <1>1, <1>3, <1>4, <1>5 DEF MemInv, CellsSound, Free, Cells
<1>9. End(size', c) = crr /\ \A x \in Cells \ {c, cr} : End(size', x) = End(size, x)
  <2>1. End(size', c) = c + Magnitude(z)
    BY <1>1, <1>4 DEF End
  <2>2. cr = c - size[c] /\ Magnitude(z) = z
    BY <1>5 DEF Right, Magnitude
  <2>3. End(size', c) = crr
    BY <2>1, <2>2, <1>1, <1>3
  <2> QED  BY <2>3, <1>4 DEF End
<1>10. ASSUME NEW x \in Cells \ {cr}, x # Cend
       PROVE  ~(size'[x] > 0 /\ size'[End(size', x)] > 0)
  <2>1. CASE x = c
    <3>1. crr \in Cells \ {c, cr}
      BY <1>1, <1>3
    <3>2. size'[crr] = size[crr]
      BY <3>1, <1>4
    <3> QED  BY <2>1, <3>2, <1>3, <1>9 DEF Free
  <2>2. CASE x # c /\ End(size, x) = c
    <3>1. x = left[c] /\ End(size', x) = c /\ size'[x] = size[x]
      BY <2>2, <1>4, <1>9, <1>10, ElsewhereCoalesced
    <3> QED  BY <3>1, <1>2 DEF Free
  <2>3. CASE x # c /\ End(size, x) # c
    <3>1. /\ End(size, x) \in Cells /\ ~(Free(x) /\ Free(End(size, x)))
          /\ left[End(size, x)] = x
      BY <1>10, ElsewhereCoalesced
    <3>2. End(size, x) # cr
      BY <3>1, <2>3, Around
    <3> QED  BY <3>1, <3>2, <2>3, <1>4, <1>9, <1>10 DEF Free
  <2> QED  BY <2>1, <2>2, <2>3
<1>11. Coalesced'
  BY <1>4, <1>10 DEF Coalesced, Free, EndOf, End, Cells
<1> QED  BY <1>6, <1>7, <1>8, <1>11 DEF CellsSound

\* Three cells become one: c swallows its right neighbour, then its left
\* neighbour swallows c.
LEMMA MergeBothSound ==
  ASSUME MemInv, NEW c \in Cells, InUse(c), MergeBoth(c)
  PROVE  CellsSound' /\ Coalesced'
<1> DEFINE cl == left[c]
           cr == Right(c)
           crr == cr + size[cr]
           y == size[cr] - size[c]
           z == size[cl] - size[c] + size[cr]
           s1 == [x \in Cells \ {cr} |-> IF x = c THEN y ELSE size[x]]
           l1 == [x \in Cells \ {cr} |-> IF x = crr THEN c ELSE left[x]]
<1>1. /\ c \in Cells \ {Cbeg, Cend} /\ c \in Int /\ size[c] \in Int /\ size[c] < 0
      /\ cr = End(size, c) /\ cr \in Cells /\ cr \in Int /\ c < cr
      /\ cl \in Cells \ {Cend} /\ End(size, cl) = c /\ c \notin DOMAIN next
  BY Around
<1>2. Free(cl) /\ Free(cr)
  BY DEF MergeBoth, LeftFree, RightFree, Free
<1>3. /\ cr \in DOMAIN next \ {Cbeg, Cend} /\ cr # Cend /\ cr # Cbeg
      /\ size[cr] \in Int /\ size[cr] > 0 /\ crr = End(size, cr) /\ crr \in Cells
      /\ crr \in Int /\ cr < crr /\ ~Free(crr)
  BY <1>1, <1>2, FreeNeighbour DEF Free
<1>4. /\ cl \in Cells \ {Cbeg, Cend} /\ size[cl] \in Int /\ size[cl] > 0 /\ cl \in Int
      /\ c = cl + size[cl] /\ cl < c
      /\ \A x \in Cells \ {Cend} : End(size, x) = cl => ~Free(x)
  <2>1. /\ cl \in Cells \ {Cbeg, Cend} /\ size[cl] \in Int /\ size[cl] > 0 /\ cl \in Int
        /\ End(size, cl) = cl + size[cl]
        /\ \A x \in Cells \ {Cend} : End(size, x) = cl => ~Free(x)
    <3> HIDE DEF cl
    <3> QED  BY <1>1, <1>2, FreeNeighbour
  <2> QED  BY <2>1, <1>1
<1>5. /\ size' = [x \in Cells \ {c, cr} |-> IF x = cl THEN z ELSE size[x]]
      /\ left' = [x \in Cells \ {c, cr} |-> IF x = crr THEN cl ELSE left[x]]
      /\ next' = UnlinkedNext(cr) /\ prev' = UnlinkedPrev(cr)
  BY DEF MergeBoth
<1>6. cr = c - size[c] /\ y \in Int /\ y > 0 /\ z \in Int /\ z > 0
      /\ Magnitude(y) = Magnitude(size[c]) + Magnitude(size[cr])
      /\ Magnitude(z) = z
  BY <1>1, <1>3, <1>4 DEF Magnitude, Right
<1>7. Tiles(s1, l1)
  <2>1. Tiles(size, left)
    BY DEF MemInv, CellsSound
  <2> HIDE DEF y, cr, crr
  <2>2. Tiles([x \in DOMAIN size \ {cr} |-> IF x = c THEN y ELSE size[x]],
              [x \in DOMAIN size \ {cr} |-> IF x = End(size, cr) THEN c ELSE left[x]])
    <3>1. /\ c \in DOMAIN size \ {Cbeg, Cend} /\ cr = End(size, c) /\ cr # Cend
          /\ y \in Int /\ Magnitude(y) = Magnitude(size[c]) + Magnitude(size[cr])
      BY <1>1, <1>3, <1>6 DEF Cells
    <3> QED  BY <2>1, <3>1, MergeTiles
  <2> QED  BY <2>2, <1>3 DEF Cells
<1>8. End(s1, c) = crr /\ End(s1, cl) = c
  <2>1. End(s1, c) = c + Magnitude(y) /\ Magnitude(y) = y
    BY <1>1, <1>6 DEF End, Magnitude
  <2>2. End(s1, c) = crr
    BY <2>1, <1>1, <1>3, <1>6
  <2>3. s1[cl] = size[cl] /\ cl # cr
    BY <1>1, <1>3, <1>4
  <2> QED  BY <2>2, <2>3, <1>1 DEF End
<1>9. Tiles(size', left')
  <2>1. /\ c # Cend /\ cl \in DOMAIN s1 \ {Cbeg, Cend} /\ s1[cl] = size[cl] /\ s1[c] = y
    BY <1>1, <1>3, <1>4
  <2>2. Magnitude(z) = Magnitude(s1[cl]) + Magnitude(s1[c])
    BY <2>1, <1>1, <1>3, <1>4, <1>6 DEF Magnitude
  <2>3. size' = [x \in DOMAIN s1 \ {c} |-> IF x = cl THEN z ELSE s1[x]]
    BY <1>5
  <2>4. left' = [x \in DOMAIN s1 \ {c} |-> IF x = End(s1, c) THEN cl ELSE l1[x]]
    BY <1>5, <1>8
  <2> HIDE DEF s1, l1, z, cl
  <2> QED  BY <2>1, <2>2, <2>3, <2>4, <1>6, <1>7, <1>8, MergeTiles
<1>10. List(next', prev')
  <2>1. List(next, prev)
    BY DEF MemInv, CellsSound
  <2> HIDE DEF cr
  <2>2. List([x \in DOMAIN next \ {cr} |-> IF x = prev[cr] THEN next[cr] ELSE next[x]],
             [x \in DOMAIN prev \ {cr} |-> IF x = next[cr] THEN prev[cr] ELSE prev[x]])
    <3>1. cr \in DOMAIN next \ {Cbeg, Cend}
      BY <1>3
    <3> QED  BY <2>1, <3>1, Unlink
  <2> QED  BY <2>2, <1>5 DEF UnlinkedNext, UnlinkedPrev
<1>11. DOMAIN next' = {x \in Cells : Free(x)}' \cup {Cbeg, Cend}
  BY <1>1, <1>3, <1>4, <1>5, <1>6 DEF UnlinkedNext, MemInv, CellsSound, Free, Cells
<1>12. End(size', cl) = crr /\ \A x \in Cells \ {c, cl, cr} : End(size', x) = End(size, x)
  <2>1. End(size', cl) = cl + Magnitude(z)
    BY <1>1, <1>3, <1>4, <1>5 DEF End
  <2>2. End(size', cl) = crr
    BY <2>1, <1>1, <1>3, <1>4, <1>6
  <2> QED  BY <2>2, <1>5 DEF End
<1>13. ASSUME NEW x \in Cells \ {c, cr}, x # Cend
       PROVE  ~(size'[x] > 0 /\ size'[End(size', x)] > 0)
  <2>1. CASE x = cl
    <3>1. crr \in Cells \ {c, cr, cl}
      BY <1>1, <1>3, <1>4
    <3>2. size'[crr] = size[crr]
      BY <3>1, <1>5
    <3> QED  BY <2>1, <3>2, <1>3, <1>12 DEF Free
  <2>2. CASE x # cl
    <3>1. /\ End(size, x) \in Cells /\ ~(Free(x) /\ Free(End(size, x)))
          /\ left[End(size, x)] = x
      BY <1>13, ElsewhereCoalesced
    <3>2. End(size, x) # cr /\ End(size, x) # c
      BY <3>1, <2>2, <1>13, Around
    <3> QED  BY <3>1, <3>2, <2>2, <1>4, <1>5, <1>12, <1>13 DEF Free
  <2> QED  BY <2>1, <2>2
<1>14. Coalesced'
  BY <1>5, <1>13 DEF Coalesced, Free, EndOf, End, Cells
<1> QED  BY <1>9, <1>10, <1>11, <1>14 DEF CellsSound

-----------------------------------------------------------------------------
\* NULL is no cell, and the sentinels are never free.
LEMMA ListedCells ==
  ASSUME MemInv
  PROVE  /\ DOMAIN next \subseteq Cells /\ {Cbeg, Cend} \subseteq DOMAIN next
         /\ NULL \notin DOMAIN next /\ ~Free(Cbeg) /\ ~Free(Cend)
<1>1. \A c \in Cells : c \in Int /\ c >= Cbeg
  BY DEF MemInv, CellsSound, Tiles, Cells
<1>2. size[Cbeg] = 0 /\ size[Cend] = 0
  BY DEF MemInv, CellsSound, Tiles
<1>3. DOMAIN next \subseteq Cells /\ {Cbeg, Cend} \subseteq DOMAIN next
  BY DEF MemInv, CellsSound, Tiles, Cells
<1> QED  BY <1>1, <1>2, <1>3, Layout DEF NULL, Free

\* The cursor moves on past a cell that does not take the request.
LEMMA WalkOn == ASSUME MemInv, Walk PROVE Passed'
<1>1. PICK r : Ranks(next, r)
               /\ \A c \in DOMAIN next : Free(c) /\ (cur = NULL \/ r[c] < r[cur]) => ~Fits(c)
  BY DEF Walk, MemInv, Searching, Passed
<1>2. /\ cur \in DOMAIN next /\ ~Fits(cur) /\ cur # NULL
      /\ cur' = next[cur] /\ next' = next /\ size' = size /\ cellSize' = cellSize
  BY DEF Walk, MemInv, CursorListed
<1>3. ~Free(Cend) /\ NULL \notin DOMAIN next
  BY ListedCells
<1>4. ASSUME NEW c \in DOMAIN next, Free(c), cur' = NULL \/ r[c] < r[cur'] PROVE ~Fits(c)
  <2>1. r[c] \in Int /\ r[cur] \in Int
    BY <1>1, <1>2 DEF Ranks
  <2>2. r[c] <= r[cur]
    <3>1. CASE cur = Cend
      BY <3>1, <1>1 DEF Ranks
    <3>2. CASE cur # Cend
      <4>1. next[cur] \in DOMAIN next
        BY <3>2, <1>2 DEF MemInv, CellsSound, List, Linked
      <4>2. r[c] < r[next[cur]] /\ r[next[cur]] \in Int
        BY <4>1, <1>1, <1>2, <1>3, <1>4 DEF Ranks
      <4> QED  BY <3>2, <4>2, <2>1, <1>1, <1>2 DEF Ranks
    <3> QED  BY <3>1, <3>2
  <2>3. r[c] < r[cur] \/ c = cur
    BY <2>1, <2>2, <1>1, <1>2 DEF Ranks
  <2> QED  BY <2>3, <1>1, <1>2, <1>4
<1> QED  BY <1>1, <1>2, <1>4 DEF Passed, Free, Fits

\* At the first cell of the list there is nothing behind the cursor.
LEMMA WalkBegins == ASSUME MemInv, NEW n \in Requests, Allocate(n) PROVE Passed'
<1>1. PICK r : Ranks(next, r)
  BY DEF MemInv, CellsSound, List
<1>2. cur' = next[Cbeg] /\ next' = next /\ size' = size
  BY DEF Allocate
<1>3. /\ Cbeg \in DOMAIN next \ {Cend} /\ next[Cbeg] \in DOMAIN next
      /\ ~Free(Cbeg) /\ next[Cbeg] # NULL
  BY ListedCells, Layout DEF MemInv, CellsSound, List, Linked
<1>4. ASSUME NEW c \in DOMAIN next, Free(c) PROVE ~(r[c] < r[next[Cbeg]])
  <2>1. r[c] \in Int /\ r[Cbeg] \in Int /\ r[next[Cbeg]] \in Int
    BY <1>1, <1>3 DEF Ranks
  <2>2. c # Cbeg /\ r[c] # r[Cbeg] /\ r[Cbeg] <= r[c]
    BY <1>1, <1>3, <1>4 DEF Ranks
  <2> QED  BY <2>1, <2>2, <1>1, <1>3 DEF Ranks
<1> QED  BY <1>1, <1>2, <1>3, <1>4 DEF Passed, Free

LEMMA Inductive == MemInv /\ [Next]_memVars => MemInv'
<1> SUFFICES ASSUME MemInv, [Next]_memVars PROVE MemInv'
  OBVIOUS
<1> USE Layout
<1>1. ASSUME NEW n \in Requests, Allocate(n) PROVE MemInv'
  <2>1. n \in Nat
    BY MemAssumption
  <2>2. cellSize' \in Int /\ cellSize' >= FullHdr /\ cellSize' = Content(n) + UsedHdr
    BY <1>1, <2>1, CellLarge DEF Allocate
  <2>3. next[Cbeg] \in DOMAIN next \cup {NULL}
    BY DEF MemInv, CellsSound, List, Linked
  <2>4. Searching'
    BY <1>1, <2>2, WalkBegins DEF Searching
  <2> QED  BY <1>1, <2>2, <2>3, <2>4 DEF Allocate, MemInv, CellsSound, Coalesced, CursorListed,
              Cells, Free, EndOf
<1>2. CASE Walk
  <2>1. cur' \in DOMAIN next \cup {NULL}
    BY <1>2 DEF Walk, MemInv, CursorListed, CellsSound, List, Linked
  <2>2. Searching'
    BY <1>2, WalkOn DEF Walk, Searching, MemInv
  <2> QED  BY <1>2, <2>1, <2>2 DEF Walk, MemInv, CellsSound, Coalesced, CursorListed, Running,
              Cells, Free, EndOf
<1>3. CASE Refuse
  BY <1>3 DEF Refuse, MemInv, CellsSound, Coalesced, CursorListed, Searching, Running, Cells,
              Free, EndOf
<1>4. CASE Grant
  <2>1. cur \in DOMAIN next /\ Running /\ cellSize \in Int /\ cellSize >= FullHdr
    BY <1>4 DEF Grant, MemInv, CursorListed
  <2>2. size[cur] \in Int /\ size[cur] > 0
    BY <1>4, <2>1 DEF Grant, Fits, MemInv, CellsSound, Tiles, Cells
  <2>3. CellsSound' /\ Coalesced'
    BY <1>4, <2>1, <2>2, GrantWhole, GrantSplit DEF Grant, Fits, TakeWhole, Split
  <2> QED  BY <1>4, <2>3 DEF Grant, MemInv, CursorListed, Searching, Running
<1>5. ASSUME NEW c \in Cells, Deallocate(c) PROVE MemInv'
  <2>1. CellsSound' /\ Coalesced'
    BY <1>5, PushSound, MergeLeftSound, MergeRightSound, MergeBothSound DEF Deallocate
  <2> QED  BY <1>5, <2>1 DEF Deallocate, MemInv, CursorListed, Searching, Running
<1>6. ASSUME UNCHANGED << size, left, next, prev, cellSize, cur >> PROVE MemInv'
  BY <1>6 DEF MemInv, CellsSound, Coalesced, CursorListed, Searching, Passed, Fits, Running,
              Cells, Free, EndOf
<1> QED  BY <1>1, <1>2, <1>3, <1>4, <1>5, <1>6
         DEF Next, Search, DeallocateNull, GetMemUsage, memVars

THEOREM MemInvariant == Spec => []MemInv
<1> QED  BY Initially, Inductive, PTL DEF Spec

-----------------------------------------------------------------------------
\* The cells always lie end to end between the sentinels, and every cell
\* knows its left neighbour: deallocate finds the true neighbours.
THEOREM CellsTiled == Spec => []Tiled
<1>1. MemInv => Tiled
  <2> SUFFICES ASSUME MemInv PROVE Tiled
    OBVIOUS
  <2>1. \A c \in Cells : EndOf(c) = End(size, c)
    BY DEF EndOf, End
  <2> QED  BY <2>1, Layout DEF MemInv, CellsSound, Tiles, TileOK, LeftOK, Tiled, Cells
<1> QED  BY <1>1, MemInvariant, PTL

\* The free list has exactly the free cells, linked both ways: the allocator
\* never takes application data for links. And no two free cells are neighbours.
LEMMA FreeCells == MemInv => FreeCellsSound
BY DEF MemInv, CellsSound, List, FreeCellsSound, LinksSound

THEOREM FreeListSound == Spec => []FreeCellsSound
BY FreeCells, MemInvariant, PTL

\* What two callers were given never overlaps, and lies within the memory.
Disjoint ==
  \A b1, b2 \in LiveBlocks :
    /\ Cmid <= b1.adr /\ b1.adr + b1.len <= Cend /\ b1.len > 0
    /\ b1 = b2 \/ b1.adr + b1.len <= b2.adr \/ b2.adr + b2.len <= b1.adr

THEOREM BlocksDisjoint == Spec => []Disjoint
<1>1. MemInv => Disjoint
  <2> SUFFICES ASSUME MemInv,
                      NEW c \in Cells, InUse(c), NEW d \in Cells, InUse(d)
               PROVE  LET b1 == [adr |-> c + UsedHdr, len |-> -size[c] - UsedHdr]
                          b2 == [adr |-> d + UsedHdr, len |-> -size[d] - UsedHdr]
                      IN /\ Cmid <= b1.adr /\ b1.adr + b1.len <= Cend /\ b1.len > 0
                         /\ b1 = b2 \/ b1.adr + b1.len <= b2.adr \/ b2.adr + b2.len <= b1.adr
    BY DEF Disjoint, LiveBlocks
  <2>1. /\ c \in Int /\ d \in Int /\ size[c] \in Int /\ size[d] \in Int
        /\ End(size, c) = c - size[c] /\ End(size, d) = d - size[d]
    BY Around DEF Right
  <2>2. /\ c # Cend /\ d # Cend /\ c # Cbeg /\ d # Cbeg
        /\ End(size, c) - c >= FullHdr /\ End(size, c) <= Cend
        /\ \A x \in Cells : (x <= c \/ End(size, c) <= x) /\ (x <= d \/ End(size, d) <= x)
    BY Around DEF MemInv, CellsSound, Tiles, TileOK, Cells
  <2>3. Cmid <= c
    <3>1. \A x \in Cells : x <= Cbeg \/ End(size, Cbeg) <= x
      BY Layout DEF MemInv, CellsSound, Tiles, TileOK, Cells
    <3> QED  BY <3>1, <2>1, <2>2, Layout DEF End, MemInv, CellsSound, Tiles, Cells
  <2>4. c = d \/ c - size[c] <= d \/ d - size[d] <= c
    BY <2>1, <2>2
  <2> QED  BY <2>1, <2>2, <2>3, <2>4, Layout
<1> QED  BY <1>1, MemInvariant, PTL

-----------------------------------------------------------------------------
(* The memory manager does what Heap promises.                              *)
\* Natural numbers are well-founded; a set of them has a least member.
Below == OpToRel(<, Nat)

LEMMA LeastMember ==
  ASSUME NEW T, T \subseteq Nat, T # {}
  PROVE  \E m \in T : \A k \in T : m <= k
<1>1. IsWellFoundedOn(Below, Nat)
  BY NatLessThanWellFounded DEF Below
<1>2. \E x \in T : \A y \in T : << y, x >> \notin Below
  BY <1>1, WFMin, Zenon
<1>3. PICK m \in T : \A y \in T : << y, m >> \notin Below
  BY <1>2
<1>4. \A x, y \in Nat : x < y => << x, y >> \in Below
  BY DEF Below, OpToRel
<1>5. \A k \in T : k \in Nat /\ m \in Nat /\ ~(k < m)
  BY <1>3, <1>4
<1>6. \A k \in T : m <= k
  BY <1>5
<1> QED  BY <1>6

\* Every address from the first sentinel on belongs to a cell: the last one
\* that begins no later.
LEMMA CellOf ==
  ASSUME MemInv, NEW a \in Int, Cbeg <= a
  PROVE  \E x \in Cells : x <= a /\ \A y \in Cells : y <= a => y <= x
<1> DEFINE D == {y \in Cells : y <= a}
           T == {a - y : y \in D}
<1>1. \A y \in Cells : y \in Int
  BY DEF MemInv, CellsSound, Tiles, Cells
<1>2. Cbeg \in D
  BY DEF MemInv, CellsSound, Tiles, Cells
<1>3. T \subseteq Nat /\ T # {}
  BY <1>1, <1>2
<1>4. PICK m \in T : \A k \in T : m <= k
  <2> HIDE DEF T
  <2> QED  BY <1>3, LeastMember
<1>5. PICK x \in D : m = a - x
  BY <1>4
<1>6. ASSUME NEW y \in Cells, y <= a PROVE y <= x
  <2>1. a - y \in T
    BY <1>6
  <2>2. a - x <= a - y
    BY <2>1, <1>4, <1>5
  <2> QED  BY <2>2, <1>1
<1> QED  BY <1>5, <1>6

\* The block in a cell.
Block(c) == [adr |-> c + UsedHdr, len |-> -size[c] - UsedHdr]

LEMMA Blocks == LiveBlocks = {Block(c) : c \in {d \in Cells : InUse(d)}}
BY DEF LiveBlocks, Block

\* What the mapping makes of the abstract actions.
LEMMA VacantMeans ==
  ASSUME NEW a, NEW n
  PROVE  H!Vacant(a, n) <=> /\ a + n <= Cend
                              /\ \A c \in Cells : InUse(c) =>
                                   \/ a + n <= Block(c).adr
                                   \/ Block(c).adr + Block(c).len <= a
BY Blocks DEF H!Vacant

\* A refusal is due: a gap that takes the request, its header, the header of
\* what follows and the smallest rest belongs to a free cell that fits.
LEMMA RefusedRightly ==
  ASSUME MemInv, Refuse, NEW n \in Requests, cellSize = Content(n) + UsedHdr,
         NEW a \in Cmid .. Cend
  PROVE  ~H!Vacant(a, Content(n) + (2 * UsedHdr + MinCell))
<1> DEFINE L == Content(n) + (2 * UsedHdr + MinCell)
<1> SUFFICES ASSUME H!Vacant(a, L) PROVE FALSE
  OBVIOUS
<1> USE Layout
<1>1. /\ cellSize \in Int /\ cellSize >= FullHdr /\ Content(n) \in Int
      /\ L = cellSize + UsedHdr + MinCell /\ L > UsedHdr /\ a \in Int
  <2>1. Content(n) + UsedHdr \in Nat /\ Content(n) + UsedHdr >= FullHdr
    BY CellLarge, MemAssumption
  <2>2. Content(n) \in Int
    <3>1. n \in Nat
      BY MemAssumption
    <3>2. MinCont \in Nat
      BY DEF MinCont
    <3> QED  BY <3>1, <3>2, RoundsUp DEF Content
  <2> QED  BY <2>1, <2>2
<1>2. \A c \in Cells : InUse(c) => a + L <= c + UsedHdr \/ c - size[c] <= a
  <2> SUFFICES ASSUME NEW c \in Cells, InUse(c) PROVE a + L <= c + UsedHdr \/ c - size[c] <= a
    OBVIOUS
  <2>1. a + L <= Block(c).adr \/ Block(c).adr + Block(c).len <= a
    BY VacantMeans
  <2>2. Block(c).adr = c + UsedHdr /\ Block(c).len = -size[c] - UsedHdr
    BY DEF Block
  <2>3. c \in Int /\ size[c] \in Int
    BY Around
  <2> HIDE DEF L
  <2> QED  BY <2>1, <2>2, <2>3
<1>3. a + L <= Cend
  BY VacantMeans
<1>4. \A c \in Cells : Free(c) => ~Fits(c)
  <2>1. Running /\ cur = NULL
    BY DEF Refuse
  <2> QED  BY <2>1 DEF MemInv, Searching, Passed, CellsSound
<1>5. PICK x \in Cells : x <= a /\ \A y \in Cells : y <= a => y <= x
  BY CellOf
<1>6. /\ Cmid \in Cells /\ Cmid > Cbeg /\ x \in Int
  BY DEF MemInv, CellsSound, Tiles, TileOK, End, Cells
<1>7. x \in Cells \ {Cbeg, Cend}
  <2>1. Cmid <= x
    BY <1>5, <1>6
  <2>2. x < Cend
    BY <1>1, <1>3, <1>5, <1>6
  <2> QED  BY <2>1, <2>2, <1>6
<1> DEFINE e == End(size, x)
<1> HIDE DEF L
<1>8. e \in Cells \ {Cbeg} /\ e \in Int /\ a < e /\ size[x] # 0 /\ size[x] \in Int
  <2>1. e \in Cells \ {Cbeg} /\ e \in Int /\ x < e /\ size[x] # 0 /\ size[x] \in Int
    BY <1>7, Neighbours
  <2> QED  BY <2>1, <1>1, <1>5, <1>6
<1>9. ~InUse(x)
  <2> SUFFICES ASSUME InUse(x) PROVE FALSE
    OBVIOUS
  <2>1. e = x - size[x]
    BY Around DEF Right
  <2> QED  BY <2>1, <1>1, <1>2, <1>5, <1>6, <1>8
<1>10. Free(x) /\ e = x + size[x] /\ ~Free(e)
  BY <1>7, <1>8, <1>9, FreeNeighbour DEF InUse, Free
<1>11. a + L <= e + UsedHdr
  <2>1. CASE e = Cend
    BY <2>1, <1>1, <1>3, <1>8
  <2>2. CASE e # Cend
    <3>1. size[e] \in Int /\ size[e] # 0
      BY <2>2, <1>8, Neighbours
    <3>2. InUse(e) /\ size[e] < 0
      BY <3>1, <1>10 DEF InUse, Free
    <3> QED  BY <3>1, <3>2, <1>2, <1>8
  <2> QED  BY <2>1, <2>2
<1>12. size[x] >= cellSize + MinCell
  BY <1>1, <1>5, <1>6, <1>8, <1>10, <1>11
<1> QED  BY <1>4, <1>10, <1>12 DEF Fits

\* A grant is one: the block begins behind the header of the cell that was
\* found and ends with it.
LEMMA GrantedRightly ==
  ASSUME MemInv, Grant, NEW n \in Requests, cellSize = Content(n) + UsedHdr
  PROVE  H!Grant(n)
<1> USE Layout
<1> DEFINE a == cur + UsedHdr
           b == [adr |-> a, len |-> Content(n)]
<1>1. /\ cur \in Cells \ {Cbeg, Cend} /\ cur \in Int /\ size[cur] \in Int /\ size[cur] > 0
      /\ End(size, cur) = cur + size[cur] /\ End(size, cur) \in Cells
      /\ cellSize \in Int /\ cellSize >= FullHdr /\ size[cur] >= cellSize
      /\ cellSize - UsedHdr = Content(n) /\ Content(n) \in Int
  <2>1. cur \in DOMAIN next /\ Running /\ Fits(cur)
    BY DEF Grant, MemInv, CursorListed
  <2>2. cellSize \in Int /\ cellSize >= FullHdr
    BY <2>1 DEF MemInv
  <2>3. cur \in Cells /\ size[cur] \in Int
    BY <2>1 DEF MemInv, CellsSound, Tiles, Cells
  <2>4. Free(cur) /\ size[cur] >= cellSize
    BY <2>1, <2>2, <2>3 DEF Fits, Free
  <2>5. Content(n) \in Int
    <3>1. n \in Nat /\ MinCont \in Nat
      BY MemAssumption DEF MinCont
    <3> QED  BY <3>1, RoundsUp DEF Content
  <2> QED  BY <2>2, <2>3, <2>4, <2>5, FreeNeighbour
<1>2. \A x \in Cells : x \in Int /\ size[x] \in Int /\ x <= Cend
  BY DEF MemInv, CellsSound, Tiles, Cells
<1>3. Cmid <= cur /\ a \in Cmid .. Cend
  <2>1. Cmid <= cur
    <3>1. \A x \in Cells : x <= Cbeg \/ End(size, Cbeg) <= x
      BY DEF MemInv, CellsSound, Tiles, TileOK, Cells
    <3> QED  BY <3>1, <1>1, <1>2 DEF End, MemInv, CellsSound, Tiles, Cells
  <2>2. cur + size[cur] <= Cend
    BY <1>1, <1>2
  <2> QED  BY <2>1, <2>2, <1>1
<1>4. H!Vacant(a, Content(n))
  <2>1. a + Content(n) <= Cend
    BY <1>1, <1>2
  <2>2. ASSUME NEW c \in Cells, InUse(c)
        PROVE  a + Content(n) <= Block(c).adr \/ Block(c).adr + Block(c).len <= a
    <3>1. Block(c).adr = c + UsedHdr /\ Block(c).len = -size[c] - UsedHdr
      BY DEF Block
    <3>2. c \in Int /\ size[c] \in Int /\ c # cur /\ End(size, c) = c - size[c] /\ c # Cend
      BY <2>2, <1>1, Around DEF Right, InUse
    <3>3. c <= cur \/ End(size, cur) <= c
      BY <1>1 DEF MemInv, CellsSound, Tiles, TileOK, Cells
    <3>4. cur <= c \/ End(size, c) <= cur
      BY <1>1, <3>2 DEF MemInv, CellsSound, Tiles, TileOK, Cells
    <3> QED  BY <3>1, <3>2, <3>3, <3>4, <1>1
  <2> QED  BY <2>1, <2>2, VacantMeans
<1>5. /\ Cells \subseteq Cells' /\ size'[cur] = -cellSize
      /\ \A x \in Cells \ {cur} : size'[x] = size[x]
      /\ \A x \in Cells' \ Cells : ~(size'[x] < 0)
  <2>1. CASE TakeWhole(cur)
    BY <2>1, <1>1 DEF TakeWhole, Cells
  <2>2. CASE Split(cur)
    <3>1. size[cur] - cellSize >= 0
      BY <1>1
    <3>2. cur + cellSize \notin Cells
      <4>1. \A d \in Cells : d <= cur \/ cur + size[cur] <= d
        BY <1>1 DEF MemInv, CellsSound, Tiles, TileOK, Cells
      <4>2. size[cur] # cellSize
        BY <2>2 DEF Split
      <4> QED  BY <4>1, <4>2, <1>1
    <3> QED  BY <3>1, <3>2, <2>2, <1>1 DEF Split, Cells
  <2> QED  BY <2>1, <2>2 DEF Grant
<1>6. LiveBlocks' = LiveBlocks \cup {b}
  <2>1. LiveBlocks' = {[adr |-> c + UsedHdr, len |-> -size'[c] - UsedHdr] :
                         c \in {d \in Cells' : size'[d] < 0}}
    BY DEF LiveBlocks, InUse
  <2>2. {d \in Cells' : size'[d] < 0} = {d \in Cells : InUse(d)} \cup {cur}
    <3>1. size'[cur] < 0 /\ ~(size[cur] < 0)
      BY <1>1, <1>5
    <3>2. \A d \in Cells' : size'[d] < 0 => d = cur \/ (d \in Cells /\ size[d] < 0)
      BY <1>5
    <3>3. \A d \in Cells : size[d] < 0 => d \in Cells' /\ size'[d] < 0
      BY <3>1, <1>5
    <3> QED  BY <1>1, <1>5, <3>1, <3>2, <3>3 DEF InUse
  <2>3. \A d \in Cells : InUse(d) => size'[d] = size[d]
    BY <1>1, <1>5 DEF InUse
  <2>4. b = [adr |-> cur + UsedHdr, len |-> -size'[cur] - UsedHdr]
    BY <1>1, <1>5
  <2> HIDE DEF b
  <2> QED  BY <2>1, <2>2, <2>3, <2>4 DEF LiveBlocks
<1>7. H!Answered("allocate", Content(n), a)
  BY <1>1 DEF Grant, Answered, H!Answered
<1> QED  BY <1>3, <1>4, <1>6, <1>7 DEF H!Grant

\* The cells in use after a cell is given back are the others, as they were.
LEMMA OthersStay ==
  ASSUME MemInv, NEW c \in Cells, Deallocate(c)
  PROVE  /\ {d \in Cells' : size'[d] < 0} = {d \in Cells : InUse(d)} \ {c}
         /\ \A d \in Cells : InUse(d) /\ d # c => size'[d] = size[d]
<1>1. /\ InUse(c) /\ c \in Cells \ {Cbeg, Cend} /\ size[c] \in Int /\ size[c] < 0
      /\ left[c] \in Cells /\ Right(c) \in Cells /\ c < Right(c)
  BY Around DEF Deallocate
<1>2. \A d \in Cells : size[d] \in Int
  BY DEF MemInv, CellsSound, Tiles, Cells
<1>3. left[c] # c
  BY <1>1, Around DEF MemInv, CellsSound, Tiles, TileOK, Cells
<1>4. CASE MergeBoth(c)
  <2>1. size[left[c]] > 0 /\ size[Right(c)] > 0
    BY <1>4 DEF MergeBoth, LeftFree, RightFree
  <2>2. size[left[c]] - size[c] + size[Right(c)] > 0
    BY <2>1, <1>1, <1>2
  <2> QED  BY <2>1, <2>2, <1>1, <1>2, <1>4 DEF MergeBoth, InUse, Cells
<1>5. CASE MergeLeft(c)
  <2>1. size[left[c]] > 0 /\ size[left[c]] - size[c] > 0
    BY <1>1, <1>2, <1>5 DEF MergeLeft, LeftFree
  <2> QED  BY <2>1, <1>1, <1>2, <1>5 DEF MergeLeft, InUse, Cells
<1>6. CASE MergeRight(c)
  <2>1. size[Right(c)] > 0 /\ size[Right(c)] - size[c] > 0
    BY <1>1, <1>2, <1>6 DEF MergeRight, RightFree
  <2> QED  BY <2>1, <1>1, <1>2, <1>6 DEF MergeRight, InUse, Cells
<1>7. CASE Push(c)
  BY <1>1, <1>2, <1>7 DEF Push, InUse, Cells
<1> QED  BY <1>4, <1>5, <1>6, <1>7 DEF Deallocate

LEMMA FreedRightly ==
  ASSUME MemInv, NEW c \in Cells, Deallocate(c)
  PROVE  Block(c) \in LiveBlocks /\ H!Free(Block(c))
<1>1. InUse(c) /\ \A d \in Cells : d \in Int
  BY DEF Deallocate, MemInv, CellsSound, Tiles, Cells
<1>2. Block(c) \in LiveBlocks
  BY <1>1, Blocks
<1>3. LiveBlocks' = {[adr |-> d + UsedHdr, len |-> -size'[d] - UsedHdr] :
                       d \in {x \in Cells' : size'[x] < 0}}
  BY DEF LiveBlocks, InUse
<1>4. LiveBlocks' = {Block(d) : d \in {x \in Cells : InUse(x)} \ {c}}
  BY <1>3, OthersStay DEF Block
<1>5. \A d \in Cells : Block(d) = Block(c) => d = c
  <2> SUFFICES ASSUME NEW d \in Cells, Block(d) = Block(c) PROVE d = c
    OBVIOUS
  <2>1. Block(d).adr = d + UsedHdr /\ Block(c).adr = c + UsedHdr
    BY DEF Block
  <2> QED  BY <2>1, <1>1, Layout
<1>6. LiveBlocks' = LiveBlocks \ {Block(c)}
  BY <1>4, <1>5, Blocks
<1>7. H!Answered("deallocate", Block(c).adr, NULL)
  BY DEF Deallocate, Answered, H!Answered, Block
<1> QED  BY <1>2, <1>6, <1>7 DEF H!Free, H!NULL, NULL

LEMMA HeapInit == MemInit => H!Init
<1> SUFFICES ASSUME MemInit PROVE H!Init
  OBVIOUS
<1>1. \A c \in Cells : ~InUse(c)
  BY Layout DEF MemInit, Cells, InUse
<1>2. LiveBlocks = {}
  BY <1>1 DEF LiveBlocks
<1> QED  BY <1>2 DEF MemInit, H!Init, H!NULL, NULL

LEMMA HeapStep == MemInv /\ [Next]_memVars => [H!Next]_<< LiveBlocks, answer >>
<1> SUFFICES ASSUME MemInv, [Next]_memVars PROVE [H!Next]_<< LiveBlocks, answer >>
  OBVIOUS
<1>1. ASSUME size' = size PROVE LiveBlocks' = LiveBlocks
  BY <1>1 DEF LiveBlocks, Cells, InUse
<1>2. CASE Refuse \/ Grant
  <2>1. PICK n \in Requests : cellSize = Content(n) + UsedHdr
    BY <1>2 DEF Refuse, Grant, MemInv, Searching
  <2>2. CASE Grant
    BY <2>1, <2>2, GrantedRightly DEF H!Next
  <2>3. CASE Refuse
    <3>1. \A a \in Cmid .. Cend : ~H!Vacant(a, Content(n) + (2 * UsedHdr + MinCell))
      BY <2>1, <2>3, RefusedRightly
    <3>2. LiveBlocks' = LiveBlocks
      BY <2>3, <1>1 DEF Refuse
    <3>3. cellSize - UsedHdr = Content(n)
      <4>1. n \in Nat /\ MinCont \in Nat
        BY MemAssumption, Layout DEF MinCont
      <4>2. Content(n) \in Int
        BY <4>1, RoundsUp DEF Content
      <4> QED  BY <4>2, <2>1, Layout
    <3>4. H!Answered("allocate", Content(n), H!NULL)
      BY <2>3, <3>3 DEF Refuse, Answered, H!Answered, H!NULL, NULL
    <3> QED  BY <3>1, <3>2, <3>4 DEF H!Next, H!Refuse
  <2> QED  BY <1>2, <2>2, <2>3
<1>3. ASSUME NEW c \in Cells, Deallocate(c) PROVE H!Next
  BY <1>3, FreedRightly DEF H!Next
<1>4. CASE DeallocateNull
  BY <1>1, <1>4 DEF DeallocateNull, Answered, H!Next, H!FreeNull, H!Answered, H!NULL, NULL
<1>5. CASE Walk \/ GetMemUsage \/ (\E n \in Requests : Allocate(n)) \/ UNCHANGED memVars
  BY <1>1, <1>5 DEF Walk, GetMemUsage, Allocate, memVars
<1> QED  BY <1>2, <1>3, <1>4, <1>5 DEF Next, Search

\* The allocator implements the abstract heap: it gives out memory that no
\* one else holds, takes back exactly the block it is given, and refuses a
\* request only when no gap has room for it and its headers
\* (picoos_allocate, picoos_deallocate).
THEOREM HeapRefined == Spec => RefinesHeap
<1>1. MemInv /\ [Next]_memVars => [H!Next]_<< LiveBlocks, answer >>
  BY HeapStep
<1> QED  BY <1>1, HeapInit, MemInvariant, PTL DEF Spec, RefinesHeap, H!Spec, H!heapVars

-----------------------------------------------------------------------------
(* MCMemory: one of the three is in use, and the others rest.               *)
MemoryInv ==
  /\ on = "text" => RingOK
  /\ on = "items" => IBInv
  /\ MemInv

LEMMA MemoryInductive ==
  /\ MemoryInit => MemoryInv
  /\ MemoryInv /\ [MemoryNext]_memoryVars => MemoryInv'
<1>1. MemoryInit => MemoryInv
  BY Initially, TextInit, IBInitInv DEF MemoryInit, MemoryInv, IBInit
<1>2. ASSUME MemoryInv, [MemoryNext]_memoryVars PROVE MemoryInv'
  <2>1. on' = on
    BY <1>2 DEF MemoryNext, memoryVars
  <2>2. on = "text" => [TextNext]_cbVars
    BY <1>2 DEF MemoryNext, memoryVars, ibVars, cbVars
  <2>3. on = "text" => RingOK'
    BY <1>2, <2>2, TextStep DEF MemoryInv
  <2>4. on = "items" => IBInv'
    BY <1>2, IBStepInv DEF MemoryInv, MemoryNext, memoryVars
  <2>5. [Next]_memVars
    BY <1>2 DEF MemoryNext, memoryVars
  <2>6. MemInv'
    BY <1>2, <2>5, Inductive DEF MemoryInv
  <2> QED  BY <2>1, <2>3, <2>4, <2>6 DEF MemoryInv
<1> QED  BY <1>1, <1>2

\* Text or items, whichever the ring is used for: it is a bounded queue of
\* characters or of whole items (RingIsQueue as the run checks it).
THEOREM RingImplementsQueue == MemorySpec => RingIsQueue
<1>1. MemoryInit => Fifo!Init /\ IBFifo!Init
  BY FifoInit, IBFifoInit DEF MemoryInit, IBInit
<1>2. MemoryInv /\ [MemoryNext]_memoryVars => [on = "text" => Fifo!Next]_<< Contents, ret >>
  <2> SUFFICES ASSUME MemoryInv, [MemoryNext]_memoryVars, on = "text"
               PROVE  [Fifo!Next]_<< Contents, ret >>
    OBVIOUS
  <2>1. RingOK /\ [TextNext]_cbVars
    BY DEF MemoryInv, MemoryNext, memoryVars, ibVars, cbVars
  <2> QED  BY <2>1, FifoStep
<1>3. MemoryInv /\ [MemoryNext]_memoryVars => [on = "items" => IBFifo!Next]_<< items, len, ret >>
  <2> SUFFICES ASSUME MemoryInv, [MemoryNext]_memoryVars, on = "items"
               PROVE  [IBFifo!Next]_<< items, len, ret >>
    OBVIOUS
  <2>1. IBInv /\ [IBNext]_ibVars
    BY DEF MemoryInv, MemoryNext, memoryVars
  <2> QED  BY <2>1, IBFifoStep
<1> QED  BY <1>1, <1>2, <1>3, MemoryInductive, PTL DEF MemorySpec, RingIsQueue

\* FreeListSound in the system the run checks.
THEOREM MemoryListSound == MemorySpec => []FreeCellsSound
<1>1. MemoryInv => FreeCellsSound
  BY FreeCells DEF MemoryInv
<1> QED  BY <1>1, MemoryInductive, PTL DEF MemorySpec

\* HeapRefined in the system the run checks (MemoryIsHeap).
THEOREM MemoryImplementsHeap == MemorySpec => MemoryIsHeap
<1>1. MemoryInit => H!Init
  BY HeapInit DEF MemoryInit
<1>2. MemoryInv /\ [MemoryNext]_memoryVars => [on = "memory" => H!Next]_<< LiveBlocks, answer >>
  <2> SUFFICES ASSUME MemoryInv, [MemoryNext]_memoryVars, on = "memory"
               PROVE  [H!Next]_<< LiveBlocks, answer >>
    OBVIOUS
  <2>1. MemInv /\ [Next]_memVars
    BY DEF MemoryInv, MemoryNext, memoryVars
  <2> QED  BY <2>1, HeapStep
<1> QED  BY <1>1, <1>2, MemoryInductive, PTL DEF MemorySpec, MemoryIsHeap
=============================================================================
