----------------------------- MODULE CharBuffer -----------------------------
(***************************************************************************)
(* The ring buffer that connects two processing units (picodata.c,         *)
(* "CharBuffer").  The same object is used in two ways:                    *)
(*   - the engine's cbIn carries raw text, one character at a time         *)
(*     (picodata_cbPutCh / picodata_cbGetCh): TextSpec;                    *)
(*   - every other buffer carries items, a header of HEADSIZE bytes whose  *)
(*     last byte is the number of content bytes that follow                *)
(*     (picodata_cbPutItem / cbGetItem / cbGetSpeechData): ItemBuffer.     *)
(*                                                                         *)
(* An item is the string of its bytes.  The operations of this module are  *)
(* the whole C functions: the library is single threaded, so a call is one *)
(* step.  `ret' is what the last call returned: its status and the bytes   *)
(* it wrote to the caller's buffer.                                        *)
(***************************************************************************)
EXTENDS Integers, Sequences

CONSTANTS
  Size,       \* bytes allocated for the buffer (this->size, a picoos_uint16)
  HEADSIZE,   \* PICODATA_ITEM_HEADSIZE, bytes of an item header
  FRAME,      \* PICODATA_ITEM_FRAME, the type byte of speech data
  Items,      \* the items that may be put, as byte strings
  Chars,      \* the characters that may be put
  BufLens     \* sizes of the callers' buffers (blenmax)

(***************************************************************************)
(* An item's length byte sits at index PICODATA_ITEMIND_LEN = HEADSIZE - 1 *)
(* of the C array, HEADSIZE of the sequence, and tells the truth: the      *)
(* processing units set it with the content they append.                   *)
(***************************************************************************)
Byte == 0 .. 255

ASSUME SizeAssumption ==
  /\ Size \in Nat \ {0} /\ Size < 65536
  /\ HEADSIZE \in Nat \ {0}
ASSUME CharsAssumption == Chars \subseteq Byte /\ BufLens \subseteq Nat
ASSUME ItemsAssumption ==
  \A it \in Items :
    /\ it \in Seq(Byte)
    /\ Len(it) >= HEADSIZE
    /\ Len(it) = HEADSIZE + it[HEADSIZE]

VARIABLES
  buf,     \* this->buf
  front,   \* this->front, next position to read
  rear,    \* this->rear, next free position to write
  len,     \* this->len, number of bytes in the buffer
  ret      \* result of the last call: [op, rc, out]

cbVars == << buf, front, rear, len, ret >>

Index == 0 .. Size - 1

\* `pos++; pos %= size', repeated k <= size times.
Pos(from, k) == IF from + k < Size THEN from + k ELSE from + k - Size

\* Number of increments that lead from position `from' to position p.
Dist(from, p) == IF p >= from THEN p - from ELSE p - from + Size

\* The byte k places behind the front, and the bytes [k, k + n) as a string.
Cell(k) == buf[Pos(front, k)]
Peek(k, n) == [i \in 1 .. n |-> Cell(k + i - 1)]

Returns(op, rc, out) == ret' = [op |-> op, rc |-> rc, out |-> out]

\* len is a picoos_uint16.
U16(n) == n % 65536

\* The byte-wise copy loop of data_cbPutItem and the single store of cbPutCh.
Store(s) ==
  /\ buf' = [p \in Index |-> LET k == Dist(rear, p)
                             IN  IF k < Len(s) THEN s[k + 1] ELSE buf[p]]
  /\ rear' = Pos(rear, Len(s))
  /\ len' = len + Len(s)
  /\ UNCHANGED front

\* The byte-wise loops of data_cbGetItem and the single load of cbGetCh.
Drop(n) ==
  /\ front' = Pos(front, n)
  /\ len' = U16(len - n)
  /\ UNCHANGED << buf, rear >>

Keep == UNCHANGED << buf, front, rear, len >>

-----------------------------------------------------------------------------
(* picodata_newCharBuffer: positions are reset, the memory is whatever it   *)
(* was; the content of an unwritten cell is never read, so it is 0 here.    *)
Init ==
  /\ buf = [p \in Index |-> 0]
  /\ front = 0
  /\ rear = 0
  /\ len = 0
  /\ ret = [op |-> "new", rc |-> "OK", out |-> << >>]

\* picodata_cbReset
Reset ==
  /\ front' = 0
  /\ rear' = 0
  /\ len' = 0
  /\ UNCHANGED buf
  /\ Returns("reset", "OK", << >>)

\* picodata_cbPutCh
PutCh(ch) ==
  \/ /\ len < Size
     /\ Store(<< ch >>)
     /\ Returns("putCh", "OK", << >>)
  \/ /\ len >= Size
     /\ Keep
     /\ Returns("putCh", "OVERFLOW", << >>)

\* Mutant: front is advanced before the character is read.
GetChAdvancesFirst ==
  \/ len > 0 /\ Drop(1) /\ Returns("getCh", "OK", Peek(1, 1))
  \/ len = 0 /\ Keep /\ Returns("getCh", "EOF", << >>)

\* picodata_cbGetCh
GetCh ==
  \/ /\ len > 0
     /\ Drop(1)
     /\ Returns("getCh", "OK", Peek(0, 1))
  \/ /\ len = 0
     /\ Keep
     /\ Returns("getCh", "EOF", << >>)

(* data_cbPutItem: `it' is in the caller's buffer of blenmax bytes.         *)
ItemLen(it) == it[HEADSIZE] + HEADSIZE

PutItemRc(it, blenmax) ==
  IF blenmax < HEADSIZE THEN "UNDERFLOW"
  ELSE IF ItemLen(it) > Size - len THEN "OVERFLOW"
  ELSE IF ItemLen(it) > blenmax THEN "UNDERFLOW"
  ELSE "OK"

PutItem(it, blenmax) ==
  /\ Returns("putItem", PutItemRc(it, blenmax), << >>)
  /\ IF PutItemRc(it, blenmax) = "OK" THEN Store(it) ELSE Keep

(* data_cbGetItem: issd is TRUE for picodata_cbGetSpeechData, which strips  *)
(* the header of a FRAME item and skips an item of any other type.          *)
\* Mutant: what is not speech is returned as if it were.
SkipsNothing(issd) == FALSE

HeadLen == HEADSIZE + Cell(HEADSIZE - 1)
SkipsItem(issd) == len >= HEADSIZE /\ issd /\ Cell(0) # FRAME

GetItemRc(issd, blenmax) ==
  IF len = 0 THEN "EOF"
  ELSE IF len < HEADSIZE THEN "UNDERFLOW"
  ELSE IF SkipsItem(issd) THEN "OK"
  ELSE IF HeadLen > len THEN "UNDERFLOW"
  ELSE IF blenmax < HeadLen THEN "OVERFLOW"
  ELSE "OK"

GetItem(issd, blenmax) ==
  LET rc     == GetItemRc(issd, blenmax)
      op     == IF issd THEN "getSpeechData" ELSE "getItem"
      header == IF issd THEN HEADSIZE ELSE 0
  IN  /\ IF rc = "OK" THEN Drop(HeadLen) ELSE Keep
      /\ Returns(op, rc, IF rc # "OK" \/ SkipsItem(issd)
                         THEN << >>
                         ELSE Peek(header, HeadLen - header))

-----------------------------------------------------------------------------
TextNext == Reset \/ GetCh \/ \E ch \in Chars : PutCh(ch)

TextSpec == Init /\ [][TextNext]_cbVars

-----------------------------------------------------------------------------
(* Type correctness of the ring, and the relation of its three counters.    *)
RingOK ==
  /\ buf \in [Index -> Byte]
  /\ front \in Index
  /\ rear \in Index
  /\ len \in 0 .. Size
  /\ rear = Pos(front, len)

(* The bytes in the buffer, oldest first: what the ring stands for.         *)
Contents == Peek(0, len)

Fifo == INSTANCE CharFifo WITH q <- Contents

(* The ring implements the bounded queue of characters: no character fed to *)
(* the engine is lost, duplicated or reordered by wrapping around the end   *)
(* of the array, and a full buffer refuses a character without damage.      *)
RefinesCharFifo == Fifo!Spec
=============================================================================
