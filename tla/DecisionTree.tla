---------------------------- MODULE DecisionTree ----------------------------
(***************************************************************************)
(* Decision trees (picokdt.c).  A tree lies in a resource as a stream of   *)
(* bits, walked from the root: each node asks for one attribute of the     *)
(* input vector, and says for each answer whether that is a decision, or   *)
(* how far to go on.  Before, the attributes are mapped to the values the  *)
(* tree was made of, and afterwards the decision is mapped to what it      *)
(* means.  A table is a record of its type and its values; a value that is *)
(* not in it is mapped to the number of its values.                        *)
(***************************************************************************)
EXTENDS Utf8, FiniteSetsExt

VARIABLES
  dt,        \* the tree: treebody, vfields, qfields, inpmaptables, outmaptables
  invec,     \* the input vector
  place,     \* where in treebody the walk is
  dset,      \* "asking", "set" or "failed"
  dclass     \* the decision

dtVars == << dt, invec, place, dset, dclass >>

-----------------------------------------------------------------------------
(* Bits: places are a byte, and a bit in it, from the left, which is 7.     *)
Place(byte, bit) == [byte |-> byte, bit |-> bit]
Root == Place(0, 7)
Bit(p) == (ByteAt(dt.treebody, p.byte) \div 2 ^ p.bit) % 2

\* kdt_jump
Jump(n, p) ==
  LET bit == (n % 8) + (7 - p.bit)
      byte == p.byte + (n \div 8)
  IN IF bit >= 8 THEN Place(byte + 1, 15 - bit) ELSE Place(byte, 7 - bit)

\* kdtGetShiftVal: bit by bit when there are few, else byte by byte.
BitByBit(size, p) ==
  LET val[n \in 0 .. size] == IF n = 0 THEN 0 ELSE 2 * val[n - 1] + Bit(Jump(n - 1, p)) IN val[size]
ByteByByte(size, p) ==
  LET first == ByteAt(dt.treebody, p.byte) % 2 ^ (p.bit + 1)
      left == size - (p.bit + 1)
      val[n \in 0 .. size, b \in p.byte .. p.byte + size] ==      \* n bits more, from byte b on
        IF n >= 8 THEN ByteAt(dt.treebody, b) * 2 ^ (n - 8) + val[n - 8, b + 1]
        ELSE ByteAt(dt.treebody, b) \div 2 ^ (8 - n)
  IN IF left < 0 THEN first \div 2 ^ (-left) ELSE first * 2 ^ left + val[left, p.byte + 1]
GetShiftVal(size, p) == IF size < 4 THEN BitByBit(size, p) ELSE ByteByByte(size, p)
\* Mutant: at the end of a byte the reading stays in it.
BehindSame(size, p) ==
  LET bit == p.bit - size IN Place(p.byte + (IF bit < -1 THEN (6 - bit) \div 8 ELSE 0), bit % 8)
Behind(size, p) ==       \* where the reading ends
  LET bit == p.bit - size IN Place(p.byte + (IF bit < 0 THEN (7 - bit) \div 8 ELSE 0), bit % 8)
Got(size, p) == [num |-> GetShiftVal(size, p), at |-> Behind(size, p)]

-----------------------------------------------------------------------------
(* kdtAskTree: one node.                                                    *)
Question == Got(dt.vfields.question, Behind(2, place))
NodeType == << "Terminal", "Binary", "Continuous", "Discrete" >>[GetShiftVal(2, place) + 1]
Fields(q) == dt.qfields[q.num + 1]
QuestionOk(q) == q.num < Len(dt.qfields) /\ q.num < Len(invec)

\* A set of values of a discrete attribute, with f the sizes of its fields: is val
\* in it, and where does it end? When the answer is known (id is not -1) it is only
\* passed.
Subset(f, val, id, p) ==
  LET type == Got(2, p)
      pos == Got(f.bitNo, type.at)
      cnt == Got(f.bitCount, Behind(f.bitNo, type.at))
      within == pos.num <= val /\ val < pos.num + cnt.num
      mask == IF id > -1 THEN Got(f.bitCount, Jump(f.bitNo, type.at)) ELSE cnt
  IN CASE type.num = 0 -> [in |-> val = pos.num, at |-> IF id > -1 THEN Jump(f.bitNo, type.at) ELSE pos.at]
       [] type.num \in {1, 2} ->
            [in |-> IF type.num = 1 THEN val \in {pos.num, cnt.num} ELSE within,
             at |-> IF id > -1 THEN Jump(f.bitNo + f.bitCount, type.at) ELSE cnt.at]
       [] type.num = 3 ->
            [in |-> within /\ Bit(Jump(val - pos.num, cnt.at)) = 1,
             at |-> IF id = -1 /\ within
                      THEN Jump(cnt.num - (val - pos.num), Jump(val - pos.num, cnt.at))
                      ELSE Jump(mask.num, mask.at)]

\* The number of the answer to the question q about val, that of the answers there
\* are, and where they begin.
Answer(q, val) ==
  LET cut == Got(Fields(q).cut, q.at)
      forks == Got(Fields(q).forkCount, q.at)
      after[i \in 0 .. forks.num] ==
        IF i = 0 THEN [id |-> -1, at |-> forks.at]
        ELSE LET s == Subset(Fields(q), val, after[i - 1].id, after[i - 1].at)
             IN [id |-> IF after[i - 1].id = -1 /\ s.in THEN i - 1 ELSE after[i - 1].id, at |-> s.at]
      end == after[forks.num - 1]
  IN CASE NodeType = "Binary"     -> [id |-> val, forks |-> 2, at |-> q.at]
       [] NodeType = "Continuous" -> [id |-> IF val <= cut.num THEN 0 ELSE 1, forks |-> 2, at |-> cut.at]
       [] NodeType = "Discrete"   ->
            [id |-> IF end.id = -1 THEN forks.num - 1 ELSE end.id, forks |-> forks.num, at |-> end.at]
       [] OTHER                   -> [id |-> -1, forks |-> 0, at |-> q.at]
Answers(answer) == answer.id \in 0 .. answer.forks - 1

\* Where the n-th fork begins.
ForkAt(q, answer, n) ==
  LET at[i \in 0 .. n] ==
        IF i = 0 THEN answer.at
        ELSE Jump(IF Bit(at[i - 1]) = 1 THEN dt.vfields.decide ELSE Fields(q).jump, Behind(1, at[i - 1]))
  IN at[n]

AskTree ==
  /\ dset = "asking"
  /\ \E q \in {Question} :
       /\ QuestionOk(q)
       /\ \E answer \in {Answer(q, invec[q.num + 1])} :
            /\ Answers(answer)
            /\ \E fork \in {ForkAt(q, answer, answer.id)} :
                 IF Bit(fork) = 1
                   THEN /\ dset' = "set" /\ dclass' = GetShiftVal(dt.vfields.decide, Behind(1, fork))
                        /\ UNCHANGED place
                   ELSE \E jump \in {Got(Fields(q).jump, Behind(1, fork))} :
                          place' = Jump(jump.num, jump.at) /\ UNCHANGED << dset, dclass >>
  /\ UNCHANGED << dt, invec >>

AskTreeFail ==
  /\ dset = "asking"
  /\ \E q \in {Question} : QuestionOk(q) => ~Answers(Answer(q, invec[q.num + 1]))
  /\ dset' = "failed"
  /\ UNCHANGED << dt, invec, place, dclass >>

DtInit(tree, vec) ==
  /\ dt = tree /\ invec = vec
  /\ place = Root /\ dset = "asking" /\ dclass = 0
DtNext == AskTree \/ AskTreeFail

-----------------------------------------------------------------------------
(* Maps: [ok, val], and val is what to take if it is not ok.                *)
Mapped(ok, val) == [ok |-> ok, val |-> val]
FirstOf(vals, val) ==
  LET at == {n \in DOMAIN vals : vals[n] = val}
  IN IF at = {} THEN Mapped(FALSE, Len(vals)) ELSE Mapped(TRUE, (CHOOSE n \in at : \A m \in at : n <= m) - 1)

MapInFixed(imt, inval) ==
  CASE imt.type = "EMPTY" -> Mapped(TRUE, inval)
    [] imt.type \in {"BYTE", "WORD"} -> FirstOf(imt.vals, inval)
    [] OTHER -> Mapped(FALSE, 0)
MapInGraph(imt, inval) ==
  IF imt.type = "GRAPH" /\ DetUtf8Length(inval[1]) > 0 THEN FirstOf(imt.vals, inval) ELSE Mapped(FALSE, 0)
MapOutFixed(omt, inval) ==
  IF omt.type \in {"BYTE", "WORD"} /\ inval < Len(omt.vals) THEN Mapped(TRUE, omt.vals[inval + 1])
  ELSE Mapped(omt.type = "EMPTY", inval)
ReverseMapOutFixed(omt, inval) == MapInFixed(omt, inval)

\* kdtMapOutVar: the values have different lengths; the table has where each ends.
MapOutVar(omt, inval, maxLen) ==
  LET from == IF inval = 0 THEN 0 ELSE omt.ends[inval]
  IN IF omt.type # "BYTETOVAR" \/ inval >= Len(omt.ends) \/ omt.ends[inval + 1] - from > maxLen
       THEN Mapped(FALSE, << >>)
       ELSE Mapped(TRUE, SubSeq(omt.vals, from + 1, omt.ends[inval + 1]))

\* kdtDtInitialize and kdtDtCheck: what the resource of a tree must have. (There is
\* one output table; an empty one does not pass.)
WellMade(tree, nrAtt, outType) ==
  /\ Len(tree.qfields) = nrAtt /\ Len(tree.inpmaptables) = nrAtt
  /\ Len(tree.outmaptables) = 1 /\ tree.outmaptables[1].type = outType
  /\ DOMAIN tree.vfields = {"question", "decide"}

-----------------------------------------------------------------------------
(* Input vectors. A value that has no mapping is replaced by the fallback;  *)
(* if that is 0 there is no vector.                                         *)
Usable(map) == map.ok \/ map.val > 0
InVec(maps) ==
  IF \A i \in DOMAIN maps : Usable(maps[i]) THEN << [i \in DOMAIN maps |-> maps[i].val] >> ELSE << >>
ConstructFixed(imts, vals) == InVec([i \in DOMAIN vals |-> MapInFixed(imts[i], vals[i])])

\* picokdt_dtACCconstructInVec: no accent before is as ACC0, as the tree has it.
HistoryZero == 30000
AccFrom(omt, val, acc0) ==
  IF val # HistoryZero THEN Mapped(TRUE, val) ELSE ReverseMapOutFixed(omt, acc0)
ACCconstructInVec(imts, omt, vals, acc0) ==
  IF ~\A i \in {6, 7} : Usable(AccFrom(omt, vals[i], acc0)) THEN << >>
  ELSE ConstructFixed(imts, [i \in DOMAIN vals |-> IF i \in {6, 7} THEN AccFrom(omt, vals[i], acc0).val ELSE vals[i]])

\* picokdt_dtPosPconstructInVec: the first four graphemes and the last six, from a
\* ring of six that is filled from behind and emptied at both ends.
Outside == << 48 >>      \* PICOKDT_OUTSIDEGRAPH_DEFSTR
Eow == << 49 >>          \* PICOKDT_OUTSIDEGRAPH_EOW_DEFCH
Pref == 4
Suff == 6
RingStart == [buf |-> [i \in 0 .. Suff - 1 |-> << >>], rear |-> 0, front |-> 0, len |-> 0, pre |-> << >>, nr |-> 0]
RingAdd(r, c) ==
  LET full == r.len >= Suff
  IN [r EXCEPT !.pre = IF full /\ Len(@) < Pref THEN Append(@, r.buf[r.front]) ELSE @,
               !.front = IF full THEN (@ + 1) % Suff ELSE @,
               !.len = IF full THEN @ ELSE @ + 1,
               !.buf = [@ EXCEPT ![r.rear] = c],
               !.rear = (@ + 1) % Suff, !.nr = @ + 1]
PosPgraphs(r) ==
  [i \in 1 .. Pref + Suff |->
     IF i <= Pref THEN IF i <= Len(r.pre) THEN r.pre[i] ELSE Outside
     ELSE LET back == Pref + Suff - i IN IF back < r.len THEN r.buf[(r.rear - 1 - back) % Suff] ELSE Outside]
PosPring(word) ==
  LET ring[p \in 0 .. Len(word)] ==    \* what a walk from p on finds: the characters in order
        IF p = Len(word) THEN << >>
        ELSE << CharFrom(word, p) >>
               \o (IF NextCharPos(word, p) \in {p, Failed} THEN << >> ELSE ring[NextCharPos(word, p)])
  IN FoldLeft(RingAdd, RingStart, ring[0])
PosPconstructInVec(imts, word, special) ==
  LET ring == PosPring(word)
      vals == PosPgraphs(ring)
      maps == [i \in 1 .. 12 |-> CASE i <= 10 -> MapInGraph(imts[i], vals[i])
                                  [] i = 11 -> MapInFixed(imts[i], IF special # 0 THEN 1 ELSE 0)
                                  [] i = 12 -> MapInFixed(imts[i], ring.nr)]
  IN IF word = << >> \/ ring.buf[(ring.rear - 1) % Suff] = << >> THEN << >> ELSE InVec(maps)

\* picokdt_dtG2PconstructInVec: the graphemes around the one at the byte count, and
\* the end of the word where they end. The byte is in the grapheme number GetUTF8Nr.
GetUTF8NrBytes(word, pos) == pos + 1      \* Mutant: counts bytes
GetUTF8Nr(word, pos) ==
  LET nr[p \in 0 .. Len(word)] ==
        IF p > pos \/ p = Len(word) THEN 0
        ELSE IF NextCharPos(word, p) = Failed THEN 1 ELSE 1 + nr[NextCharPos(word, p)]
  IN nr[0]
GetUTF8char(word, nr) ==
  LET at[n \in 0 .. nr] == IF n = 0 \/ at[n - 1] = Failed THEN 0 ELSE NextCharPos(word, at[n - 1])
  IN IF at[nr] = Failed \/ NextCharPos(word, at[nr]) = Failed THEN Outside ELSE NextChar(word, at[nr])
G2Pgraphs(word, count) ==
  LET len == Max({Utf8Length(word), 0})
      nr == GetUTF8Nr(word, count)
  IN [i \in 1 .. 9 |->
        LET left == 5 - i             \* cinv of the first five
            right == len - (i - 6)    \* and of the others
        IN IF i <= 5
             THEN IF nr > left /\ nr <= len THEN GetUTF8char(word, nr - left - 1)
                  ELSE IF nr = left /\ i # 5 THEN Eow ELSE Outside
             ELSE IF nr > 0 /\ nr <= right - 1 THEN GetUTF8char(word, nr + len - right)
                  ELSE IF nr = right THEN Eow ELSE Outside]
=============================================================================
