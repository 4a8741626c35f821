-------------------------------- MODULE Fst ---------------------------------
(***************************************************************************)
(* Finite state transducers as they lie in a resource (picokfst.c): a      *)
(* stream of bytes, read by position.  Positions count from 0, as in the   *)
(* code.  Numbers are of fixed size, or of as many bytes as they need,     *)
(* seven bits in each and the eighth set in the last; the lowest bit of a  *)
(* signed number is its sign.                                              *)
(*                                                                         *)
(* The stream has the pairs of symbols in hash chains, a table of          *)
(* transitions by state and class of pairs, for each state the transitions *)
(* that take no input, and a byte for each state that is 1 if it accepts.  *)
(***************************************************************************)
EXTENDS Integers, Sequences, FiniteSetsExt, Folds

Eps == 0         \* PICOKFST_SYMID_EPS
Illegal == -1    \* PICOKFST_SYMID_ILLEG
HdrLen == 4      \* FileHdrSize

Octet(s, p) == s[p + 1]
Read(num, pos) == [num |-> num, pos |-> pos]    \* a number, and the place behind it

FixedBytesToUnsignedNum(s, n, pos) ==
  Read(FoldFunctionOnSet(LAMBDA b, acc : acc + b, 0,
         [i \in 0 .. n - 1 |-> Octet(s, pos + i) * 256 ^ (n - 1 - i)], 0 .. n - 1), pos + n)

\* The least bit is the sign.
Signed(val) == IF val % 2 = 1 THEN -((val - 1) \div 2) - 1 ELSE val \div 2
FixedBytesToSignedNum(s, n, pos) ==
  LET r == FixedBytesToUnsignedNum(s, n, pos) IN Read(Signed(r.num), r.pos)

BytesToNum(s, pos) ==
  LET last == CHOOSE p \in pos .. Len(s) - 1 : Octet(s, p) >= 128 /\ \A q \in pos .. p - 1 : Octet(s, q) < 128
      digit(p) == IF p = last THEN Octet(s, p) - 128 ELSE Octet(s, p)
  IN Read(Signed(FoldFunctionOnSet(LAMBDA d, acc : acc + d, 0,
                   [p \in pos .. last |-> digit(p) * 128 ^ (last - p)], pos .. last)), last + 1)

\* kfstInitialize: ten numbers after the header; offsets count from its end.
HeaderNums(s) ==
  LET nums[i \in 0 .. 9] == BytesToNum(s, IF i = 0 THEN HdrLen ELSE nums[i - 1].pos)
  IN [i \in 0 .. 9 |-> nums[i].num]
KfstInitialize(s) ==
  LET h == HeaderNums(s)
  IN [stream |-> s, nrClasses |-> h[1], nrStates |-> h[2],
      hashSize |-> h[4], alphaPos |-> HdrLen + h[5],
      entrySize |-> h[6], transPos |-> HdrLen + h[7],
      inEpsPos |-> HdrLen + h[8], accPos |-> HdrLen + h[9]]

NoSearch == -1
IsState(fst, q) == q \in 1 .. fst.nrStates

\* Mutant: only the first cell of a chain is looked at.
StartPairSearchFirst(fst, sym) ==
  LET s == fst.stream
      offs == FixedBytesToSignedNum(s, 4, fst.alphaPos + (sym % fst.hashSize) * 4).num
      inSym == BytesToNum(s, fst.alphaPos + offs)
  IN IF offs > 0 /\ inSym.num = sym THEN BytesToNum(s, inSym.pos).pos ELSE NoSearch

\* Looks for the cell of an input symbol, along the chain of its hash value: the
\* state of the search is the place of its first pair.
StartPairSearch(fst, sym) ==
  LET s == fst.stream
      offs == FixedBytesToSignedNum(s, 4, fst.alphaPos + (sym % fst.hashSize) * 4).num
      found[cell \in 0 .. Len(s)] ==
        LET inSym == BytesToNum(s, cell)
            next == BytesToNum(s, inSym.pos)
        IN IF inSym.num = sym THEN next.pos
           ELSE IF next.num > 0 THEN found[cell + next.num] ELSE NoSearch
  IN IF offs > 0 THEN found[fst.alphaPos + offs] ELSE NoSearch

\* The pair of numbers at a search state, and the search state behind it.
NextOf(fst, search) ==
  LET out == BytesToNum(fst.stream, search)
      to == BytesToNum(fst.stream, out.pos)
  IN IF search < 0 \/ out.num = Illegal
       THEN [found |-> FALSE, sym |-> Illegal, to |-> 0, search |-> NoSearch]
       ELSE [found |-> TRUE, sym |-> out.num, to |-> to.num, search |-> to.pos]
GetNextPair(fst, search) == NextOf(fst, search)
GetNextInEpsTrans(fst, search) == NextOf(fst, search)

\* The state a class of pairs leads to from a state, or 0.
GetTrans(fst, q, class) ==
  IF IsState(fst, q) /\ class \in 1 .. fst.nrClasses
    THEN FixedBytesToUnsignedNum(fst.stream, fst.entrySize,
           fst.transPos + ((q - 1) * fst.nrClasses + class - 1) * fst.entrySize).num
    ELSE 0

StartInEpsTransSearch(fst, q) ==
  LET offs == FixedBytesToSignedNum(fst.stream, 4, fst.inEpsPos + (q - 1) * 4).num
  IN IF IsState(fst, q) /\ offs > 0 THEN fst.inEpsPos + offs ELSE NoSearch

IsAcceptingState(fst, q) == IsState(fst, q) /\ Octet(fst.stream, fst.accPos + q - 1) = 1
=============================================================================
