---------------------------- MODULE MCKnowledge -----------------------------
(***************************************************************************)
(* The knowledge bases and the helpers that read them, one at a time, for  *)
(* TLC (MCAccPhr): transducers and decision trees are given as what they   *)
(* mean, and laid out here as the bytes the code reads.                    *)
(***************************************************************************)
EXTENDS Transduce, DecisionTree

CONSTANT Asked           \* what is to be looked at

VARIABLES on, given      \* the kind, and what there is to look at

-----------------------------------------------------------------------------
(* Transducers: pairs of symbols with their class, the size of the hash     *)
(* table, transitions by state and class, those without input, the states   *)
(* that accept.                                                             *)
Digits128(v) ==
  LET d[x \in 0 .. v] == IF x < 128 THEN << x >> ELSE d[x \div 128] \o << x % 128 >> IN d[v]
Marked(s) == [s EXCEPT ![Len(s)] = @ + 128]
Unsigned(n) == IF n < 0 THEN -2 * n - 1 ELSE 2 * n
Num(n) == Marked(Digits128(Unsigned(n)))
Num2(n) == << (2 * n) \div 128, ((2 * n) % 128) + 128 >>
Fixed(n, bytes) == [i \in 1 .. bytes |-> (n \div 256 ^ (bytes - i)) % 256]
Nums(s) == FlattenSeq([i \in DOMAIN s |-> Num(s[i])])

\* The cells of the symbols with a hash value, each with the way to the next.
PairsOf(rel, sym) ==
  LET pairs == SelectSeq(rel.pairs, LAMBDA p : p[1] = sym)
  IN Nums(FlattenSeq([i \in DOMAIN pairs |-> Tail(pairs[i])]) \o << Illegal >>)
SymsOf(rel, h) == SetToSortSeq({rel.pairs[i][1] : i \in {j \in DOMAIN rel.pairs : rel.pairs[j][1] % rel.hash = h}}, <)
Chain(rel, h) ==
  LET syms == SymsOf(rel, h)
  IN FlattenSeq([k \in DOMAIN syms |->
       LET body == PairsOf(rel, syms[k])
       IN Num(syms[k]) \o Num(IF k = Len(syms) THEN 0 ELSE Len(Num(syms[k])) + 1 + Len(body)) \o body])
\* A table of offsets to parts, followed by the parts.
Indexed(parts) ==
  LET start[k \in 1 .. Len(parts) + 1] == IF k = 1 THEN 4 * Len(parts) ELSE start[k - 1] + Len(parts[k - 1])
  IN FlattenSeq([k \in DOMAIN parts |-> Fixed(IF parts[k] = << >> THEN 0 ELSE 2 * start[k], 4)]) \o FlattenSeq(parts)
Layout(rel) ==
  LET alpha == Indexed([h \in 1 .. rel.hash |-> Chain(rel, h - 1)])
      trans == FlattenSeq([q \in DOMAIN rel.trans |-> FlattenSeq([c \in DOMAIN rel.trans[q] |-> Fixed(rel.trans[q][c], 1)])])
      eps == Indexed([q \in DOMAIN rel.trans |->
               IF rel.eps[q] = << >> THEN << >> ELSE Nums(FlattenSeq(rel.eps[q]) \o << Illegal >>)])
      acc == [q \in DOMAIN rel.trans |-> IF q \in rel.acc THEN 1 ELSE 0]
      head == 6 + 2 * 4                             \* the size of the ten numbers
  IN << 0, 0, 0, 0 >>
       \o Nums(<< 0, Len(rel.trans[1]), Len(rel.trans), 0, rel.hash >>) \o Num2(head)
       \o Num(1) \o Num2(head + Len(alpha)) \o Num2(head + Len(alpha \o trans))
       \o Num2(head + Len(alpha \o trans \o eps)) \o alpha \o trans \o eps \o acc

\* All solutions, in the order of the alternatives.
Steps(rel, q, i, in) ==
  (IF i > Len(in) THEN << >>
   ELSE IF in[i].sym = Eps THEN << [out |-> PosSym(in[i].pos, Eps), to |-> q, next |-> i + 1] >>
   ELSE LET pairs == SelectSeq(rel.pairs, LAMBDA p : p[1] = in[i].sym /\ rel.trans[q][p[3]] > 0)
        IN [k \in DOMAIN pairs |-> [out |-> PosSym(in[i].pos, pairs[k][2]), to |-> rel.trans[q][pairs[k][3]], next |-> i + 1]])
  \o [k \in DOMAIN rel.eps[q] |-> [out |-> PosSym(Insert, rel.eps[q][k][1]), to |-> rel.eps[q][k][2], next |-> i]]
RECURSIVE Solutions(_, _, _, _, _)
Solutions(rel, q, i, in, depth) ==
  IF depth = 0 THEN << >>
  ELSE LET steps == Steps(rel, q, i, in)
       IN FlattenSeq([k \in DOMAIN steps |->
            LET rest == Solutions(rel, steps[k].to, steps[k].next, in, depth - 1)
            IN (IF steps[k].next > Len(in) /\ steps[k].to \in rel.acc THEN << << steps[k].out >> >> ELSE << >>)
                 \o [r \in DOMAIN rest |-> << steps[k].out >> \o rest[r]]])

\* One that has to look ahead to know what it does, with two symbols of one hash
\* value; one that inserts, without end; one that takes out.
MCRels ==
  << [pairs |-> << << 97, 98, 1 >>, << 97, 99, 2 >>, << 98, 98, 3 >>, << 99, 97, 1 >> >>, hash |-> 2,
      trans |-> << << 2, 3, 1 >>, << 0, 0, 1 >>, << 3, 3, 0 >> >>, eps |-> << << >>, << >>, << >> >>, acc |-> {1, 3}],
     [pairs |-> << << 97, 97, 1 >>, << 98, 97, 2 >> >>, hash |-> 1,
      trans |-> << << 1, 2 >>, << 1, 0 >> >>, eps |-> << << << 98, 2 >>, << 0, 1 >> >>, << << 99, 1 >> >> >>, acc |-> {1}],
     [pairs |-> << << 97, 0, 1 >>, << 98, 98, 1 >> >>, hash |-> 3,
      trans |-> << << 1 >> >>, eps |-> << << >> >>, acc |-> {1}] >>
MCFsts == [r \in DOMAIN MCRels |-> KfstInitialize(Layout(MCRels[r]))]
MCTrInputs == UNION {{[i \in 1 .. n |-> PosSym(i, s[i])] : s \in [1 .. n -> {0, 97, 98, 99}]} : n \in 0 .. 3}

-----------------------------------------------------------------------------
(* Trees: a decision is a number, a node asks about attribute q.            *)
Node(q, type, par, forks) == [q |-> q, type |-> type, par |-> par, forks |-> forks]
MCFields ==
  << [forkCount |-> 2, bitNo |-> 3, bitCount |-> 3, jump |-> 8, cut |-> 9],
     [forkCount |-> 3, bitNo |-> 5, bitCount |-> 3, jump |-> 7, cut |-> 4],
     [forkCount |-> 2, bitNo |-> 2, bitCount |-> 2, jump |-> 9, cut |-> 3] >>
MCVfields == [question |-> 2, decide |-> 5]
BitsOf(n, size) == [i \in 1 .. size |-> (n \div 2 ^ (size - i)) % 2]
SetBits(s, f) ==
  CASE s.type = 0 -> BitsOf(0, 2) \o BitsOf(s.at, f.bitNo)
    [] s.type \in {1, 2} -> BitsOf(s.type, 2) \o BitsOf(s.at, f.bitNo) \o BitsOf(s.n, f.bitCount)
    [] s.type = 3 -> BitsOf(3, 2) \o BitsOf(s.at, f.bitNo) \o BitsOf(Len(s.mask), f.bitCount) \o s.mask
TypeNr == ("Terminal" :> 0) @@ ("Binary" :> 1) @@ ("Continuous" :> 2) @@ ("Discrete" :> 3)
RECURSIVE NodeBits(_)
NodeBits(node) ==
  LET f == MCFields[node.q + 1]
      isNode(i) == node.forks[i].type # "Decision"
      subs == [i \in DOMAIN node.forks |-> IF isNode(i) THEN NodeBits(node.forks[i]) ELSE << >>]
      size(i) == 1 + IF isNode(i) THEN f.jump ELSE MCVfields.decide
      all == Len(node.forks)
      before(i) == FoldSet(LAMBDA k, n : n + Len(subs[k]), 0, 1 .. i - 1)
      behind(i) == FoldSet(LAMBDA k, n : n + size(k), 0, i + 1 .. all)
  IN BitsOf(TypeNr[node.type], 2) \o BitsOf(node.q, MCVfields.question)
       \o (CASE node.type = "Continuous" -> BitsOf(node.par, f.cut)
             [] node.type = "Discrete" -> BitsOf(all, f.forkCount)
                                            \o FlattenSeq([i \in DOMAIN node.par |-> SetBits(node.par[i], f)])
             [] OTHER -> << >>)
       \o FlattenSeq([i \in DOMAIN node.forks |->
            IF isNode(i) THEN << 0 >> \o BitsOf(behind(i) + before(i), f.jump)
            ELSE << 1 >> \o BitsOf(node.forks[i].class, MCVfields.decide)])
       \o FlattenSeq(subs)
Packed(bits) ==
  LET bit(n) == IF n <= Len(bits) THEN bits[n] ELSE 0
  IN [b \in 1 .. (Len(bits) + 7) \div 8 |-> FoldSet(LAMBDA i, n : n + bit(8 * (b - 1) + i) * 2 ^ (8 - i), 0, 1 .. 8)]

\* What a tree means.
InSet(s, val) ==
  CASE s.type = 0 -> val = s.at
    [] s.type = 1 -> val \in {s.at, s.n}
    [] s.type = 2 -> val \in s.at .. s.at + s.n - 1
    [] s.type = 3 -> val \in {s.at + i - 1 : i \in {j \in DOMAIN s.mask : s.mask[j] = 1}}
RECURSIVE Decision(_, _)
Decision(node, vec) ==
  LET val == vec[node.q + 1]
      in == {i \in DOMAIN node.par : InSet(node.par[i], val)}
      fork == CASE node.type = "Binary" -> val + 1
                [] node.type = "Continuous" -> IF val <= node.par THEN 1 ELSE 2
                [] node.type = "Discrete" -> IF in = {} THEN Len(node.forks) ELSE Min(in)
  IN IF fork \notin DOMAIN node.forks THEN -1
     ELSE IF node.forks[fork].type = "Decision" THEN node.forks[fork].class ELSE Decision(node.forks[fork], vec)

D(class) == [type |-> "Decision", class |-> class]
One(v) == [type |-> 0, at |-> v]
Two(v, w) == [type |-> 1, at |-> v, n |-> w]
Span(v, n) == [type |-> 2, at |-> v, n |-> n]
Mask(v, mask) == [type |-> 3, at |-> v, mask |-> mask]
MCSets == {One(2), Two(1, 3), Span(2, 2), Mask(1, << 0, 1, 0, 1, 1 >>), Mask(0, << 1, 1 >>)}
MCTrees ==
  {Node(2, "Binary", << >>,
        << Node(1, "Discrete", << s1, s2, s3 >>, << D(31), Node(0, "Continuous", 300, << D(1), D(2) >>), D(7), D(16) >>),
           Node(0, "Discrete", << s3, s1 >>, << D(4), D(5), Node(1, "Continuous", 3, << D(8), D(9) >>) >>) >>) :
     s1 \in MCSets, s2 \in MCSets, s3 \in {Two(1, 3), Mask(0, << 1, 1 >>)}}
Table(type, vals) == [type |-> type, vals |-> vals]
TreeOf(node) ==
  [treebody |-> Packed(NodeBits(node)), vfields |-> MCVfields, qfields |-> MCFields,
   inpmaptables |-> << Table("WORD", << 2, 4, 301, 299 >>), Table("EMPTY", << >>), Table("BYTE", << 6, 7 >>) >>,
   outmaptables |-> << Table("WORD", << 0, 0 >>) >>]
MCVecs == {<< v0, v1, v2 >> : v0 \in {0, 2, 300, 301}, v1 \in 0 .. 5, v2 \in 0 .. 2}

-----------------------------------------------------------------------------
(* Words, by the code points of their characters.                           *)
MCPoints == {97, 65, 233, 8364, 66560}
MCWords == UNION {[1 .. n -> MCPoints] : n \in 0 .. 3}
MCLower == (65 :> 97) @@ (66560 :> 66600)
MCUpper == (97 :> 65) @@ (66600 :> 66560)
MCLong == {[i \in 1 .. n |-> IF i \in at THEN 233 ELSE 96 + i] : n \in 1 .. 12, at \in {{}, {1, 2}, {5, 11}}}
Utf8Of(points) == FlattenSeq([n \in DOMAIN points |-> Utf32ToUtf8(points[n])])

\* The table in the comment above picokdt_dtPosPconstructInVec.
PosPWanted(chars) ==
  LET n == Len(chars)
  IN [i \in 1 .. 10 |->
        CASE i > 4 /\ n - (10 - i) >= 1 -> chars[n - (10 - i)]
          [] i <= 4 /\ i <= n - 6       -> chars[i]
          [] OTHER                      -> Outside]
\* The graphemes around the k-th, from four before to four behind.
G2PWanted(chars, k) ==
  [i \in 1 .. 9 |->
     LET at == k + i - 5
     IN IF at \in DOMAIN chars THEN chars[at] ELSE IF at \in {0, Len(chars) + 1} THEN Eow ELSE Outside]

(* Phonemes: a vowel, a consonant, a stress mark, and the separator.        *)
MCPhones == UNION {[1 .. n -> {97, 98, 39}] : n \in 0 .. 6}
Vowel == 97
Stress == 39
Sep == 45
SylCap == 9

-----------------------------------------------------------------------------
NoTr == TrInit(<< >>, [fst |-> << >>, first |-> TRUE, maxAlts |-> 0, maxOut |-> 0])
NoDt == dt = << >> /\ invec = << >> /\ place = Root /\ dset = "none" /\ dclass = 0

KnowInit ==
  /\ on \in Asked
  /\ \/ /\ on = "fst" /\ given \in DOMAIN MCRels /\ NoDt
        /\ \E first \in BOOLEAN, maxAlts \in {2, 4} : \E input \in MCTrInputs :
             TrInit(input, [fst |-> MCFsts[given], first |-> first, maxAlts |-> maxAlts, maxOut |-> 3])
     \/ /\ on = "tree" /\ given \in MCTrees /\ NoTr
        /\ \E tree \in {TreeOf(given)} : WellMade(tree, 3, "WORD") /\ \E vec \in MCVecs : DtInit(tree, vec)
     \/ on = "phones" /\ given \in MCPhones /\ NoTr /\ NoDt
     \/ on = "word" /\ given \in MCWords \union MCLong /\ NoTr /\ NoDt

KnowNext ==
  \/ on = "fst" /\ TrNext /\ UNCHANGED << dtVars, on, given >>
  \/ on = "tree" /\ DtNext /\ UNCHANGED << trVars, on, given >>

Short(s) == SubSeq(s, 1, Min({Len(s), trJob.maxOut}))

(* A transduction gives the last of all ways through the transducer that    *)
(* take all of the input (or the first, if that is asked for) and have no   *)
(* more steps than allowed, and the input if there is none.                 *)
TransducedRight ==
  on = "fst" /\ trPhase = "done" =>
    \E all \in {(IF trIn = << >> THEN << << >> >> ELSE << >>) \o
                 (IF trJob.first /\ trIn = << >> THEN << >> ELSE Solutions(MCRels[given], 1, 1, trIn, trJob.maxAlts))} :
      trOut = Short(IF all = << >> THEN trIn ELSE IF trJob.first THEN all[1] ELSE all[Len(all)])

(* The walk over the bits of a tree decides what the tree means, and finds  *)
(* nothing only where the tree has no answer.                               *)
TreeDecides ==
  on = "tree" /\ dset # "asking" => (IF dset = "set" THEN dclass ELSE -1) = Decision(given, invec)

\* What the tables of a tree make of graphemes: their number in the table, and one
\* number for all others.
Graphemes == << Outside, Utf32ToUtf8(97), Utf32ToUtf8(233), Utf32ToUtf8(8364) >>
NumberOf(c) == CHOOSE n \in 0 .. Len(Graphemes) : IF n < Len(Graphemes) THEN Graphemes[n + 1] = c
                                                  ELSE \A k \in DOMAIN Graphemes : Graphemes[k] # c
PosPTables == [i \in 1 .. 12 |-> IF i <= 10 THEN Table("GRAPH", Graphemes) ELSE Table("EMPTY", << >>)]
OutTable == [type |-> "BYTE", vals |-> << 5, 9, 7 >>]
VarTable == [type |-> "BYTETOVAR", vals |-> << 5, 9, 7, 8 >>, ends |-> << 1, 1, 4 >>]

\* What a tree means is mapped out by its table, and back where the last accents
\* are asked for again; before the first one they are as the number 9.
TablesAgree ==
  /\ \A v \in 0 .. 2 : ReverseMapOutFixed(OutTable, MapOutFixed(OutTable, v).val) = Mapped(TRUE, v)
  /\ FlattenSeq([v \in 1 .. 3 |-> MapOutVar(VarTable, v - 1, 3).val]) = VarTable.vals
  /\ \A n \in DOMAIN given \ {6, 7} :
       LET vals == [i \in 1 .. 13 |-> IF i \in {6, n} THEN HistoryZero ELSE i]
       IN ACCconstructInVec([i \in 1 .. 13 |-> Table("EMPTY", << >>)], OutTable, vals, 9)
            = << [vals EXCEPT ![6] = 1] >>

(* Walks over the bytes of a word find its characters (Utf8), and vectors   *)
(* for parts of speech and phonemes have the graphemes at the ends of the   *)
(* word and around the place, however many bytes they have; a vector for    *)
(* accents has the last accents as the tree has them.                       *)
WordsRead ==
  on = "word" =>
    LET chars == [n \in DOMAIN given |-> Utf32ToUtf8(given[n])]
        ring == PosPring(Utf8Of(given))
        wanted == PosPWanted(chars)
    IN /\ CharsWalked(given)
       /\ PosPgraphs(ring) = wanted /\ ring.nr = Len(chars)
       /\ \A special \in {0, 3} :     \* whether there is a special character, not where
            PosPconstructInVec(PosPTables, Utf8Of(given), special) =
              IF chars = << >> THEN << >>
              ELSE << [i \in 1 .. 12 |-> CASE i <= 10 -> NumberOf(wanted[i])
                                           [] i = 11 -> IF special = 0 THEN 0 ELSE 1
                                           [] i = 12 -> Len(chars)] >>
       /\ \A k \in DOMAIN chars : G2Pgraphs(Utf8Of(given), Starts(chars)[k]) = G2PWanted(chars, k)
       /\ TablesAgree

(* A word without transducers is cut into syllables with one group of       *)
(* vowels each, no phoneme is lost or moved, and a stress mark between two  *)
(* of them goes to the front of the second, as long as there is room.       *)
SyllablesMade ==
  on = "phones" =>
    LET out == TrivialSyllabify([i \in DOMAIN given |-> PosSym(i, given[i])], SylCap, {Vowel}, Stress, Sep)
        syms == [i \in DOMAIN out |-> out[i].sym]
        sounds(s) == SelectSeq(s, LAMBDA p : p \notin {Stress, Sep})
        groups(s) == {i \in DOMAIN s : s[i] = Vowel /\ (i = 1 \/ s[i - 1] # Vowel)}
        seps == {i \in DOMAIN syms : syms[i] = Sep}
        between(i) == \E k \in 1 .. i - 1, n \in i + 1 .. Len(given) : given[k] = Vowel /\ given[n] = Vowel
        stresses == {i \in DOMAIN given : given[i] = Stress /\ between(i)}
    IN Len(given) + Cardinality(groups(given)) < SylCap =>
         /\ sounds(syms) = sounds(given)
         /\ EliminateEpsilons(out, SylCap) = out
         /\ EliminateEpsilons([i \in DOMAIN out |-> IF out[i].sym = Sep THEN PosSym(i, Eps) ELSE out[i]], SylCap)
              = SelectSeq(out, LAMBDA p : p.sym # Sep)
         /\ \A i \in seps : i > 1 /\ i < Len(syms) /\ Cardinality(seps) = Cardinality(groups(given)) - 1
         /\ groups(given) = {} => seps = {}
         /\ \A s, e \in seps \union {0, Len(syms) + 1} :
              s < e /\ (s + 1 .. e - 1) \intersect seps = {} /\ seps # {} =>
                Cardinality(groups(SubSeq(syms, s + 1, e - 1))) = 1
         /\ (\A i, k \in stresses : i < k => \E n \in i .. k : given[n] = Vowel) =>
              Cardinality(stresses) = Cardinality({i \in seps : syms[i + 1] = Stress})
=============================================================================
