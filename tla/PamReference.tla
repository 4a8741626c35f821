---------------------------- MODULE PamReference ----------------------------
(***************************************************************************)
(* What the features of a syllable are meant to say, by the words and      *)
(* phrases it stands in rather than by counters: a definition to check     *)
(* PamSentence with.                                                       *)
(***************************************************************************)
EXTENDS PamSentence

Least(S) == CHOOSE m \in S : \A k \in S : m <= k
Greatest(S) == CHOOSE m \in S : \A k \in S : k <= m

\* The syllables around n without a pause and none of these bounds between.
Group(u, n, bounds) ==
  {m \in DOMAIN u :
    \A k \in (IF m < n THEN m ELSE n) .. (IF m < n THEN n ELSE m) :
      /\ ~u[k].pause
      /\ k < m \/ k < n => ToSet(u[k].events) \intersect bounds = {}}
Word(u, n) == Group(u, n, {"W", "S"})
Sec(u, n)  == Group(u, n, {"S"})       \* secondary phrase
Prim(u, n) == Group(u, n, {})          \* primary phrase: from pause to pause
Spoke(u) == {n \in DOMAIN u : ~u[n].pause}
Words(u, S) == {Word(u, m) : m \in S}
Secs(u, S) == {Sec(u, m) : m \in S}
Contents(u, S) == {w \in Words(u, S) : \E m \in w : IsContent(u[m])}

Upto(S, n) == Cardinality({m \in S : m <= n})
From(S, n) == Cardinality({m \in S : m >= n})
Behind(S, n) == {m \in S : m > n}
Before(S, n) == {m \in S : m < n}
SinceIn(S, n) == IF Before(S, n) = {} THEN DontCare ELSE n - Greatest(Before(S, n)) - 1
UntilIn(S, n) == IF Behind(S, n) = {} THEN DontCare ELSE Least(Behind(S, n)) - n - 1
OrDontCare(b, v) == IF b THEN v ELSE DontCare

Meant(u, n, word, sec, prim) ==
  LET firstOfPrim == Least(sec) = Least(prim)
      lastOfPrim == Greatest(sec) = Greatest(prim)
      first == Least(sec) = Least(Spoke(u))
      last == Greatest(sec) = Greatest(Spoke(u))
      stressed == {m \in prim : Stressed(u[m])}
      accented == {m \in prim : Accented(u[m])}
      before == Before(prim, Least(word))
      behind == Behind(prim, Greatest(word))
      content(S) == {m \in S : \E k \in Word(u, m) : IsContent(u[k])}
      wordNo(S) == Cardinality(Words(u, Before(S, Least(word)))) + 1
      wordNoBack(S) == Cardinality(Words(u, Behind(S, Greatest(word)))) + 1
      ofType(type, v) == OrDontCare(u[n].sType = type /\ last, v)
  IN [B4 |-> Upto(word, n), B5 |-> From(word, n),
      B6 |-> OrDontCare(~firstOfPrim, Upto(sec, n)), B7 |-> OrDontCare(~lastOfPrim, From(sec, n)),
      B8 |-> Cardinality(Before(stressed, n)), B9 |-> Cardinality(Behind(stressed, n)),
      B10 |-> Cardinality(Before(accented, n)), B11 |-> Cardinality(Behind(accented, n)),
      B12 |-> SinceIn(stressed, n), B13 |-> UntilIn(stressed, n),
      B14 |-> SinceIn(accented, n), B15 |-> UntilIn(accented, n),
      B17 |-> OrDontCare(~first, Upto(prim, n)), B19 |-> OrDontCare(first, Upto(sec, n)),
      B18 |-> OrDontCare(~last, From(prim, n)),
      B20 |-> ofType("DECLARATIVE", From(sec, n)), B21 |-> ofType("INTERROGATIVE", From(sec, n)),
      A3 |-> IF n - 1 \in prim THEN Len3(u[n - 1]) ELSE 0,
      C3 |-> IF n + 1 \in prim THEN Len3(u[n + 1]) ELSE 0,
      D2 |-> IF before = {} THEN 0 ELSE Cardinality(Word(u, Greatest(before))),
      F2 |-> IF behind = {} THEN 0 ELSE Cardinality(Word(u, Least(behind))),
      E1 |-> One(\E m \in word : IsContent(u[m])), E2 |-> Cardinality(word),
      E3 |-> OrDontCare(~firstOfPrim, wordNo(sec)), E4 |-> OrDontCare(~lastOfPrim, wordNoBack(sec)),
      E5 |-> Cardinality(Contents(u, before)), E6 |-> Cardinality(Contents(u, behind)),
      E7 |-> OrDontCare(content(before) # {},
                        Cardinality(Words(u, Behind(before, Greatest(content(before)))) \ Contents(u, before))),
      E8 |-> OrDontCare(content(behind) # {},
                        Cardinality(Words(u, Before(behind, Least(content(behind)))) \ Contents(u, behind))),
      E9 |-> OrDontCare(~first, wordNo(prim)), E11 |-> OrDontCare(first, wordNo(sec)),
      E10 |-> OrDontCare(~last, wordNoBack(prim)),
      E12 |-> ofType("DECLARATIVE", wordNoBack(sec)), E13 |-> ofType("INTERROGATIVE", wordNoBack(sec)),
      G1 |-> IF firstOfPrim THEN 0 ELSE Cardinality(Sec(u, Least(sec) - 1)),
      G2 |-> IF firstOfPrim THEN 0 ELSE Cardinality(Words(u, Sec(u, Least(sec) - 1))),
      I1 |-> IF lastOfPrim THEN 0 ELSE Cardinality(Sec(u, Greatest(sec) + 1)),
      I2 |-> IF lastOfPrim THEN 0 ELSE Cardinality(Words(u, Sec(u, Greatest(sec) + 1))),
      H1 |-> Cardinality(sec), H2 |-> Cardinality(Words(u, sec)),
      H3 |-> 1 + Cardinality(Secs(u, Before(Spoke(u), Least(sec)))),
      H4 |-> 1 + Cardinality(Secs(u, Behind(Spoke(u), Greatest(sec)))),
      H5 |-> IF ~lastOfPrim /\ u[n].pType = "P" THEN "p" ELSE u[n].pType,
      J1 |-> Cardinality(Spoke(u)), J2 |-> Cardinality(Words(u, Spoke(u))),
      J3 |-> Cardinality(Secs(u, Spoke(u)))]
=============================================================================
