----------------------------- MODULE PamSentence ----------------------------
(***************************************************************************)
(* The sentence the phonetic-acoustic mapping collects (picopam.c) and the *)
(* features of its syllables, by which the decision trees choose durations,*)
(* pitch and spectra.                                                      *)
(*                                                                         *)
(* The code counts while the items come in (the forward step) and once     *)
(* more from the end back (the backward step), with counters for each      *)
(* feature in pam_process_event_feature.  What a counter holds depends on  *)
(* the events alone, so the model keeps for each syllable the events that  *)
(* came to it, and a feature is a sweep of its counter over the events.    *)
(* Syllables count from 1 here, from 0 in the code.                        *)
(***************************************************************************)
EXTENDS Integers, Sequences, FiniteSets, SequencesExt, PhoneTiming

DontCare == 250        \* PICOPAM_DONT_CARE_VALUE

-----------------------------------------------------------------------------
(* The forward step: items become syllables, the pauses among them.         *)
MapSentenceType(type) == IF type = "Q" THEN "INTERROGATIVE" ELSE "DECLARATIVE"
MapPhraseType(kind, type) ==
  CASE type = "P" -> IF kind = "PHR3" THEN "p" ELSE "P"
    [] type = "Q" -> "Y"
    [] OTHER      -> "T"

\* What pam_reset_processors leaves.
NoSentence == [syls |-> << >>, sType |-> "DECLARATIVE", pType |-> "T"]
WithTypes(s, item) ==
  [s EXCEPT !.sType = MapSentenceType(item.type), !.pType = MapPhraseType(item.kind, item.type)]

\* Shortest and longest pause in ms, unless the bound asks for others.
DefaultLimits(kind) ==
  CASE kind = "SBEG" -> << 0, 20 >>
    [] kind = "SEND" -> << 550, 650 >>
    [] kind = "PHR1" -> << 275, 325 >>
    [] kind = "PHR2" -> << 4, 60 >>
    [] OTHER         -> << 0, 0 >>
PauseLimits(kind, limits) == IF limits = << 0, 0 >> THEN DefaultLimits(kind) ELSE limits

PausePhone == "_"
CreatePause(s, id, kind, limits) ==
  [s EXCEPT !.syls = Append(@,
    [id |-> id, pause |-> TRUE, bnd |-> kind, limits |-> PauseLimits(kind, limits), phones |-> << PausePhone >>,
     acc |-> 0, sType |-> s.sType, pType |-> s.pType, events |-> << >>])]
CreateSyllable(s, item) ==
  [s EXCEPT !.syls = Append(@,
    [id |-> item.id, pause |-> FALSE, bnd |-> "none", limits |-> << 0, 0 >>, phones |-> item.phones,
     acc |-> item.acc, sType |-> s.sType, pType |-> s.pType, events |-> << >>])]
ProcessEvent(s, e) == [s EXCEPT !.syls[Len(s.syls)].events = Append(@, e)]

\* A syllable without an SBEG before, after a forced end, gets one.
Opened(s) ==
  IF s.syls # << >> THEN s
  ELSE ProcessEvent(CreatePause(NoSentence, 0, "SBEG", << 0, 0 >>), "P")

ForwardStep(s, item) ==
  CASE item.kind = "SBEG" ->
         ProcessEvent(CreatePause(WithTypes(NoSentence, item), item.id, "SBEG", item.limits), "P")
    [] item.kind \in {"PHR1", "PHR2"} ->
         ProcessEvent(CreatePause(WithTypes(s, item), item.id, item.kind, item.limits), "P")
    [] item.kind = "PHR3" -> WithTypes(ProcessEvent(s, "S"), item)
    [] item.kind = "PHR0" -> ProcessEvent(s, "W")
    [] item.kind \in {"SEND", "TERM"} ->
         ProcessEvent(CreatePause(s, item.id, item.kind, item.limits), "P")
    [] item.kind = "SYLL" -> ProcessEvent(CreateSyllable(Opened(s), item), "SYLL")

-----------------------------------------------------------------------------
(* Events, and sweeps over them.  u is the sequence of syllables; an event  *)
(* has its kind, its syllable and the number of that syllable.              *)
EventsOf(u, n, es) == [k \in DOMAIN es |-> [e |-> es[k], n |-> n, syl |-> u[n]]]
Forth(u) == FlattenSeq([n \in DOMAIN u |-> EventsOf(u, n, u[n].events)])

\* The backward step tells from the marks P2, P3, P4 what ended at a syllable.
BackEvents(syl) ==
  LET seen == ToSet(syl.events)
  IN CASE "P" \in seen -> << "P" >>
       [] "S" \in seen -> << "S", "SYLL" >>
       [] "W" \in seen -> << "W", "SYLL" >>
       [] OTHER        -> << "SYLL" >>
Back(u) == FlattenSeq([k \in DOMAIN u |-> EventsOf(u, Len(u) + 1 - k, BackEvents(u[Len(u) + 1 - k]))])

\* A feature: at each syllable of the sweep, what write makes of the counter;
\* the counter is then taken on by next.
SweepOver(f, evs, init, next(_, _), write(_, _)) ==
  Run(LAMBDA a, ev :
             [c |-> next(a.c, ev),
              f |-> IF ev.e = "SYLL" THEN [a.f EXCEPT ![ev.n] = write(a.c, ev)] ELSE a.f],
           [c |-> init, f |-> f], evs).f
Sweep(u, evs, init, next(_, _), write(_, _)) ==
  SweepOver([n \in DOMAIN u |-> 0], evs, init, next, write)
AsIs(c, ev) == c

WordEnd == {"W", "S", "P"}
PhraseEnd == {"S", "P"}
Stressed(syl) == syl.acc \in 1 .. 4
Accented(syl) == syl.acc \in 1 .. 2
StressedOf(u) == {n \in DOMAIN u : Stressed(u[n])}
AccentedOf(u) == {n \in DOMAIN u : Accented(u[n])}
IsContent(syl) == syl.acc > 0
Len3(syl) == Len(syl.phones)        \* B3
One(b) == IF b THEN 1 ELSE 0
Everywhere(u, v) == [n \in DOMAIN u |-> v]
PauseOne(u) == [n \in DOMAIN u |-> One(u[n].pause)]      \* what pauses have to start with
OfType(u, type, f) ==
  [n \in DOMAIN u |-> IF u[n].pause \/ u[n].sType = type THEN f[n] ELSE DontCare]

\* A3, C3: phones of the syllable before, or behind, in the primary phrase.
NeighbourPhones(u, evs, d) ==
  Sweep(u, evs, 0,
        LAMBDA c, ev : IF ev.e = "P" THEN 0 ELSE c + One(ev.e = "SYLL"),
        LAMBDA c, ev : IF c >= 1 THEN Len3(u[ev.n + d]) ELSE 0)

\* Mutant: a secondary phrase ends no word.
PosInWordOverS(u, evs) ==
  SweepOver(PauseOne(u), evs, 1,
        LAMBDA c, ev : CASE ev.e = "SYLL" -> c + 1 [] ev.e = "S" -> c [] OTHER -> 1, AsIs)
\* B4, B5: position in the word.
PosInWord(u, evs) ==
  SweepOver(PauseOne(u), evs, 1, LAMBDA c, ev : IF ev.e = "SYLL" THEN c + 1 ELSE 1, AsIs)

\* B6, B7: position in the secondary phrase, once there was a bound of one.
PosInPhrase(u, evs) ==
  SweepOver(PauseOne(u), evs, 0,
        LAMBDA c, ev : CASE ev.e = "S" -> 1 [] ev.e = "P" -> 0
                         [] OTHER -> IF ev.e = "SYLL" /\ c > 0 THEN c + 1 ELSE c,
        LAMBDA c, ev : IF c = 0 THEN DontCare ELSE c)

\* B8, B9 and B10, B11: stressed, accented syllables so far in the phrase; which
\* are the numbers of these.
SoFar(u, evs, which) ==
  Sweep(u, evs, 0,
        LAMBDA c, ev : IF ev.e = "P" THEN 0 ELSE c + One(ev.e = "SYLL" /\ ev.n \in which),
        AsIs)

\* B12, B13 and B14, B15: syllables since the last stressed, accented one.
SinceLast(u, evs, which) ==
  Sweep(u, evs, -1,
        LAMBDA c, ev : CASE ev.e = "P" -> -1
                         [] ev.e = "SYLL" /\ ev.n \in which -> 0
                         [] OTHER -> IF ev.e = "SYLL" /\ c >= 0 THEN c + 1 ELSE c,
        LAMBDA c, ev : IF c < 0 THEN DontCare ELSE c)

\* B17, B19 and, from the end, B18, B20, B21: the position in the first part
\* of the utterance (part TRUE), or else in the primary phrase.
InPart(u, evs, part) ==
  Sweep(u, evs, [first |-> TRUE, n |-> 1],
        LAMBDA c, ev :
          [first |-> c.first /\ ~(ev.e \in PhraseEnd /\ c.n > 1),
           n |-> CASE ev.e = "SYLL" -> c.n + 1 [] ev.e = "P" -> 1 [] OTHER -> c.n],
        LAMBDA c, ev : IF c.first = part THEN c.n ELSE DontCare)

\* D2, F2: syllables of the word before, or behind, in the primary phrase.
NeighbourWord(u, evs) ==
  Sweep(u, evs, [here |-> 0, other |-> 0, later |-> FALSE],
        LAMBDA c, ev :
          IF ev.e \in WordEnd THEN [here |-> 0, other |-> c.here, later |-> ev.e # "P"]
          ELSE [c EXCEPT !.here = @ + 1],
        LAMBDA c, ev : IF c.later THEN c.other ELSE 0)

\* E1, E2: at the end of a word, for all its syllables.
OfWord(u, fw, default, value(_)) ==
  Run(LAMBDA a, ev :
             CASE ev.e = "SYLL" -> [a EXCEPT !.word = @ \cup {ev.n}]
               [] ev.e \in WordEnd ->
                    [word |-> {},
                     f |-> [n \in DOMAIN u |-> IF n \in a.word THEN value(a.word) ELSE a.f[n]]],
           [word |-> {}, f |-> default], fw).f
E1(u, fw) == OfWord(u, fw, [n \in DOMAIN u |-> 0], LAMBDA word : One(\E m \in word : IsContent(u[m])))
E2(u, fw) == OfWord(u, fw, PauseOne(u), Cardinality)

\* E3, E4: the word's position in the secondary phrase, once there was a bound
\* of one.
WordInPhrase(u, evs) ==
  SweepOver(PauseOne(u), evs, 0,
        LAMBDA c, ev : CASE ev.e = "S" -> 1 [] ev.e = "P" -> 0
                         [] OTHER -> IF ev.e = "W" /\ c > 0 THEN c + 1 ELSE c,
        LAMBDA c, ev : IF c = 0 THEN DontCare ELSE c)

\* E5, E6: content words so far in the primary phrase.
ContentSoFar(u, evs) ==
  Sweep(u, evs, [words |-> 0, content |-> FALSE],
        LAMBDA c, ev :
          CASE ev.e = "SYLL" -> [c EXCEPT !.content = @ \/ IsContent(ev.syl)]
            [] ev.e = "P"    -> [words |-> 0, content |-> FALSE]
            [] OTHER         -> [words |-> c.words + One(c.content), content |-> FALSE],
        LAMBDA c, ev : c.words)

\* E7, E8: words since the last content word, -1 before the first.
SinceContent(u, evs) ==
  Sweep(u, evs, [words |-> -1, content |-> FALSE],
        LAMBDA c, ev :
          CASE ev.e = "SYLL" -> [c EXCEPT !.content = @ \/ IsContent(ev.syl)]
            [] ev.e = "P"    -> [words |-> -1, content |-> FALSE]
            [] c.content     -> [words |-> 0, content |-> FALSE]
            [] OTHER         -> [c EXCEPT !.words = IF @ < 0 THEN @ ELSE @ + 1],
        LAMBDA c, ev : IF c.words < 0 THEN DontCare ELSE c.words)

\* E9, E11 and, from the end, E10, E12, E13: the word's position in the first
\* part of the utterance (part TRUE), or else in the primary phrase.
WordInPart(u, evs, part) ==
  Sweep(u, evs, [first |-> TRUE, saw |-> FALSE, n |-> 1],
        LAMBDA c, ev :
          CASE ev.e = "SYLL" -> [c EXCEPT !.saw = TRUE]
            [] c.first /\ ~c.saw /\ ev.e # "W" -> c
            [] OTHER -> [first |-> c.first /\ ev.e = "W", saw |-> c.saw,
                         n |-> IF ev.e = "P" THEN 1 ELSE c.n + 1],
        LAMBDA c, ev : IF c.first = part THEN c.n ELSE DontCare)

\* G1, G2: syllables, words of the secondary phrase before, in the primary one.
PhraseBefore(u, fw, counted, extra) ==
  Sweep(u, fw, [before |-> 0, here |-> 0],
        LAMBDA c, ev :
          CASE ev.e = "P" -> [before |-> 0, here |-> 0]
            [] ev.e = "S" -> [before |-> c.here + extra, here |-> 0]
            [] OTHER      -> [c EXCEPT !.here = @ + One(ev.e = counted)],
        LAMBDA c, ev : c.before)

\* H1: syllables in the secondary phrase: counted forth, spread back.
CountH1(u, fw) ==
  Sweep(u, fw, 0,
        LAMBDA c, ev : IF ev.e \in PhraseEnd THEN 0 ELSE c + One(ev.e = "SYLL"),
        LAMBDA c, ev : c + 1)
AtEnd(f, ev) == IF ev.e = "S" THEN f[ev.n] ELSE IF ev.n > 1 THEN f[ev.n - 1] ELSE 0
SpreadBack(u, bw, f) ==
  SweepOver(f, bw, 0,
            LAMBDA c, ev : IF ev.e \in PhraseEnd THEN AtEnd(f, ev) ELSE c, AsIs)
H1(u, fw, bw) == SpreadBack(u, bw, CountH1(u, fw))

\* H2: words in the secondary phrase.
CountH2(u, fw) ==
  Run(LAMBDA a, ev :
             CASE ev.e = "SYLL" -> [a EXCEPT !.f[ev.n] = a.c]
               [] ev.e = "W"    -> [c |-> a.c + 1, f |-> [a.f EXCEPT ![ev.n] = a.c + 1]]
               [] ev.e = "S"    -> [c |-> 0, f |-> [a.f EXCEPT ![ev.n] = a.c + 1]]
               [] ev.e = "P"    ->
                    [c |-> 0, f |-> IF ev.n > 2 THEN [a.f EXCEPT ![ev.n - 1] = a.c + 1] ELSE a.f],
           [c |-> 1, f |-> [n \in DOMAIN u |-> 0]], fw).f
H2(u, fw, bw) == SpreadBack(u, bw, CountH2(u, fw))

\* H3, H4: secondary phrases before.
PhrasesSoFar(u, evs) == Sweep(u, evs, 0, LAMBDA c, ev : c + One(ev.e \in PhraseEnd), AsIs)

\* H5: the type of the phrase; one that is not the last of its primary phrase
\* is a weak one.
H5(u, bw) ==
  SweepOver([n \in DOMAIN u |-> u[n].pType], bw, FALSE,
        LAMBDA c, ev : CASE ev.e = "S" -> TRUE [] ev.e = "P" -> FALSE [] OTHER -> c,
        LAMBDA c, ev : IF c /\ ev.syl.pType = "P" THEN "p" ELSE ev.syl.pType)

\* I1, I2: syllables, words of the next secondary phrase in the primary one.
CountI2(u, fw) ==
  Sweep(u, fw, 0,
        LAMBDA c, ev : IF ev.e \in PhraseEnd THEN 1 ELSE c + One(ev.e = "W"), AsIs)
PhraseNext(u, bw, f) ==
  SweepOver(f, bw, [next |-> 0, here |-> 0],
        LAMBDA c, ev :
          IF ev.e \in PhraseEnd
          THEN [next |-> IF ev.e = "P" THEN 0 ELSE c.here, here |-> AtEnd(f, ev)] ELSE c,
        LAMBDA c, ev : c.next)

\* J1, J2, J3: syllables, words and secondary phrases of the utterance.
CountEvents(evs, kinds) == Len(SelectSeq(evs, LAMBDA ev : ev.e \in kinds))

-----------------------------------------------------------------------------
(* The features of all syllables, a record for each.                        *)
Table(u, fw, bw) ==
  [B1 |-> [n \in DOMAIN u |-> One(Stressed(u[n]))], B2 |-> [n \in DOMAIN u |-> One(Accented(u[n]))],
   B3 |-> [n \in DOMAIN u |-> Len3(u[n])],
   B4 |-> PosInWord(u, fw),            B5 |-> PosInWord(u, bw),
   B6 |-> PosInPhrase(u, fw),          B7 |-> PosInPhrase(u, bw),
   B8 |-> SoFar(u, fw, StressedOf(u)),      B9 |-> SoFar(u, bw, StressedOf(u)),
   B10 |-> SoFar(u, fw, AccentedOf(u)),     B11 |-> SoFar(u, bw, AccentedOf(u)),
   B12 |-> SinceLast(u, fw, StressedOf(u)), B13 |-> SinceLast(u, bw, StressedOf(u)),
   B14 |-> SinceLast(u, fw, AccentedOf(u)), B15 |-> SinceLast(u, bw, AccentedOf(u)),
   B17 |-> InPart(u, fw, FALSE),       B19 |-> InPart(u, fw, TRUE),
   B18 |-> InPart(u, bw, FALSE),
   B20 |-> OfType(u, "DECLARATIVE", InPart(u, bw, TRUE)),
   B21 |-> OfType(u, "INTERROGATIVE", InPart(u, bw, TRUE)),
   A3 |-> NeighbourPhones(u, fw, -1),  C3 |-> NeighbourPhones(u, bw, 1),
   D2 |-> NeighbourWord(u, fw),        F2 |-> NeighbourWord(u, bw),
   E1 |-> E1(u, fw),                   E2 |-> E2(u, fw),
   E3 |-> WordInPhrase(u, fw),         E4 |-> WordInPhrase(u, bw),
   E5 |-> ContentSoFar(u, fw),         E6 |-> ContentSoFar(u, bw),
   E7 |-> SinceContent(u, fw),         E8 |-> SinceContent(u, bw),
   E9 |-> WordInPart(u, fw, FALSE),    E11 |-> WordInPart(u, fw, TRUE),
   E10 |-> WordInPart(u, bw, FALSE),
   E12 |-> OfType(u, "DECLARATIVE", WordInPart(u, bw, TRUE)),
   E13 |-> OfType(u, "INTERROGATIVE", WordInPart(u, bw, TRUE)),
   G1 |-> PhraseBefore(u, fw, "SYLL", 0), G2 |-> PhraseBefore(u, fw, "W", 1),
   H1 |-> H1(u, fw, bw),               H2 |-> H2(u, fw, bw),
   H3 |-> PhrasesSoFar(u, fw),         H4 |-> PhrasesSoFar(u, bw),
   H5 |-> H5(u, bw),
   I1 |-> PhraseNext(u, bw, CountH1(u, fw)), I2 |-> PhraseNext(u, bw, CountI2(u, fw)),
   J1 |-> Everywhere(u, CountEvents(fw, {"SYLL"})),
   J2 |-> Everywhere(u, CountEvents(fw, WordEnd) - 1),
   J3 |-> Everywhere(u, CountEvents(fw, PhraseEnd) - 1)]

\* A pause takes over features of the syllables around it.
Inherited == {"B8", "B10", "B12", "B14", "B17", "B19", "B20", "B21", "E5", "E7", "E9", "E11",
              "E12", "E13", "H1", "H2", "H3", "H4"}
ByNeighbour == [A3 |-> "B3", D2 |-> "E2", G1 |-> "H1", G2 |-> "H2"]    \* of the one before
ByNext == [C3 |-> "B3", F2 |-> "E2", I1 |-> "H1", I2 |-> "H2"]         \* of the one behind

AtStart(v) ==       \* the silence the utterance starts with
  [x \in DOMAIN v |-> CASE x = "H4" -> v.J3 [] x = "H5" -> "p"
                        [] x \in (Inherited \ {"E7", "E13"}) \cup {"A3"} -> 0
                        [] OTHER -> v[x]]
DoPause(f, n) ==
  LET own == IF n = 1 THEN AtStart(f[n])
             ELSE [x \in DOMAIN f[n] |->
                    CASE x \in Inherited -> f[n - 1][x]
                      [] x \in DOMAIN ByNeighbour -> f[n - 1][ByNeighbour[x]]
                      [] OTHER -> f[n][x]]
  IN [f EXCEPT ![n] =
       [x \in DOMAIN own |->
         CASE x \in DOMAIN ByNext -> IF n < Len(f) THEN f[n + 1][ByNext[x]] ELSE 0
           [] x = "B18" -> 0
           [] OTHER -> own[x]]]

\* What the backward step leaves: the last pause is done first.
Features(u, table) ==
  Run(LAMBDA f, n : IF u[n].pause THEN DoPause(f, n) ELSE f,
      [n \in DOMAIN u |-> [x \in DOMAIN table |-> table[x][n]]],
      [k \in DOMAIN u |-> Len(u) + 1 - k])

-----------------------------------------------------------------------------
(* The vector of one phone, as the trees take it.                           *)
NoPhone == "none"
PhonesOf(u) == FlattenSeq([n \in DOMAIN u |-> u[n].phones])
PhoneIndex(u, n, k) == Len(PhonesOf(SubSeq(u, 1, n - 1))) + k
Quinphone(u, n, k) ==       \* two phones before, the phone, two behind
  LET all == PhonesOf(u)
      at(m) == IF m \in DOMAIN all THEN all[m] ELSE NoPhone
  IN [d \in 1 .. 5 |-> at(PhoneIndex(u, n, k) + d - 3)]

Compress(v) ==
  CASE v = DontCare -> 10
    [] v <= 5       -> v
    [] v <= 10      -> 6
    [] v <= 20      -> 7
    [] v <= 30      -> 8
    [] OTHER        -> 9

Uncompressed == {"B1", "B2", "E1", "H5"}
TreeFeatures == {"B1", "B2", "B3", "B4", "B5", "B6", "B7", "B8", "B9", "B10", "B11", "B12", "B13",
                 "B14", "B15", "B17", "B18", "B19", "B20", "B21", "E1", "E2", "E3", "E4", "E5", "E6",
                 "E7", "E8", "E9", "E10", "E11", "E12", "E13", "A3", "C3", "D2", "F2", "G1", "I1",
                 "G2", "I2", "H1", "H2", "H3", "H4", "H5"}
\* vowel: the number of phones before the vowel (P8 of the syllable), which
\* also names B16; the phone's place counts from 1.
PhoneVector(u, f, n, k, vowel) ==
  [P |-> Quinphone(u, n, k), P6 |-> Compress(k), P7 |-> Compress(f.B3 - k + 1),
   P8 |-> One(k - 1 < vowel),
   syl |-> [x \in TreeFeatures |-> IF x \in Uncompressed THEN f[x] ELSE Compress(f[x])]]
=============================================================================
