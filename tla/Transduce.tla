----------------------------- MODULE Transduce ------------------------------
(***************************************************************************)
(* Transduction of a sequence of symbols (picotrns.c): a search with       *)
(* backtracking for a path through a transducer that takes all of the      *)
(* input, one recursion position after the other, and the helpers that     *)
(* work on such sequences.  A symbol has the position of the item it       *)
(* belongs to, or Insert.  The path has at most maxAlts steps.             *)
(***************************************************************************)
EXTENDS Fst, TLC

VARIABLES
  trIn,       \* the input
  trOut,      \* the output of the last solution found
  trSol,      \* how many solutions have been found
  trPhase,    \* "search", "finish", "done"
  trAlts,     \* altDesc: for every recursion position up to recPos, the search
              \* for alternatives there, and the one it is at
  trJob       \* the parameters: fst, maxAlts, maxOut, firstSolOnly

trVars == << trIn, trOut, trSol, trPhase, trAlts, trJob >>

Insert == -1      \* PICOTRNS_POS_INSERT
PosSym(pos, sym) == [pos |-> pos, sym |-> sym]
NewAlt(state, inPos) ==
  [start |-> state, inPos |-> inPos, alt |-> "pairs?", search |-> NoSearch, out |-> PosSym(Insert, Illegal)]

\* An empty input is always a solution.
TrInit(input, job) ==
  /\ trIn = input /\ trJob = job
  /\ trOut = << >> /\ trSol = IF input = << >> THEN 1 ELSE 0
  /\ trPhase = "search" /\ trAlts = << NewAlt(1, 0) >>

RecPos == Len(trAlts)
Top == trAlts[RecPos]
AltIn(alt) ==
  /\ trPhase = "search" /\ trAlts # << >> /\ ~(trJob.first /\ trSol > 0)
  /\ Top.alt = alt
MoreInput == Top.inPos < Len(trIn)
InSym == trIn[Top.inPos + 1]
InSearch == UNCHANGED << trIn, trOut, trSol, trPhase, trJob >>
Alt(alt, search) == trAlts' = [trAlts EXCEPT ![RecPos].alt = alt, ![RecPos].search = search] /\ InSearch

\* NoteSolution: the path, as far as there is room for it.
Noted(alts) == [n \in 1 .. Min({Len(alts), trJob.maxOut}) |-> alts[n].out]

\* An alternative: note it, and the solution if it is one; go on behind it while
\* the path may get longer.
Found(alt, search, out, to, inPos) ==
  \E alts \in {[trAlts EXCEPT ![RecPos].alt = alt, ![RecPos].search = search, ![RecPos].out = out]} :
    /\ trAlts' = IF RecPos < trJob.maxAlts THEN Append(alts, NewAlt(to, inPos)) ELSE alts
    /\ IF inPos = Len(trIn) /\ IsAcceptingState(trJob.fst, to)
         THEN trOut' = Noted(alts) /\ trSol' = trSol + 1
         ELSE UNCHANGED << trOut, trSol >>
    /\ UNCHANGED << trIn, trPhase, trJob >>

\* GetNextAlternative: first with the next input symbol; an epsilon in the input
\* is passed on without a change of state.
TrInEps ==
  /\ AltIn("pairs?") /\ MoreInput /\ InSym.sym = Eps
  /\ Found("eps?", NoSearch, PosSym(InSym.pos, Eps), Top.start, Top.inPos + 1)

TrStartPairs ==
  /\ AltIn("pairs?") /\ ~(MoreInput /\ InSym.sym = Eps)
  /\ \E search \in {IF MoreInput THEN StartPairSearch(trJob.fst, InSym.sym) ELSE NoSearch} :
       Alt(IF search = NoSearch THEN "eps?" ELSE "pairs", search)

TrNextPair ==
  /\ AltIn("pairs")
  /\ \E pair \in {GetNextPair(trJob.fst, Top.search)} :
       \E to \in {GetTrans(trJob.fst, Top.start, pair.to)} :
         IF ~pair.found THEN Alt("eps?", NoSearch)
         ELSE IF to > 0 THEN Found("pairs", pair.search, PosSym(InSym.pos, pair.sym), to, Top.inPos + 1)
         ELSE Alt("pairs", pair.search)

\* Then without input.
TrStartEps ==
  /\ AltIn("eps?")
  /\ \E search \in {StartInEpsTransSearch(trJob.fst, Top.start)} :
       Alt(IF search = NoSearch THEN "none" ELSE "eps", search)

TrNextEps ==
  /\ AltIn("eps")
  /\ \E trans \in {GetNextInEpsTrans(trJob.fst, Top.search)} :
       IF trans.found THEN Found("eps", trans.search, PosSym(Insert, trans.sym), trans.to, Top.inPos)
       ELSE Alt("none", NoSearch)

\* No more alternatives here: step back.
TrBack ==
  /\ AltIn("none")
  /\ trAlts' = SubSeq(trAlts, 1, RecPos - 1)
  /\ InSearch

TrEnd ==
  /\ trPhase = "search" /\ (trAlts = << >> \/ (trJob.first /\ trSol > 0))
  /\ trPhase' = "finish"
  /\ UNCHANGED << trIn, trOut, trSol, trAlts, trJob >>

\* Without a solution the input is the output.
TrFinish ==
  /\ trPhase = "finish" /\ trPhase' = "done"
  /\ trOut' = IF trSol = 0 THEN SubSeq(trIn, 1, Min({Len(trIn), trJob.maxOut})) ELSE trOut
  /\ UNCHANGED << trIn, trSol, trAlts, trJob >>

TrNext ==
  TrInEps \/ TrStartPairs \/ TrNextPair \/ TrStartEps \/ TrNextEps \/ TrBack \/ TrEnd \/ TrFinish

-----------------------------------------------------------------------------
(* Epsilons are taken out of what a transduction returns.                   *)
EliminateEpsilons(seq, maxOut) ==
  LET kept == SelectSeq(seq, LAMBDA s : s.sym # Eps) IN SubSeq(kept, 1, Min({Len(kept), maxOut}))

(* The syllables of a word for which there is no transducer: a separator    *)
(* before the last consonant between two vowels, and the stress mark of the *)
(* consonants behind it.  The result has the phones, or what there was when *)
(* a separator might not have fit.                                          *)
\* Mutant: a mark right behind a vowel is overlooked.
MarkBetweenLate(seq, i, j, stress) ==
  LET marks == {k \in i + 1 .. j - 1 : seq[k].sym = stress}
  IN IF marks = {} THEN 0 ELSE CHOOSE k \in marks : \A m \in marks : m <= k
MarkBetween(seq, i, j, stress) ==      \* the last stress mark of the consonants i .. j-1
  LET marks == {k \in i .. j - 1 : seq[k].sym = stress}
  IN IF marks = {} THEN 0 ELSE CHOOSE k \in marks : \A m \in marks : m <= k
TrivialSyllabify(seq, maxOut, vowels, stress, sep) ==
  LET n == Len(seq)
      isVowel(i) == i <= n /\ seq[i].sym \in vowels
      endOf(i, vowel) == CHOOSE j \in i .. n + 1 : /\ j = n + 1 \/ isVowel(j) # vowel
                                                   /\ \A k \in i .. j - 1 : isVowel(k) = vowel
      copy(i, j, but) == SelectSeq([k \in 1 .. j - i + 1 |-> [at |-> i + k - 1, s |-> seq[i + k - 1]]],
                                   LAMBDA c : c.at # but)
      syms(copied) == [k \in DOMAIN copied |-> copied[k].s]
      syl[i \in 1 .. n + 1, found \in BOOLEAN, ins \in 0 .. n] ==   \* from the i-th symbol on
        IF i > n THEN << >>
        ELSE IF n + ins + 1 >= maxOut THEN << >>
        ELSE LET j == endOf(i, FALSE)
                 mark == MarkBetween(seq, i, j, stress)
                 mid == Max({i, j - 1})          \* the last consonant, or the vowel
                 end == endOf(j, TRUE)
             IN IF j > n THEN syms(copy(i, n, 0))
                ELSE syms(copy(i, mid - 1, mark))
                       \o (IF found THEN << PosSym(Insert, sep) >>
                                           \o (IF mark > 0 THEN << PosSym(Insert, stress) >> ELSE << >>)
                           ELSE << >>)
                       \o syms(copy(mid, end - 1, mark))
                       \o syl[end, TRUE, IF found THEN ins + 1 ELSE ins]
  IN syl[1, FALSE, 0]
=============================================================================
