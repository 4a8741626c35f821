------------------------------ MODULE WordAna -------------------------------
(***************************************************************************)
(* Word analysis (picowa.c): looks every word up in the user lexica and    *)
(* the main lexicon, and turns it into a WORDINDEX with what was found, or *)
(* predicts its part of speech.  One item is held at a time.  Items are    *)
(* small enough for inBuf and outBuf by the size of these buffers, so that *)
(* the branches for damaged or too long items are left out.                *)
(***************************************************************************)
EXTENDS ProcUnit, Lexicon

CONSTANTS
  Ulex,           \* the user lexica of the voice, in their order
  MainLex,
  PosTags,        \* what the tree may predict, PICODATA_ITEMINFO1_ERR included
  WaInputs        \* [kind, graph] of the items that may arrive

\* picoklex_specializeLexicon takes the lexica of pico/lang/ as they are.  Nothing
\* before this unit makes a WORDINDEX.
ASSUME WordAnaAssumption ==
  /\ Ulex \in Seq({Ulex[i] : i \in DOMAIN Ulex})
  /\ \A i \in DOMAIN Ulex : WellFormed(Ulex[i])
  /\ WellFormed(MainLex)
  /\ \A in \in WaInputs :
       /\ {"kind", "graph", "info1", "info2", "inds"} \subseteq DOMAIN in
       /\ in.kind # "WORDINDEX" /\ in.graph \in Seq(1 .. 255)

VARIABLE
  waItem          \* the items in inBuf and, from FEED on, in outBuf

waVars == << unitVars, waItem >>

WaInit == UnitInit("COLLECT") /\ waItem = << >>

WaCollect ==
  /\ Running("COLLECT") /\ Take
  /\ waItem' = << Head(cbIn) >>
  /\ Go("PROCESS")

WaIdle == Running("COLLECT") /\ cbIn = << >> /\ Return("IDLE") /\ NoTransfer /\ UNCHANGED waItem

Held == waItem[1]

\* An item that is no word, or an empty one, is dropped.
Skipped(item) == item.kind = "OTHER" \/ (item.kind = "WORDGRAPH" /\ item.graph = << >>)

WaSkip ==
  /\ Running("PROCESS") /\ Skipped(Held)
  /\ waItem' = << >>
  /\ Leave("COLLECT", "BUSY") /\ NoTransfer

WaCopy ==
  /\ Running("PROCESS") /\ Held.kind \notin {"WORDGRAPH", "OTHER"}
  /\ Go("FEED") /\ NoTransfer /\ UNCHANGED waItem

\* (mutant) The user lexica are numbered from 0, as the main lexicon is.
FoundIndexFrom0(graph) ==
  LET found == {i \in DOMAIN Ulex : LexLookup(Ulex[i], graph).res # << >>}
  IN IF found = {} THEN 0 ELSE (CHOOSE i \in found : \A j \in found : i <= j) - 1

\* The first user lexicon, from 1, that has the word; 0 is the main lexicon.
FoundIndex(graph) ==
  LET found == {i \in DOMAIN Ulex : LexLookup(Ulex[i], graph).res # << >>}
  IN IF found = {} THEN 0 ELSE CHOOSE i \in found : \A j \in found : i <= j

LexNr(i) == IF i = 0 THEN MainLex ELSE Ulex[i]

\* waProcessWordgraph, with the lexicon the word was found in, and the results.
\* The part of speech of several entries is their group.
Looked(item, nr, lexres) ==
  IF lexres.res = << >>
    THEN {[item EXCEPT !.info1 = {p}] : p \in PosTags}
  ELSE LET poses == {lexres.res[n].pos : n \in DOMAIN lexres.res}
       IN IF lexres.phonfound
            THEN {[item EXCEPT !.kind = "WORDINDEX", !.info1 = poses, !.info2 = nr,
                               !.inds = [n \in DOMAIN lexres.res |-> lexres.res[n].ind]]}
            ELSE {[item EXCEPT !.info1 = poses]}

WaWord ==
  /\ Running("PROCESS") /\ Held.kind = "WORDGRAPH" /\ Held.graph # << >>
  /\ \E nr \in {FoundIndex(Held.graph)} :
     \E item \in Looked(Held, nr, LexLookup(LexNr(nr), Held.graph)) : waItem' = << item >>
  /\ Go("FEED") /\ NoTransfer

WaFeed ==
  /\ Running("FEED") /\ Put(Held)
  /\ waItem' = << >>
  /\ Leave("COLLECT", "BUSY")

WaFeedFull == Running("FEED") /\ ~Room /\ Return("OUT_FULL") /\ NoTransfer /\ UNCHANGED waItem

WaStep == WaCollect \/ WaIdle \/ WaSkip \/ WaCopy \/ WaWord \/ WaFeed \/ WaFeedFull

\* The unit is made or reset; a soft reset only keeps the lexica.
WaReset == UnitReset("COLLECT") /\ waItem' = << >>

WaNext ==
  \/ WaStep
  \/ (Call \/ Arrive(WaInputs) \/ Fetch) /\ UNCHANGED waItem
  \/ WaReset

-----------------------------------------------------------------------------
WaSpec == WaInit /\ [][WaNext]_waVars

\* The entries of a word in lexicon nr, which is searched behind those before it
\* and, when it is 0, behind all others.
FoundIn(nr, graph) ==
  /\ EntriesOf(LexNr(nr), graph) # << >>
  /\ \A i \in DOMAIN Ulex : (nr = 0 \/ i < nr) => EntriesOf(Ulex[i], graph) = << >>

\* A word with indices has those of all its entries, up to MaxNrRes, in the first
\* lexicon that has it, and the sentence analysis, which has no graphemes any
\* more, gets the entries of this word from there (saLexIndLookup, picosa.c).
IndicesResolve(item) ==
  \E found \in {EntriesOf(LexNr(item.info2), item.graph)} :
    /\ FoundIn(item.info2, item.graph)
    /\ item.inds = [n \in 1 .. NrExpected(found) |-> found[n].ind]
    /\ \A n \in DOMAIN item.inds :
         /\ IndFound(LexNr(item.info2), item.inds[n])
         /\ LexIndLookup(LexNr(item.info2), item.inds[n]).graph = item.graph
         /\ LexIndLookup(LexNr(item.info2), item.inds[n]).pos \in item.info1

\* A word without them has to be spoken by rule: no lexicon has it, or the first
\* that has it says so.
SpokenByRule(item) ==
  \A nr \in {0} \cup DOMAIN Ulex :
    FoundIn(nr, item.graph) => EntriesOf(LexNr(nr), item.graph)[1].entry.g2p

Resolves(item) ==
  /\ item.kind = "WORDINDEX" => IndicesResolve(item)
  /\ item.kind = "WORDGRAPH" => SpokenByRule(item)

\* What is fed resolves to what the lexica say of the word.
LexiconResolves == procState = "FEED" => \A n \in DOMAIN waItem : Resolves(waItem[n])

\* And so does what the units behind find.
WordsResolve == \A n \in DOMAIN cbOut : Resolves(cbOut[n])
=============================================================================
