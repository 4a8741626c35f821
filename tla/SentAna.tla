------------------------------- MODULE SentAna -------------------------------
(***************************************************************************)
(* Sentence analysis (picosa.c): collects the items of a phrase,           *)
(* disambiguates their parts of speech, turns words into phones, sends     *)
(* these through the word-level transducers one after the other and feeds  *)
(* the items on.  One call of saStep runs from Call to a Return; the       *)
(* application and the other units act only between calls, so also between *)
(* the phases, where a call returns ATOMIC or BUSY.                        *)
(*                                                                         *)
(* A byte of content is represented by the number of the item it belongs   *)
(* to.  The trees, lexica and transducers are a choice of how many phones  *)
(* they give and of whether they find an entry.                            *)
(***************************************************************************)
EXTENDS Integers, Sequences

CONSTANTS
  MaxHeadx,      \* PICOSA_MAXNR_HEADX
  CbufSize,      \* PICOSA_MAXSIZE_CBUF
  MaxItemSize,   \* PICOSA_MAXITEMSIZE
  MaxPossym,     \* PICOTRNS_MAX_NUM_POSSYM
  EntrySize,     \* PICOKLEX_POSIND_SIZE
  NumFsts,       \* transducers of the voice
  PhoneLens,     \* how many phones a tree or lexicon gives for a word
  InCap, OutCap, \* items in the char buffers before and behind the unit
  Inputs,        \* [kind, len] of the items that may arrive
  MaxItems,      \* bound on the items that arrive
  ResetModes,    \* subset of {"full", "soft"}
  MaxResets      \* bound on the resets

InKinds == {"WORDGRAPH", "WORDINDEX", "CMD_PHONEME", "CMD_FLUSH", "PUNC", "OTHER"}
HeldKinds == {"WORDGRAPH", "WORDINDEX", "WORDPHON", "PUNC", "OTHER"}

ASSUME SaAssumption ==
  /\ MaxHeadx \in Nat \ {0, 1} /\ CbufSize \in Nat /\ MaxItemSize \in Nat
  /\ MaxPossym \in Nat /\ EntrySize \in Nat \ {0} /\ NumFsts \in Nat
  /\ PhoneLens \subseteq Nat
  /\ InCap \in Nat \ {0} /\ OutCap \in Nat \ {0}
  /\ MaxItems \in Nat /\ MaxResets \in Nat
  /\ ResetModes \subseteq {"full", "soft"}
  /\ Inputs \subseteq [kind : InKinds, len : Nat]
  /\ \A in \in Inputs : in.kind = "WORDINDEX" => in.len >= EntrySize /\ in.len % EntrySize = 0

Forced == 0      \* stands for a forced PUNC, and for bytes of no item
NoItem == [id |-> Forced, kind |-> "PUNC", body |-> << >>, fsts |-> << >>]

VARIABLES
  cbIn, cbOut,               \* items in the char buffers of the unit
  procState, status,         \* phase; "running", or what the last call returned
  inspaceok, needsmoreitems,
  headx,                     \* headx[headxBottom ..]: [id, kind, len, cind]
  ind,                       \* loop index of the phase
  cbuf1, cbuf2,              \* the used parts of the content buffers
  tmpbuf, phonesTransduced,
  curFst,
  fsts,                      \* the transducers run on phonBuf so far
  fed, resets                \* items that arrived and resets so far

ctrlVars == << procState, status, inspaceok, needsmoreitems, ind >>
phraseVars == << headx, cbuf1, cbuf2 >>
wordVars == << tmpbuf, phonesTransduced, curFst, fsts >>
saVars == << cbIn, cbOut, ctrlVars, phraseVars, wordVars, fed, resets >>

Least(a, b) == IF a < b THEN a ELSE b
Bytes(id, n) == [k \in 1 .. n |-> id]

\* What is read at a header's cind; behind the used part lies anything.
Slice(buf, h) ==
  [k \in 1 .. h.len |-> IF h.cind + k \in DOMAIN buf THEN buf[h.cind + k] ELSE Forced]

-----------------------------------------------------------------------------
Init ==
  /\ cbIn = << >> /\ cbOut = << >>
  /\ procState = "COLLECT" /\ status = "IDLE"
  /\ inspaceok = TRUE /\ needsmoreitems = TRUE /\ ind = 1
  /\ headx = << >> /\ cbuf1 = << >> /\ cbuf2 = << >>
  /\ tmpbuf = NoItem /\ phonesTransduced = FALSE /\ curFst = 0 /\ fsts = << >>
  /\ fed = 0 /\ resets = 0

\* saStep is called, and leaves its loop.
Call == status # "running" /\ status' = "running"
        /\ UNCHANGED << cbIn, cbOut, procState, inspaceok, needsmoreitems, ind,
                        phraseVars, wordVars, fed, resets >>
Running(phase) == status = "running" /\ procState = phase
Return(st) == status' = st
GoOn == UNCHANGED status

-----------------------------------------------------------------------------
(* COLLECT.                                                                 *)
\* The header an item gets: a flush becomes the end of a phrase, an opening
\* phoneme command a word that is cut at the first word boundary.
Headers(it) ==
  CASE it.kind = "CMD_FLUSH"   -> {[kind |-> "PUNC", len |-> 0]}
    [] it.kind = "CMD_PHONEME" -> {[kind |-> "WORDPHON", len |-> n] : n \in 0 .. it.len}
    [] OTHER                   -> {[kind |-> it.kind, len |-> it.len]}

\* Is the flag still set once this item is in? Asked before cbuf1Len grows.
SpaceLeft ==
  /\ Len(headx) < MaxHeadx - 2
  /\ CbufSize - Len(cbuf1) >= MaxItemSize

CollectItem ==
  /\ Running("COLLECT") /\ inspaceok /\ needsmoreitems /\ cbIn # << >>
  /\ Head(cbIn).len <= CbufSize - Len(cbuf1)
  /\ \E h \in Headers(Head(cbIn)) :
       /\ headx' = Append(headx, [id |-> Head(cbIn).id, kind |-> h.kind, len |-> h.len,
                                  cind |-> IF Head(cbIn).len > 0 THEN Len(cbuf1) ELSE 0])
       /\ needsmoreitems' = (h.kind # "PUNC")
  /\ inspaceok' = SpaceLeft
  /\ cbuf1' = cbuf1 \o Bytes(Head(cbIn).id, Head(cbIn).len)
  /\ cbIn' = Tail(cbIn)
  /\ GoOn
  /\ UNCHANGED << cbOut, procState, ind, cbuf2, wordVars, fed, resets >>

\* The item is out of the char buffer, but cbuf1 cannot take it.
CollectError ==
  /\ Running("COLLECT") /\ inspaceok /\ needsmoreitems /\ cbIn # << >>
  /\ Head(cbIn).len > CbufSize - Len(cbuf1)
  /\ cbIn' = Tail(cbIn)
  /\ Return("ERROR")
  /\ UNCHANGED << cbOut, procState, inspaceok, needsmoreitems, ind, phraseVars, wordVars,
                  fed, resets >>

CollectPhrase ==
  /\ Running("COLLECT") /\ ~needsmoreitems
  /\ procState' = "POSD" /\ ind' = 1
  /\ Return("ATOMIC")
  /\ UNCHANGED << cbIn, cbOut, inspaceok, needsmoreitems, phraseVars, wordVars, fed, resets >>

CollectForced ==
  /\ Running("COLLECT") /\ needsmoreitems /\ ~inspaceok
  /\ headx' = Append(headx, [id |-> Forced, kind |-> "PUNC", len |-> 0, cind |-> 0])
  /\ needsmoreitems' = FALSE
  /\ procState' = "POSD" /\ ind' = 1
  /\ Return("ATOMIC")
  /\ UNCHANGED << cbIn, cbOut, inspaceok, cbuf1, cbuf2, wordVars, fed, resets >>

CollectIdle ==
  /\ Running("COLLECT") /\ needsmoreitems /\ inspaceok /\ cbIn = << >>
  /\ Return("IDLE")
  /\ UNCHANGED << cbIn, cbOut, procState, inspaceok, needsmoreitems, ind, phraseVars, wordVars,
                  fed, resets >>

-----------------------------------------------------------------------------
(* PROCESS_POSD: a word with one part of speech is kept; of a word with     *)
(* several lexicon entries one is selected.                                 *)

\* Where the entries of a lexicon word start in its content.
Entries(h) == {i \in 0 .. h.len - EntrySize : i % EntrySize = 0}

\* (mutant) The length stays that of all entries.
SelectedKeepsLen(h) ==
  {h} \union
  IF h.kind = "WORDINDEX"
    THEN {[h EXCEPT !.cind = h.cind + i] : i \in Entries(h)}
    ELSE {}

Selected(h) ==
  {h} \union
  IF h.kind = "WORDINDEX"
    THEN {[h EXCEPT !.cind = h.cind + i, !.len = EntrySize] : i \in Entries(h)}
    ELSE {}

Posd ==
  /\ Running("POSD") /\ ind <= Len(headx)
  /\ \E h \in Selected(headx[ind]) : headx' = [headx EXCEPT ![ind] = h]
  /\ ind' = ind + 1
  /\ GoOn
  /\ UNCHANGED << cbIn, cbOut, procState, inspaceok, needsmoreitems, cbuf1, cbuf2, wordVars,
                  fed, resets >>

PosdDone ==
  /\ Running("POSD") /\ ind > Len(headx)
  /\ procState' = "WPHO" /\ ind' = 1
  /\ GoOn
  /\ UNCHANGED << cbIn, cbOut, inspaceok, needsmoreitems, phraseVars, wordVars, fed, resets >>

-----------------------------------------------------------------------------
(* PROCESS_WPHO: content moves from cbuf1 to cbuf2, cut where it does not   *)
(* fit.                                                                     *)
Room2 == CbufSize - Len(cbuf2)

\* The item at ind is of kind k from now on and has the content c, all of it
\* that fits. (Of an item cut to nothing cind is 0 in the code, and never read.)
Moved(k, c) ==
  LET n == Least(Len(c), Room2)
  IN /\ headx' = [headx EXCEPT ![ind] =
                   [id |-> headx[ind].id, kind |-> k, len |-> n, cind |-> Len(cbuf2)]]
     /\ cbuf2' = cbuf2 \o [j \in 1 .. n |-> c[j]]

IsWord(h) == h.kind \in {"WORDGRAPH", "WORDINDEX"}

\* saGraphemeToPhoneme and saLexIndLookup.
WphoWord ==
  /\ IsWord(headx[ind])
  /\ \E n \in PhoneLens : Moved("WORDPHON", Bytes(headx[ind].id, n))

\* A word that is no UTF-8, an index outside the lexicon: the header stays,
\* with a cind into cbuf1.
WphoIrregular == IsWord(headx[ind]) /\ UNCHANGED << headx, cbuf2 >>

\* saCopyItemContent1to2.
WphoCopy == ~IsWord(headx[ind]) /\ Moved(headx[ind].kind, Slice(cbuf1, headx[ind]))

Wpho ==
  /\ Running("WPHO") /\ ind <= Len(headx)
  /\ WphoWord \/ WphoIrregular \/ WphoCopy
  /\ ind' = ind + 1
  /\ GoOn
  /\ UNCHANGED << cbIn, cbOut, procState, inspaceok, needsmoreitems, cbuf1, wordVars,
                  fed, resets >>

WphoDone ==
  /\ Running("WPHO") /\ ind > Len(headx)
  /\ cbuf1' = << >>
  /\ procState' = "PARSE" /\ ind' = 1
  /\ GoOn
  /\ UNCHANGED << cbIn, cbOut, inspaceok, needsmoreitems, headx, cbuf2, wordVars, fed, resets >>

-----------------------------------------------------------------------------
(* PROCESS_TRNS_PARSE, PROCESS_TRNS_FST and FEED, item by item.             *)

\* (mutant) inspaceok is not set again.
ParseKeepsSpace ==
  /\ Running("PARSE") /\ headx = << >>
  /\ cbuf2' = << >>
  /\ needsmoreitems' = TRUE
  /\ procState' = "COLLECT"
  /\ Return("BUSY")
  /\ UNCHANGED << cbIn, cbOut, inspaceok, ind, headx, cbuf1, wordVars, fed, resets >>

ParseDone ==
  /\ Running("PARSE") /\ headx = << >>
  /\ cbuf2' = << >>
  /\ inspaceok' = TRUE /\ needsmoreitems' = TRUE
  /\ procState' = "COLLECT"
  /\ Return("BUSY")
  /\ UNCHANGED << cbIn, cbOut, ind, headx, cbuf1, wordVars, fed, resets >>

\* saExtractPhonemes puts a symbol before and one after the phones.
Transducible(kind, len) == kind = "WORDPHON" /\ len + 2 <= MaxPossym

Parse ==
  /\ Running("PARSE") /\ headx # << >>
  /\ LET h == Head(headx)
     IN /\ tmpbuf' = [id |-> h.id, kind |-> h.kind, body |-> Slice(cbuf2, h), fsts |-> << >>]
        /\ procState' = IF Transducible(h.kind, h.len) THEN "FST" ELSE "FEED"
  /\ fsts' = << >>
  /\ headx' = Tail(headx)
  /\ GoOn
  /\ UNCHANGED << cbIn, cbOut, inspaceok, needsmoreitems, ind, cbuf1, cbuf2, phonesTransduced,
                  curFst, fed, resets >>

\* Every transducer takes a call of its own.
Fst ==
  /\ Running("FST") /\ curFst < NumFsts
  /\ fsts' = Append(fsts, curFst)
  /\ curFst' = curFst + 1
  /\ phonesTransduced' = TRUE
  /\ Return("ATOMIC")
  /\ UNCHANGED << cbIn, cbOut, procState, inspaceok, needsmoreitems, ind, phraseVars, tmpbuf,
                  fed, resets >>

\* (mutant) The next word does not start with the first transducer.
FstDoneKeepsCur ==
  /\ Running("FST") /\ curFst >= NumFsts
  /\ phonesTransduced' = TRUE
  /\ procState' = "FEED"
  /\ GoOn
  /\ UNCHANGED << cbIn, cbOut, inspaceok, needsmoreitems, ind, phraseVars, tmpbuf, curFst, fsts,
                  fed, resets >>

\* All are done, or there are none, which is the trivial syllabification.
FstDone ==
  /\ Running("FST") /\ curFst >= NumFsts
  /\ curFst' = 0
  /\ phonesTransduced' = TRUE
  /\ procState' = "FEED"
  /\ GoOn
  /\ UNCHANGED << cbIn, cbOut, inspaceok, needsmoreitems, ind, phraseVars, tmpbuf, fsts,
                  fed, resets >>

\* The phones in tmpbuf are replaced once, then the item is put.
Transduced == IF phonesTransduced THEN [tmpbuf EXCEPT !.fsts = fsts] ELSE tmpbuf

Feed ==
  /\ Running("FEED") /\ Len(cbOut) < OutCap
  /\ cbOut' = Append(cbOut, Transduced)
  /\ tmpbuf' = Transduced /\ phonesTransduced' = FALSE
  /\ procState' = "PARSE"
  /\ GoOn
  /\ UNCHANGED << cbIn, inspaceok, needsmoreitems, ind, phraseVars, curFst, fsts, fed, resets >>

\* (mutant) The item is not tried again.
FeedFullForgets ==
  /\ Running("FEED") /\ Len(cbOut) >= OutCap
  /\ tmpbuf' = Transduced /\ phonesTransduced' = FALSE
  /\ procState' = "PARSE"
  /\ Return("OUT_FULL")
  /\ UNCHANGED << cbIn, cbOut, inspaceok, needsmoreitems, ind, phraseVars, curFst, fsts,
                  fed, resets >>

FeedFull ==
  /\ Running("FEED") /\ Len(cbOut) >= OutCap
  /\ tmpbuf' = Transduced /\ phonesTransduced' = FALSE
  /\ Return("OUT_FULL")
  /\ UNCHANGED << cbIn, cbOut, procState, inspaceok, needsmoreitems, ind, phraseVars, curFst, fsts,
                  fed, resets >>

-----------------------------------------------------------------------------
(* Between calls.                                                           *)
Arrive(in) ==
  /\ status # "running" /\ Len(cbIn) < InCap /\ fed < MaxItems
  /\ cbIn' = Append(cbIn, [id |-> fed + 1, kind |-> in.kind, len |-> in.len])
  /\ fed' = fed + 1
  /\ UNCHANGED << cbOut, ctrlVars, phraseVars, wordVars, resets >>

Leave ==
  /\ status # "running" /\ cbOut # << >>
  /\ cbOut' = Tail(cbOut)
  /\ UNCHANGED << cbIn, ctrlVars, phraseVars, wordVars, fed, resets >>

\* picoctrl_engReset: the char buffers, and saInitialize, which returns early
\* from a soft reset.
Reset(mode) ==
  /\ status # "running" /\ resets < MaxResets
  /\ cbIn' = << >> /\ cbOut' = << >>
  /\ procState' = "COLLECT" /\ inspaceok' = TRUE /\ needsmoreitems' = TRUE
  /\ headx' = << >> /\ cbuf1' = << >> /\ cbuf2' = << >>
  /\ phonesTransduced' = FALSE /\ fsts' = << >>
  /\ curFst' = IF mode = "soft" THEN curFst ELSE 0
  /\ resets' = resets + 1
  /\ UNCHANGED << status, ind, tmpbuf, fed >>

Step ==
  \/ CollectItem \/ CollectError \/ CollectPhrase \/ CollectForced \/ CollectIdle
  \/ Posd \/ PosdDone \/ Wpho \/ WphoDone
  \/ ParseDone \/ Parse \/ Fst \/ FstDone \/ Feed \/ FeedFull

Next ==
  \/ Call \/ Step
  \/ \E in \in Inputs : Arrive(in)
  \/ Leave
  \/ \E mode \in ResetModes : Reset(mode)

Spec == Init /\ [][Next]_saVars

\* A call, once made, runs to its return, and the control unit goes on calling.
\* Strong fairness of Leave, which a running call disables: OUT_FULL gives the
\* turn to the unit behind (ctrlStep), which takes what is there.
FairSpec == Spec /\ WF_saVars(Step) /\ WF_saVars(Call) /\ SF_saVars(Leave)

-----------------------------------------------------------------------------
(* Properties.                                                              *)
Phases == {"COLLECT", "POSD", "WPHO", "PARSE", "FST", "FEED"}
Results == {"running", "IDLE", "BUSY", "ATOMIC", "OUT_FULL", "ERROR"}
Arrived == [id : Nat, kind : InKinds, len : Nat]
Header == [id : Nat, kind : HeldKinds, len : Nat, cind : Nat]
Ready == [id : Nat, kind : HeldKinds, body : Seq(Nat), fsts : Seq(Nat)]

\* The type invariant. The phrase never has more headers than there are slots,
\* the slot for a forced PUNC included (picosa.c, the spare slot of the COLLECT
\* phase), and the content never outgrows its buffers.
TypeOK ==
  /\ cbIn \in Seq(Arrived) /\ cbOut \in Seq(Ready)
  /\ procState \in Phases /\ status \in Results
  /\ inspaceok \in BOOLEAN /\ needsmoreitems \in BOOLEAN
  /\ headx \in Seq(Header) /\ Len(headx) <= MaxHeadx
  /\ ind \in Nat \ {0}
  /\ cbuf1 \in Seq(Nat) /\ Len(cbuf1) <= CbufSize
  /\ cbuf2 \in Seq(Nat) /\ Len(cbuf2) <= CbufSize
  /\ tmpbuf \in Ready /\ phonesTransduced \in BOOLEAN
  /\ curFst \in 0 .. NumFsts /\ fsts \in Seq(Nat)
  /\ fed \in Nat /\ resets \in Nat

\* All that is read at a header's cind is content of this item.
Owns(buf, h) ==
  /\ h.cind + h.len <= Len(buf)
  /\ \A k \in 1 .. h.len : buf[h.cind + k] = h.id

\* While headers are shortened, moved to an entry in the middle of their
\* content and changed over from cbuf1 to cbuf2, none ever points at another
\* item's content (saDisambPos, saCopyItemContent1to2, saLexIndLookup,
\* saGraphemeToPhoneme). Words reported as irregular are excepted.
InCbuf1(n) == procState \in {"COLLECT", "POSD"} \/ (procState = "WPHO" /\ n >= ind)
SlicesOwned ==
  \A n \in DOMAIN headx :
    IF InCbuf1(n) THEN Owns(cbuf1, headx[n])
                  ELSE Owns(cbuf2, headx[n]) \/ IsWord(headx[n])

\* What is processed is one phrase: its only PUNC is its last item. While it is
\* collected there is none, unless needsmoreitems says that it is complete
\* (saStep, COLLECT; later phases look no further than the end of the phrase).
OnePhrase ==
  /\ \A n \in DOMAIN headx : headx[n].kind = "PUNC" => n = Len(headx)
  /\ procState = "COLLECT" =>
       (needsmoreitems <=> headx = << >> \/ headx[Len(headx)].kind # "PUNC")
  /\ procState \in {"POSD", "WPHO"} => headx # << >>
  /\ procState # "COLLECT" /\ headx # << >> => headx[Len(headx)].kind = "PUNC"

\* Every word that is handed on has been through all transducers of the voice,
\* in their order, unless it was too long for them ("output WORDPHON
\* untransduced"). After a soft reset it is not so.
EveryWordTransduced ==
  \A n \in DOMAIN cbOut :
    Transducible(cbOut[n].kind, Len(cbOut[n].body)) =>
      cbOut[n].fsts = [k \in 1 .. NumFsts |-> k - 1]

\* "flag: headx/cbuf1 has space for an item" (picosa.c:180): while it is set an
\* item of any size that may arrive can be taken. It does not hold: the test is made
\* before the item just taken is counted.
SpaceFlagTrue ==
  procState = "COLLECT" /\ inspaceok /\ needsmoreitems =>
    \A in \in Inputs : in.len <= CbufSize - Len(cbuf1)

\* Items leave in their order, once each, whole phrases through all phases;
\* only an answered error or a reset loses one.
Ids(s) == [n \in DOMAIN s |-> s[n].id]
Pending == IF procState \in {"FST", "FEED"} THEN << tmpbuf.id >> ELSE << >>
P == INSTANCE Pipe WITH
       Item <- 1 .. MaxItems, Ends <- {}, Made <- {Forced}, Added <- {},
       in <- Ids(cbIn), held <- Pending \o Ids(headx), out <- Ids(cbOut),
       failed <- (status = "ERROR")
RefinesPipe == P!Spec

\* The end of a phrase or a flush that waits at the input gets through, and
\* with it (RefinesPipe) all that came before it.
EndWaits(i) == \E n \in DOMAIN cbIn : cbIn[n].id = i /\ cbIn[n].kind \in {"PUNC", "CMD_FLUSH"}
Inside(i) ==
  LET all == Ids(cbIn) \o Pending \o Ids(headx) \o Ids(cbOut)
  IN \E n \in DOMAIN all : all[n] = i
PhrasesGetOut == \A i \in 1 .. MaxItems : EndWaits(i) ~> ~Inside(i)
=============================================================================
