------------------------------- MODULE AccPhr --------------------------------
(***************************************************************************)
(* Accentuation and phrasing (picoacph.c): collects the items of a primary *)
(* phrase, decides before which words a BOUND goes, sets accents, and      *)
(* feeds the items on with the BOUNDs between them.  The punctuation goes  *)
(* no further: its BOUND is put at the start of the next phrase (PHR1), or *)
(* at once when it ends a sentence (SEND) or is a flush (TERM).            *)
(*                                                                         *)
(* One call of acphStep runs from Call to a Return.  The trees are a       *)
(* choice of bound strengths; accents change nothing that is kept here.    *)
(***************************************************************************)
EXTENDS Integers, Sequences

CONSTANTS
  MaxHeadx,      \* PICOACPH_MAXNR_HEADX
  CbufSize,      \* PICOACPH_MAXSIZE_CBUF
  MaxItemSize,   \* PICODATA_MAX_ITEMSIZE
  InCap, OutCap, \* items in the char buffers before and behind the unit
  Inputs,        \* [kind, info1, info2, len] of the items that may arrive
  MaxItems,      \* bound on the items that arrive
  MaxResets      \* bound on the resets

Kinds == {"WORDPHON", "CMD", "PUNC"}
PuncTypes == {"T", "Q", "E", "P"}
Opening == {"SBEG", "PHR1", "PHR2", "PHR3"}
Closing == {"SEND", "TERM"}
SubStrengths == {"PHR0", "PHR2", "PHR3"}

Info1 == {"s", "p", "f"} \union {in.info1 : in \in Inputs}

\* info1 of a PUNC or flush is "s", "p" or "f" and info2 its type; the test for
\* a flush at the start of a phrase looks at no type of item, so that no word
\* may have the number of "f" for its part of speech.
ASSUME AcphAssumption ==
  /\ MaxHeadx \in Nat \ {0, 1} /\ CbufSize \in Nat /\ MaxItemSize \in Nat
  /\ InCap \in Nat \ {0}
  /\ OutCap \in Nat \ {0, 1}       \* a BOUND and the largest item fit into 2 * 260 bytes
  /\ MaxItems \in Nat /\ MaxResets \in Nat
  /\ Inputs \subseteq [kind : Kinds, info1 : Info1, info2 : PuncTypes \union {"NA"}, len : Nat]
  /\ \A in \in Inputs : in.kind = "PUNC" => in.info1 \in {"s", "p", "f"} /\ in.info2 \in PuncTypes
  /\ \A in \in Inputs : in.kind = "WORDPHON" => in.info1 # "f"

Made == 0     \* stands for a BOUND and a forced PUNC
Start == [id |-> Made, kind |-> "TERM", type |-> "NA"]

VARIABLES
  cbIn, cbOut,               \* items in the char buffers of the unit
  procState, status,         \* phase; "running", or what the last call returned
  boundStrengthState,        \* "SSEP" or "PPHR"
  inspaceok, needsmoreitems,
  headx, headxBottom,        \* headx[0 ..]; what is left to put is above headxBottom
  cbufLen,
  ind,                       \* 1 + the loop index of FEED, 0 before the loop
  last,                      \* history: the last item that left cbOut, or a TERM
  tone,                      \* history: the type of the last opening BOUND put
  fed, resets                \* items that arrived and resets so far

flagVars == << inspaceok, needsmoreitems >>
phraseVars == << headx, headxBottom, cbufLen >>
envVars == << last, fed, resets >>
acphVars == << cbIn, cbOut, procState, status, boundStrengthState, flagVars, phraseVars, ind,
               tone, envVars >>

-----------------------------------------------------------------------------
Init ==
  /\ cbIn = << >> /\ cbOut = << >>
  /\ procState = "COLLECT" /\ status = "IDLE"
  /\ boundStrengthState = "SSEP"
  /\ inspaceok = TRUE /\ needsmoreitems = TRUE
  /\ headx = << >> /\ headxBottom = 0 /\ cbufLen = 0 /\ ind = 0
  /\ last = Start /\ tone = "NA" /\ fed = 0 /\ resets = 0

\* The control unit gives the turn to the unit behind as soon as there is
\* output, and gets it back when that has taken all of it (Control,
\* CalledWhenDrained).
Call ==
  /\ status # "running"
  /\ cbOut = << >> \/ status \in {"ATOMIC", "ERROR"}
  /\ status' = "running"
  /\ UNCHANGED << cbIn, cbOut, procState, boundStrengthState, flagVars, phraseVars, ind, tone,
                  envVars >>

Running(phase) == status = "running" /\ procState = phase
Return(st) == status' = st
GoOn == UNCHANGED status

-----------------------------------------------------------------------------
(* COLLECT.                                                                 *)

\* Is the flag still set once this item is in? Asked before cbufLen grows.
SpaceLeft ==
  /\ Len(headx) < MaxHeadx - 2
  /\ CbufSize - cbufLen >= MaxItemSize

\* A flush command becomes the end of a phrase.
Header(it) ==
  LET flush == it.kind = "CMD" /\ it.info1 = "f"
  IN [id |-> it.id,
      kind |-> IF flush THEN "PUNC" ELSE it.kind,
      info1 |-> it.info1,
      info2 |-> IF flush THEN "T" ELSE it.info2,
      strength |-> "none", btype |-> "NA"]

CollectItem ==
  /\ Running("COLLECT") /\ inspaceok /\ needsmoreitems /\ cbIn # << >>
  /\ Head(cbIn).len <= CbufSize - cbufLen
  /\ headx' = Append(headx, Header(Head(cbIn)))
  /\ needsmoreitems' = (Header(Head(cbIn)).kind # "PUNC")
  /\ inspaceok' = SpaceLeft
  /\ cbufLen' = cbufLen + Head(cbIn).len
  /\ cbIn' = Tail(cbIn)
  /\ GoOn
  /\ UNCHANGED << cbOut, procState, boundStrengthState, headxBottom, ind, tone, envVars >>

\* The item is out of the char buffer, but cbuf cannot take it.
CollectError ==
  /\ Running("COLLECT") /\ inspaceok /\ needsmoreitems /\ cbIn # << >>
  /\ Head(cbIn).len > CbufSize - cbufLen
  /\ cbIn' = Tail(cbIn)
  /\ Return("ERROR")
  /\ UNCHANGED << cbOut, procState, boundStrengthState, flagVars, phraseVars, ind, tone, envVars >>

CollectPhrase ==
  /\ Running("COLLECT") /\ ~needsmoreitems
  /\ procState' = "PHR"
  /\ Return("ATOMIC")
  /\ UNCHANGED << cbIn, cbOut, boundStrengthState, flagVars, phraseVars, ind, tone, envVars >>

CollectForced ==
  /\ Running("COLLECT") /\ needsmoreitems /\ ~inspaceok
  /\ headx' = Append(headx, [id |-> Made, kind |-> "PUNC", info1 |-> "p", info2 |-> "P",
                             strength |-> "none", btype |-> "NA"])
  /\ needsmoreitems' = FALSE
  /\ procState' = "PHR"
  /\ Return("ATOMIC")
  /\ UNCHANGED << cbIn, cbOut, boundStrengthState, inspaceok, headxBottom, cbufLen, ind, tone,
                  envVars >>

CollectIdle ==
  /\ Running("COLLECT") /\ needsmoreitems /\ inspaceok /\ cbIn = << >>
  /\ Return("IDLE")
  /\ UNCHANGED << cbIn, cbOut, procState, boundStrengthState, flagVars, phraseVars, ind, tone,
                  envVars >>

-----------------------------------------------------------------------------
(* PROCESS_PHR: a strength for every word but the first, from the tree; the *)
(* type of the phrase goes to its last secondary phrase, the others get P.  *)
Punc == headx[Len(headx)]

LaterWords == {n \in DOMAIN headx : /\ headx[n].kind = "WORDPHON"
                                    /\ \E m \in 1 .. n - 1 : headx[m].kind = "WORDPHON"}

Cuts(tree) == {n \in LaterWords : tree[n] \in {"PHR2", "PHR3"}}

\* (mutant) The type of the phrase goes to its first secondary phrase.
TypeLeftToRight(tree, n) ==
  IF n = 1 THEN Punc.info2 ELSE IF n \in Cuts(tree) THEN "P" ELSE "NA"

TypeAt(tree, n) ==
  IF n = 1 \/ n \in Cuts(tree)
    THEN IF \E m \in Cuts(tree) : m > n THEN "P" ELSE Punc.info2
    ELSE "NA"

StrengthAt(tree, n) ==
  IF n = 1 THEN (IF boundStrengthState = "SSEP" THEN "SBEG" ELSE "PHR1")
  ELSE IF n \in LaterWords THEN tree[n]
  ELSE "none"

Phr ==
  /\ Running("PHR")
  /\ \E tree \in [LaterWords -> SubStrengths] :
       headx' = [n \in DOMAIN headx |->
                   [id |-> headx[n].id, kind |-> headx[n].kind, info1 |-> headx[n].info1,
                    info2 |-> headx[n].info2,
                    strength |-> StrengthAt(tree, n), btype |-> TypeAt(tree, n)]]
  /\ boundStrengthState' = IF Punc.info1 = "p" THEN "PPHR" ELSE "SSEP"
  /\ procState' = "ACC"
  /\ GoOn
  /\ UNCHANGED << cbIn, cbOut, flagVars, headxBottom, cbufLen, ind, tone, envVars >>

Acc ==
  /\ Running("ACC")
  /\ procState' = "FEED" /\ ind' = 0
  /\ GoOn
  /\ UNCHANGED << cbIn, cbOut, boundStrengthState, flagVars, phraseVars, tone, envVars >>

-----------------------------------------------------------------------------
(* FEED.                                                                    *)
Room == OutCap - Len(cbOut)
Bound(strength, type) == [id |-> Made, kind |-> strength, type |-> type]
AsItem(h) == [id |-> h.id, kind |-> h.kind, type |-> "NA"]

Put(items) ==
  /\ cbOut' = cbOut \o items
  /\ tone' = IF items # << >> /\ items[1].kind \in Opening THEN items[1].type ELSE tone

\* The call ends; the next one starts the loop anew at headxBottom.
OutFull ==
  /\ Return("OUT_FULL") /\ ind' = 0
  /\ UNCHANGED << cbIn, procState, boundStrengthState, flagVars, headxBottom, cbufLen, envVars >>

\* The BOUND to be put next, if any: before the first item unless that is a
\* flush, at the end of a sentence, and before an item with a strength.
FirstBound ==
  IF headxBottom = 0 /\ headx[1].info1 # "f"
    THEN << Bound(headx[1].strength, headx[1].btype) >> ELSE << >>
CloseBound(h) ==
  IF h.info1 = "p" THEN << >>
  ELSE << Bound(IF h.info1 = "s" THEN "SEND" ELSE "TERM", "NA") >>
SubBound(h) ==
  IF h.strength \in {"PHR2", "PHR3"} THEN << Bound(h.strength, h.btype) >> ELSE << >>

AtPunc == ind \in DOMAIN headx /\ headx[ind].kind = "PUNC"
AtItem == ind \in DOMAIN headx /\ headx[ind].kind # "PUNC"
Due ==
  IF ind = 0 THEN FirstBound
  ELSE IF AtPunc /\ ind = Len(headx) THEN CloseBound(headx[ind])
  ELSE IF AtItem THEN SubBound(headx[ind])
  ELSE << >>

FeedFull ==
  /\ Running("FEED") /\ Len(Due) > Room
  /\ OutFull
  /\ UNCHANGED << cbOut, headx, tone >>

FeedFirst ==
  /\ Running("FEED") /\ ind = 0 /\ Len(Due) <= Room
  /\ Put(Due)
  /\ ind' = headxBottom + 1
  /\ GoOn
  /\ UNCHANGED << cbIn, procState, boundStrengthState, flagVars, phraseVars, envVars >>

\* The PUNC itself goes no further.
FeedPunc ==
  /\ Running("FEED") /\ AtPunc /\ Len(Due) <= Room
  /\ Put(Due)
  /\ ind' = ind + 1
  /\ GoOn
  /\ UNCHANGED << cbIn, procState, boundStrengthState, flagVars, phraseVars, envVars >>

FeedItem ==
  /\ Running("FEED") /\ AtItem /\ Len(Due) < Room
  /\ Put(Append(Due, AsItem(headx[ind])))
  /\ headxBottom' = headxBottom + 1
  /\ ind' = ind + 1
  /\ GoOn
  /\ UNCHANGED << cbIn, procState, boundStrengthState, flagVars, headx, cbufLen, envVars >>

\* (mutant) The BOUND is put again with the item.
ItemFullKeepsBound ==
  /\ Running("FEED") /\ AtItem /\ Len(Due) = Room
  /\ Put(Due)
  /\ UNCHANGED headx
  /\ OutFull

\* (mutant) The item is given up.
ItemFullSkips ==
  /\ Running("FEED") /\ AtItem /\ Len(Due) = Room
  /\ Put(Due)
  /\ headxBottom' = headxBottom + 1
  /\ Return("OUT_FULL") /\ ind' = 0
  /\ UNCHANGED << cbIn, procState, boundStrengthState, flagVars, headx, cbufLen, envVars >>

\* The BOUND, if any, is put, the item does not fit: "bound already added,
\* ensure it's not output a 2nd time".
FeedItemFull ==
  /\ Running("FEED") /\ AtItem /\ Len(Due) = Room
  /\ Put(Due)
  /\ headx' = [n \in DOMAIN headx |->
                 IF n # ind THEN headx[n]
                 ELSE [id |-> headx[n].id, kind |-> headx[n].kind, info1 |-> headx[n].info1,
                       info2 |-> headx[n].info2, strength |-> "none", btype |-> headx[n].btype]]
  /\ OutFull

\* (mutant) inspaceok is not set again.
FeedDoneKeepsSpace ==
  /\ Running("FEED") /\ ind > Len(headx)
  /\ headx' = << >> /\ headxBottom' = 0 /\ cbufLen' = 0
  /\ needsmoreitems' = TRUE
  /\ procState' = "COLLECT" /\ ind' = 0
  /\ Return("BUSY")
  /\ UNCHANGED << cbIn, cbOut, boundStrengthState, inspaceok, tone, envVars >>

FeedDone ==
  /\ Running("FEED") /\ ind > Len(headx)
  /\ headx' = << >> /\ headxBottom' = 0 /\ cbufLen' = 0
  /\ inspaceok' = TRUE /\ needsmoreitems' = TRUE
  /\ procState' = "COLLECT" /\ ind' = 0
  /\ Return("BUSY")
  /\ UNCHANGED << cbIn, cbOut, boundStrengthState, tone, envVars >>

-----------------------------------------------------------------------------
(* Between calls.                                                           *)
Arrive(in) ==
  /\ status # "running" /\ Len(cbIn) < InCap /\ fed < MaxItems
  /\ cbIn' = Append(cbIn, [id |-> fed + 1, kind |-> in.kind, info1 |-> in.info1,
                           info2 |-> in.info2, len |-> in.len])
  /\ fed' = fed + 1
  /\ UNCHANGED << cbOut, procState, status, boundStrengthState, flagVars, phraseVars, ind, tone,
                  last, resets >>

Leave ==
  /\ status # "running" /\ cbOut # << >>
  /\ cbOut' = Tail(cbOut) /\ last' = Head(cbOut)
  /\ UNCHANGED << cbIn, procState, status, boundStrengthState, flagVars, phraseVars, ind, tone,
                  fed, resets >>

\* picoctrl_engReset: the char buffers, acphInitialize, and the units behind.
Reset ==
  /\ status # "running" /\ resets < MaxResets
  /\ cbIn' = << >> /\ cbOut' = << >>
  /\ procState' = "COLLECT" /\ boundStrengthState' = "SSEP"
  /\ inspaceok' = TRUE /\ needsmoreitems' = TRUE
  /\ headx' = << >> /\ headxBottom' = 0 /\ cbufLen' = 0 /\ ind' = 0
  /\ last' = Start /\ tone' = "NA"
  /\ resets' = resets + 1
  /\ UNCHANGED << status, fed >>

Step ==
  \/ CollectItem \/ CollectError \/ CollectPhrase \/ CollectForced \/ CollectIdle
  \/ Phr \/ Acc
  \/ FeedFirst \/ FeedPunc \/ FeedItem \/ FeedItemFull \/ FeedFull \/ FeedDone

Next ==
  \/ Call \/ Step
  \/ \E in \in Inputs : Arrive(in)
  \/ Leave \/ Reset

Spec == Init /\ [][Next]_acphVars

\* A call runs to its return, the control unit goes on calling, and the unit
\* behind has the turn while there is output.
FairSpec == Spec /\ WF_acphVars(Step) /\ WF_acphVars(Call) /\ WF_acphVars(Leave)

-----------------------------------------------------------------------------
(* Properties.                                                              *)
Phases == {"COLLECT", "PHR", "ACC", "FEED"}
Results == {"running", "IDLE", "BUSY", "ATOMIC", "OUT_FULL", "ERROR"}
Arrived == [id : Nat, kind : Kinds, info1 : Info1, info2 : PuncTypes \union {"NA"}, len : Nat]
Heads == [id : Nat, kind : Kinds, info1 : Info1, info2 : PuncTypes \union {"NA"},
          strength : Opening \union {"PHR0", "none"}, btype : PuncTypes \union {"NA"}]
Ready == [id : Nat, kind : Kinds \union Opening \union Closing, type : PuncTypes \union {"NA"}]

\* The type invariant. A phrase never has more headers than there are slots, the
\* one for a forced PUNC included, and no BOUND without a strength is put.
TypeOK ==
  /\ cbIn \in Seq(Arrived) /\ cbOut \in Seq(Ready)
  /\ procState \in Phases /\ status \in Results
  /\ boundStrengthState \in {"SSEP", "PPHR"}
  /\ inspaceok \in BOOLEAN /\ needsmoreitems \in BOOLEAN
  /\ headx \in Seq(Heads) /\ Len(headx) <= MaxHeadx /\ headxBottom \in 0 .. Len(headx)
  /\ cbufLen \in 0 .. CbufSize /\ ind \in Nat
  /\ last \in Ready /\ tone \in PuncTypes \union {"NA"}
  /\ fed \in Nat /\ resets \in Nat

\* What may follow on what at the output: sentences lie between SBEG and SEND,
\* or TERM for a flush; primary phrases begin with a BOUND, secondary ones with
\* one between two items; no BOUND comes twice. So the next unit finds every
\* sentence opened and closed once (picoacph.c, the table of bound states).
MayFollow(a, b) ==
  CASE b.kind = "SBEG"             -> a.kind \in Closing
    [] b.kind = "SEND"             -> a.kind \notin {"SEND", "TERM", "PHR2", "PHR3"}
    [] b.kind = "TERM"             -> a.kind \notin {"PHR2", "PHR3"}
    [] b.kind = "PHR1"             -> a.kind \notin {"SEND", "TERM", "PHR2", "PHR3"}
    [] b.kind \in {"PHR2", "PHR3"} -> a.kind \in Kinds
    [] OTHER                       -> a.kind \notin Closing

Stream == << last >> \o cbOut
BoundsFollow == \A n \in 1 .. Len(cbOut) : MayFollow(Stream[n], Stream[n + 1])

\* When the BOUND that ends a sentence is put, the last BOUND before it carries
\* the type of the sentence, on which the phrase's intonation depends, however
\* the output was interrupted (acphSubPhrasing, right-to-left).
RightTone ==
  [][\A n \in DOMAIN cbOut' :
       n > Len(cbOut) /\ cbOut'[n].kind = "SEND" /\ status = "running" => tone = Punc.info2]_acphVars

\* Words and commands leave in their order, once each, with the BOUNDs between
\* them, and the punctuation is taken when all before it has left; only an
\* answered error or a reset loses one.
Mark == 0 - 1     \* stands for a PUNC, or a flush, that arrives
IdOf(h) == IF h.kind = "PUNC" THEN Mark ELSE h.id
Ids(s) == [n \in DOMAIN s |-> IdOf(s[n])]
Waiting == [n \in DOMAIN cbIn |-> IdOf(Header(cbIn[n]))]
P == INSTANCE Pipe WITH
       Item <- 1 .. MaxItems, Ends <- {Mark}, Made <- {Mark}, Added <- {Made},
       in <- Waiting, held <- SubSeq(Ids(headx), headxBottom + 1, Len(headx)),
       out <- Ids(cbOut), failed <- (status = "ERROR")
RefinesPipe == P!Spec

\* The end of a phrase or a flush that waits at the input is reached, and a
\* sentence that is open at the output is closed.
EndWaits(i) == \E n \in DOMAIN cbIn : cbIn[n].id = i /\ Header(cbIn[n]).kind = "PUNC"
Inside(i) == \/ \E n \in DOMAIN cbIn : cbIn[n].id = i
             \/ \E n \in DOMAIN headx : headx[n].id = i
PhrasesGetOut == \A i \in 1 .. MaxItems : EndWaits(i) ~> ~Inside(i) /\ cbOut = << >>
=============================================================================
