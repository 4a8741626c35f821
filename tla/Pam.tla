--------------------------------- MODULE Pam --------------------------------
(***************************************************************************)
(* Phonetic-acoustic mapping (picopam.c): collects a sentence of syllables,*)
(* lets its features be computed when the end has come, and puts a PHONE   *)
(* item for each phone, with the frames of its states.                     *)
(*                                                                         *)
(* Items that are not for this unit wait in a queue, attached to the       *)
(* syllable they came behind, and go out behind its phones.  A sentence    *)
(* that does not fit is ended by force.  Every phase is a call of its own. *)
(*                                                                         *)
(* A FLUSH never gets here: the sentence analysis has made a TERM of it.   *)
(* The output buffer (PICOPAM_OUT_PAM_SIZE) holds the 166 pitch commands   *)
(* that might come before a sentence, more than the sentence phonology     *)
(* collects, so the test for room in it is left out.                       *)
(***************************************************************************)
EXTENDS ProcUnit, PamReference

CONSTANTS
  PamMaxSyll,     \* PICOPAM_MAX_SYLL_PER_SENT
  PamMaxPh,       \* PICOPAM_MAX_PH_PER_SENT
  PamMaxBytes,    \* PICOPAM_MAX_ITEM_SIZE_PER_SENT
  PamIds,         \* the numbers of attached items, which are bytes
  PamCarriers,    \* the phones that carry a syllable
  PamTree(_),     \* the duration tree and its table: frames for the vector of a phone
  PamGarbage,     \* what weights of pauses that are never written may be
  PamItems,       \* the items that may arrive
  PamInputs(_)    \* those of them that may do so after the given ones

\* A syllable has a phone (sphoStep puts none without), and PHONE items are made here.
ASSUME PamAssumption ==
  /\ PamIds \in Nat \ {0}
  /\ \A in \in PamItems :
       /\ {"kind", "phones"} \subseteq DOMAIN in /\ in.kind # "PHONE"
       /\ in.kind = "SYLL" => in.phones \in Seq(STRING) \ {<< >>}

VARIABLES
  pamIn,          \* inBuf: the item looked at
  pamOut,         \* outBuf
  pamSent,        \* sSyllFeats, sPhIds, sType and pType: see PamSentence
  pamFeats,       \* the features in sSyllFeats after the backward step
  pamCur,         \* nCurrSyllable, -1 for none, and nSyllPhoneme
  pamTies,        \* ITM and itm in sSyllFeats: first and last item tied to a syllable
  pamQueue,       \* nCurrAttachedItem, nLastAttachedItemId, nAttachedItemsSize
  pamArea,        \* sSyllItems: what begins at an offset; and sSyllItemOffs
  pamMod,         \* pMod, dMod and dRest
  pamWeights,     \* sil_weights off the diagonal
  came, told,     \* history: the items taken, and those put
  due,            \* history: what the items taken ask for
  asked,          \* history: the pitch and speed they ask for, as in pamMod
  pamLost, forced \* history: items the queue refused, and whether an end was forced

taking == << came, due, asked >>
pamHist == << taking, told, pamLost, forced >>
pamOnly == << pamIn, pamOut, pamSent, pamFeats, pamCur, pamTies, pamQueue, pamArea, pamMod, pamWeights, pamHist >>
pamVars == << unitVars, pamOnly >>

HeadSize == 4                       \* sizeof(picodata_itemhead_t)
Untied == [first |-> 0, last |-> 0]
EmptyQueue == [cur |-> 0, last |-> 0, size |-> 0]
Nowhere == [syll |-> -1, ph |-> 0]
Syll(n) == pamSent.syls[n + 1]
TotalSylls == Len(pamSent.syls)     \* nTotalSyllables
NumPhones == Len(PhonesOf(pamSent.syls))    \* nCurrPhoneme

PamBlank ==
  /\ pamIn = << >> /\ pamOut = << >> /\ pamSent = NoSentence /\ pamFeats = << >>
  /\ pamCur = Nowhere /\ pamTies = << Untied >> /\ pamQueue = EmptyQueue
  /\ pamArea = [at |-> << >>, offs |-> << >>]
PamInit ==
  /\ UnitInit("COLLECT") /\ PamBlank
  /\ pamMod = [pitch |-> << >>, dMod |-> ModUnit, dRest |-> 0]
  /\ pamWeights \in PamGarbage
  /\ came = << >> /\ told = << >> /\ pamLost = {} /\ forced = FALSE /\ due = << >> /\ asked = pamMod

\* pamDoCommand
Factor(mod, item) == IF item.rel THEN (mod * 1000) \div item.val ELSE (ModUnit * 100) \div item.val
Commanded(mod, item) ==
  CASE item.kind = "SPEED" -> [mod EXCEPT !.dMod = Factor(@, item)]
    [] item.kind = "PITCH" -> [mod EXCEPT !.pitch = IF item.rel THEN Append(@, item.id) ELSE << item.id >>]
    [] OTHER               -> mod

-----------------------------------------------------------------------------
(* History: what has to be put for the items taken, with the pitch and speed *)
(* of the commands before them.                                              *)
SentEnd == {"SEND", "TERM"}
\* A sentence was begun and has not ended. Another does not begin then: that is
\* BoundsFollow of AccPhr, and the sentence phonology keeps SBEG and the ends.
Open(s) ==
  \E k \in DOMAIN s : s[k].kind \in {"SBEG", "SYLL"} /\ \A m \in k + 1 .. Len(s) : s[m].kind \notin SentEnd
MayFollow(s) == {in \in PamItems \cap PamInputs(s) : in.kind = "SBEG" => ~Open(s)}

Phone(id, ph, n, mod) == [id |-> id, kind |-> "PHONE", ph |-> ph, n |-> n, pitch |-> mod.pitch, dMod |-> mod.dMod]
DueFor(item) ==
  LET itself == << [id |-> item.id, kind |-> item.kind] >>
      pause == << Phone(item.id, PausePhone, 1, asked) >>
  IN CASE item.kind = "SYLL" -> [k \in DOMAIN item.phones |-> Phone(item.id, item.phones[k], k, asked)]
       [] item.kind \in {"PHR1", "PHR2"} -> pause
       [] item.kind \in SentEnd /\ Open(came) -> pause \o itself
       [] item.kind \in {"PHR0", "PHR3", "PLAY", "SPEED"} -> << >>
       [] OTHER -> itself
Taken(item) == came' = Append(came, item) /\ due' = due \o DueFor(item) /\ asked' = Commanded(asked, item)

-----------------------------------------------------------------------------
(* COLLECT and SCHEDULE: one item at a time, and what to do with it.        *)
Consumed == pamIn' = << >>
PamIdle ==
  /\ Running("COLLECT") /\ cbIn = << >> /\ Return("IDLE") /\ NoTransfer /\ UNCHANGED pamOnly
PamCollect ==
  /\ Running("COLLECT") /\ Take /\ Leave("SCHEDULE", "BUSY")
  /\ pamIn' = << Head(cbIn) >> /\ Taken(Head(cbIn))
  /\ UNCHANGED << pamOut, pamSent, pamFeats, pamCur, pamTies, pamQueue, pamArea, pamMod, pamWeights,
                  told, pamLost, forced >>
PamNothing ==
  /\ Running("SCHEDULE") /\ pamIn = << >> /\ Leave("COLLECT", "BUSY") /\ NoTransfer /\ UNCHANGED pamOnly

IsCommand(item) == item.kind \in {"PITCH", "SPEED"}             \* is_pam_command
Passes(item) ==                                                 \* pam_check_immediate
  pamCur.syll = -1 /\ item.kind \notin {"SYLL", "SBEG"} /\ ~IsCommand(item)
PauseBounds == {"SBEG", "PHR1", "PHR2", "SEND", "TERM"}
BoundKinds == PauseBounds \union {"PHR0", "PHR3"}
PhoneRoom(n) == pamCur.syll < PamMaxSyll - 2 /\ NumPhones + n < PamMaxPh - 2
LimitsReached(item) ==                                          \* pamCheckResourceLimits
  CASE item.kind = "SYLL"           -> ~PhoneRoom(Len(item.phones))
    [] item.kind \in PauseBounds    -> ~PhoneRoom(1)
    [] item.kind \in {"PHR0", "PHR3"} -> FALSE
    [] OTHER                        -> pamQueue.size + item.len >= PamMaxBytes - 1
QueueRoom(q, item) == q.size + item.len + HeadSize < PamMaxBytes - 1

Scheduling == Running("SCHEDULE") /\ pamIn # << >>
Due == pamIn[1]
SchedOnly ==
  /\ NoTransfer
  /\ UNCHANGED << pamOut, pamSent, pamFeats, pamCur, pamMod, pamWeights, taking, told, forced >>

\* A PLAY for this unit has no effect.
PamPlay ==
  /\ Scheduling /\ Due.kind = "PLAY" /\ Consumed /\ Leave("SCHEDULE", "BUSY")
  /\ SchedOnly /\ UNCHANGED << pamTies, pamQueue, pamArea, pamLost >>
PamRoute ==
  /\ Scheduling /\ Due.kind # "PLAY"
  /\ \/ Passes(Due) /\ Leave("IMMEDIATE", "BUSY")
     \/ ~Passes(Due) /\ LimitsReached(Due) /\ Leave("FORCE_TERM", "BUSY")
     \/ ~Passes(Due) /\ ~LimitsReached(Due) /\ Due.kind \in BoundKinds \union {"SYLL"} /\ Leave("FORWARD", "BUSY")
  /\ NoTransfer /\ UNCHANGED pamOnly

\* pam_queue, for the syllable n with the ties it has; without one, for the first.
\* The numbers of the items begin at 1; when they wrap, the item 0 ties nothing.
Overlaps(a, b) == a.off < b.off + b.size /\ b.off < a.off + a.size
Stored(area, off, item) ==          \* what was there before is overwritten
  LET new == [off |-> off, size |-> item.len + HeadSize]
      kept == {o \in DOMAIN area.at : ~Overlaps([off |-> o, size |-> area.at[o].len + HeadSize], new)}
  IN [o \in kept \cup {off} |-> IF o = off THEN item ELSE area.at[o]]
QueueItem(item, n, ties) ==
  IF QueueRoom(pamQueue, item)
  THEN LET next == pamQueue.last + 1       \* its place in sSyllItemOffs, from 1 on
           id == next % PamIds
           slot == IF n < 0 THEN 1 ELSE n + 1
       IN /\ pamQueue' = [pamQueue EXCEPT !.last = id, !.size = @ + item.len + HeadSize]
          /\ pamArea' = [at |-> Stored(pamArea, pamQueue.size, item),
                         offs |-> (next :> pamQueue.size) @@ pamArea.offs]
          /\ pamTies' = [ties EXCEPT ![slot] = [first |-> IF @.first = 0 THEN id ELSE @.first, last |-> id]]
          /\ UNCHANGED pamLost
  ELSE pamLost' = pamLost \union {item.id} /\ pamTies' = ties /\ UNCHANGED << pamQueue, pamArea >>

\* The rest waits in the queue; what the queue refuses is gone all the same.
PamAttach ==
  /\ Scheduling /\ Due.kind # "PLAY" /\ ~Passes(Due) /\ ~LimitsReached(Due)
  /\ Due.kind \notin BoundKinds \union {"SYLL"}
  /\ QueueItem(Due, pamCur.syll, pamTies) /\ Consumed /\ Leave("SCHEDULE", "BUSY")
  /\ SchedOnly

-----------------------------------------------------------------------------
(* FORWARD: a syllable or bound becomes part of the sentence.               *)
\* A new syllable has no items tied to it, but the first keeps what it has.
NewTies(syls) ==
  [n \in DOMAIN pamTies \cup DOMAIN syls |-> IF n \in DOMAIN pamTies THEN pamTies[n] ELSE Untied]
Extended(item) ==
  /\ pamSent' = ForwardStep(pamSent, item)
  /\ pamCur' = [syll |-> Len(pamSent'.syls) - 1, ph |-> 0]
  /\ UNCHANGED << pamOut, pamWeights, taking, told >>
\* pam_adapter_backward_step, and the sentence is put from its beginning.
Closed(item) ==
  /\ pamSent' = ForwardStep(pamSent, item)
  /\ \E fw \in {Forth(pamSent'.syls)}, bw \in {Back(pamSent'.syls)} :
     \E table \in {Table(pamSent'.syls, fw, bw)} : pamFeats' = Features(pamSent'.syls, table)
  /\ pamCur' = [syll |-> 0, ph |-> 0]
  /\ QueueItem(item, Len(pamSent'.syls) - 1, NewTies(pamSent'.syls))
  /\ Leave("PROCESS", "BUSY") /\ NoTransfer
  /\ UNCHANGED << pamOut, pamMod, pamWeights, taking, told >>

Starts(item) == item.kind = "SBEG" \/ (item.kind = "SYLL" /\ pamCur.syll = -1)
PamForward ==
  /\ Running("FORWARD") /\ Due.kind \notin {"SEND", "TERM"} /\ Extended(Due)
  /\ IF Due.kind \in {"SBEG", "PHR1", "PHR2"} THEN QueueItem(Due, pamCur'.syll, NewTies(pamSent'.syls))
     ELSE pamTies' = NewTies(pamSent'.syls) /\ UNCHANGED << pamQueue, pamArea, pamLost >>
  /\ pamMod' = IF Starts(Due) THEN [pamMod EXCEPT !.dRest = 0] ELSE pamMod
  /\ Consumed /\ Leave("SCHEDULE", "ATOMIC") /\ NoTransfer /\ UNCHANGED << pamFeats, forced >>
PamForwardEnd ==
  /\ Running("FORWARD") /\ Due.kind \in {"SEND", "TERM"} /\ Closed(Due) /\ Consumed /\ UNCHANGED forced

\* FORWARD_FORCE_TERM: the item that does not fit waits for the end of the sentence.
ForcedTerm == [id |-> Made, kind |-> "TERM", type |-> "T", limits |-> << 0, 0 >>, len |-> 0]
PamForceTerm ==
  /\ Running("FORCE_TERM") /\ Closed(ForcedTerm) /\ forced' = TRUE /\ UNCHANGED pamIn

-----------------------------------------------------------------------------
(* PROCESS: phones and attached items of the current syllable.              *)
Torn == [id |-> Made, kind |-> "torn", type |-> "T", limits |-> << 0, 0 >>, len |-> 0]
Attached(id) ==                     \* the item with a number, from 1 on
  LET off == IF id \in DOMAIN pamArea.offs THEN pamArea.offs[id] ELSE 0
  IN IF off \in DOMAIN pamArea.at THEN pamArea.at[off] ELSE Torn
IsToPut(item) == item.kind \notin {"SPEED"} \union (BoundKinds \ {"SEND", "TERM"})

Ties == pamTies[pamCur.syll + 1]
AnyTied == Ties.first > 0 /\ Ties.last > 0
\* Mutant: the last phone is not counted.
HasToProcessShort == pamCur.syll \in 0 .. TotalSylls - 1 /\ pamCur.ph < Len3(Syll(pamCur.syll)) - 1
HasToProcess == pamCur.syll \in 0 .. TotalSylls - 1 /\ pamCur.ph < Len3(Syll(pamCur.syll))
\* Mutant: the last item is left.
HasToPopLeavesLast == pamCur.syll \in 0 .. TotalSylls - 1 /\ AnyTied /\ pamQueue.cur < Ties.last
HasToPop == pamCur.syll \in 0 .. TotalSylls - 1 /\ AnyTied /\ pamQueue.cur <= Ties.last

\* pamUpdateProcess: the next phone, tied item or syllable.
Update(queue) ==
  LET lastPh == Len3(Syll(pamCur.syll)) - 1
      after == [pamCur EXCEPT !.ph = IF @ <= lastPh THEN @ + 1 ELSE @]
  IN CASE pamCur.ph < lastPh -> pamCur' = after /\ pamQueue' = queue
       [] pamCur.ph >= lastPh /\ Ties.first > 0 /\ queue.cur = 0 ->
            pamCur' = after /\ pamQueue' = [queue EXCEPT !.cur = Ties.first]
       [] pamCur.ph >= lastPh /\ Ties.first > 0 /\ queue.cur \in 1 .. Ties.last - 1 ->
            pamCur' = after /\ pamQueue' = [queue EXCEPT !.cur = @ + 1]
       [] OTHER ->
            /\ pamCur' = [syll |-> pamCur.syll + 1, ph |-> 0]
            /\ pamQueue' = [queue EXCEPT !.cur = IF pamCur.syll < TotalSylls - 1 THEN 0 ELSE @]

ProcessOnly == NoTransfer /\ UNCHANGED << pamIn, pamSent, pamFeats, pamTies, pamArea, pamWeights, pamHist >>
Putting(item) == pamOut' = IF IsToPut(item) THEN Append(pamOut, item) ELSE pamOut

\* Mutant: one item too many before the first phone.
BeforeFirstOneMore == pamCur.syll = 0 /\ AnyTied /\ (pamQueue.cur > 0 => pamQueue.cur <= Ties.last)
\* Items of the first syllable up to the SBEG go out before its phone, and those
\* behind it up to the last but one (pamPopAttachedSy0 counts from 0).
BeforeFirst == pamCur.syll = 0 /\ AnyTied /\ (pamQueue.cur > 0 => pamQueue.cur <= Ties.last - 1)
FirstTied == Attached(pamQueue.cur + 1)
Skips(item) == item.kind \in {"PHR0", "PHR1", "PHR2", "PHR3"}
NextQueue == [pamQueue EXCEPT !.cur = @ + 1]
PamPreFeed ==
  /\ Running("PROCESS") /\ BeforeFirst /\ ~IsCommand(FirstTied) /\ ~Skips(FirstTied)
  /\ pamOut' = Append(pamOut, FirstTied) /\ pamQueue' = NextQueue /\ Leave("FEED", "BUSY")
  /\ ProcessOnly /\ UNCHANGED << pamCur, pamMod >>
PamPreCommand ==
  /\ Running("PROCESS") /\ BeforeFirst /\ IsCommand(FirstTied)
  /\ Putting(FirstTied) /\ pamMod' = Commanded(pamMod, FirstTied) /\ pamQueue' = NextQueue
  /\ Leave("PROCESS", "BUSY") /\ ProcessOnly /\ UNCHANGED pamCur

\* pamPhoneProcess and pam_put_item
Vowel(phones) ==
  LET at == {n \in DOMAIN phones : phones[n] \in PamCarriers}
  IN IF at = {} THEN 0 ELSE (CHOOSE n \in at : \A m \in at : n <= m) - 1
VowelOf(syl) == IF syl.pause THEN 1 ELSE Vowel(syl.phones)
Row == [SBEG |-> 1, PHR1 |-> 2, PHR2 |-> 3, SEND |-> 4, TERM |-> 4, none |-> 5]
Weights(kind) == [j \in 1 .. NumStates |-> IF j = Row[kind] THEN 1 ELSE pamWeights]
FramesPut(syl, frames) ==
  CASE pamCur.syll = 0 /\ pamCur.ph = 0 -> << 0, 0, 0, 0, 2 >>
    [] syl.limits[2] > 0 -> InLimits(frames, Weights(syl.bnd), syl.limits)
    [] OTHER -> frames
PhoneItem(syl, frames) ==
  [id |-> syl.id, kind |-> "PHONE", ph |-> syl.phones[pamCur.ph + 1], n |-> pamCur.ph + 1,
   frames |-> frames, pitch |-> pamMod.pitch, dMod |-> pamMod.dMod]
PhoneMade(queue) ==
  \E syl \in {Syll(pamCur.syll)} :
  \E v \in {PhoneVector(pamSent.syls, pamFeats[pamCur.syll + 1], pamCur.syll + 1, pamCur.ph + 1, VowelOf(syl))} :
  \E d \in {Stretched(PamTree(v), pamMod.dMod, pamMod.dRest)} :
    /\ pamOut' = Append(pamOut, PhoneItem(syl, FramesPut(syl, d.frames)))
    /\ pamMod' = [pamMod EXCEPT !.dRest = d.rest]
    /\ Update(queue)
    /\ Leave("FEED", "BUSY")

PamPhone ==
  /\ Running("PROCESS") /\ HasToProcess
  /\ BeforeFirst => Skips(FirstTied)
  /\ PhoneMade(IF BeforeFirst THEN NextQueue ELSE pamQueue)
  /\ ProcessOnly

\* The last tied item of a sentence is its end, which is put: so the unit never
\* finds here that there is nothing to do.
PamPop ==
  /\ Running("PROCESS") /\ (BeforeFirst => Skips(FirstTied)) /\ ~HasToProcess /\ HasToPop
  /\ \E queue \in {IF BeforeFirst THEN NextQueue ELSE pamQueue} : \E item \in {Attached(queue.cur)} :
       /\ Putting(item) /\ pamMod' = Commanded(pamMod, item)
       /\ Leave(IF IsToPut(item) THEN "FEED" ELSE "PROCESS", "BUSY")
       /\ Update(queue)
  /\ ProcessOnly

-----------------------------------------------------------------------------
(* IMMEDIATE and FEED.                                                      *)
PamImmediate ==
  /\ Running("IMMEDIATE") /\ pamOut' = Append(pamOut, Due) /\ Consumed /\ Leave("FEED", "BUSY")
  /\ NoTransfer
  /\ UNCHANGED << pamSent, pamFeats, pamCur, pamTies, pamQueue, pamArea, pamMod, pamWeights, pamHist >>

\* When all is out and the sentence has no more, it is forgotten; the ties of
\* its first syllable are not.
Forgotten ==
  /\ pamSent' = NoSentence /\ pamFeats' = << >> /\ pamCur' = Nowhere /\ pamQueue' = EmptyQueue
  /\ pamTies' = SubSeq(pamTies, 1, 1) /\ pamMod' = [pamMod EXCEPT !.dRest = 0]
PamFeed ==
  /\ Running("FEED") /\ Put(Head(pamOut)) /\ told' = Append(told, Head(pamOut)) /\ pamOut' = Tail(pamOut)
  /\ \/ Len(pamOut) > 1 /\ Return("BUSY")
        /\ UNCHANGED << pamSent, pamFeats, pamCur, pamQueue, pamTies, pamMod >>
     \/ Len(pamOut) = 1 /\ (HasToProcess \/ HasToPop) /\ Leave("PROCESS", "BUSY")
        /\ UNCHANGED << pamSent, pamFeats, pamCur, pamQueue, pamTies, pamMod >>
     \/ Len(pamOut) = 1 /\ ~HasToProcess /\ ~HasToPop /\ Leave("SCHEDULE", "BUSY") /\ Forgotten
  /\ UNCHANGED << pamIn, pamArea, pamWeights, taking, pamLost, forced >>
PamFeedFull ==
  /\ Running("FEED") /\ ~Room /\ Return("OUT_FULL") /\ NoTransfer /\ UNCHANGED pamOnly

PamStep ==
  \/ PamIdle \/ PamCollect \/ PamNothing \/ PamPlay \/ PamRoute \/ PamAttach
  \/ PamForward \/ PamForwardEnd \/ PamForceTerm
  \/ PamPreFeed \/ PamPreCommand \/ PamPhone \/ PamPop
  \/ PamImmediate \/ PamFeed \/ PamFeedFull

\* pam_initialize, soft or full; the text before it is forgotten.
PamReset ==
  /\ UnitReset("COLLECT")
  /\ pamIn' = << >> /\ pamOut' = << >> /\ pamSent' = NoSentence /\ pamFeats' = << >>
  /\ pamCur' = Nowhere /\ pamTies' = << Untied >> /\ pamQueue' = EmptyQueue
  /\ pamArea' = [at |-> << >>, offs |-> << >>]
  /\ \/ pamMod' = [pamMod EXCEPT !.dRest = 0]
     \/ pamMod' = [pitch |-> << >>, dMod |-> ModUnit, dRest |-> 0]
  /\ came' = << >> /\ told' = << >> /\ pamLost' = {} /\ forced' = FALSE /\ due' = << >> /\ asked' = pamMod'
  /\ UNCHANGED pamWeights

PamNext ==
  \/ PamStep
  \/ (Call \/ Arrive(MayFollow(came \o cbIn)) \/ Fetch) /\ UNCHANGED pamOnly
  \/ PamReset

PamFairness ==
  WF_pamVars(PamStep) /\ WF_pamVars(Call /\ UNCHANGED pamOnly) /\ SF_pamVars(Fetch /\ UNCHANGED pamOnly)
PamSpec == PamInit /\ [][PamNext]_pamVars /\ PamFairness

-----------------------------------------------------------------------------
(* Properties.                                                              *)
Shown(item) == IF item.kind = "PHONE" THEN Phone(item.id, item.ph, item.n, item) ELSE [id |-> item.id, kind |-> item.kind]
FirstPause(item) ==       \* the silence a sentence starts with
  /\ item.kind = "PHONE" /\ item.ph = PausePhone
  /\ item.id = Made \/ \E n \in DOMAIN came : came[n].id = item.id /\ came[n].kind = "SBEG"

\* The phones in s, without pauses: the item of each, and the place in the item.
Speaks(item) == item.kind = "PHONE" /\ item.ph # PausePhone
Uttered(s) ==
  LET upTo[n \in 0 .. Len(s)] ==
        IF n = 0 THEN << >>
        ELSE IF Speaks(s[n]) THEN Append(upTo[n - 1], << s[n].id, s[n].ph, s[n].n >>) ELSE upTo[n - 1]
  IN upTo[Len(s)]

\* Every phone is put once and in order, also when the end of a sentence was
\* forced in the middle of it and when the queue had no room for what came with
\* it; and when the unit holds nothing, every phone that came has been put.
PhonesInOrder ==
  /\ IsPrefix(Uttered(told), Uttered(due))
  /\ pamSent.syls = << >> /\ pamIn = << >> /\ pamOut = << >> => Uttered(told) = Uttered(due)

\* Unless an end was forced, everything else has its place too: commands, pauses
\* and the ends of sentences go out between the phones they came between, and a
\* phone is spoken with the speed and pitch of the commands before it and no other.
PutInOrder ==
  ~forced =>
       LET put == SelectSeq(told, LAMBDA item : ~FirstPause(item))
           asForDue == SelectSeq(due, LAMBDA item : item.kind = "PHONE" \/ item.id \notin pamLost)
       IN Len(put) <= Len(asForDue) /\ \A n \in DOMAIN put : Shown(put[n]) = asForDue[n]

\* An item is tied to one syllable, and the first numbers tie the first syllables:
\* a syllable nothing came behind has no items (the comments on ITM and itm in the
\* feature vector).
TiesAttached ==
  procState = "PROCESS" =>
    \A m, n \in DOMAIN pamTies : m < n /\ pamTies[m].last > 0 /\ pamTies[n].first > 0
                                => pamTies[m].last < pamTies[n].first

\* The features counted by events forth and back say of every syllable what they
\* mean by its words and phrases. (A forced end right behind a word counts that
\* word twice.)
FeaturesRight ==
  procState = "PROCESS" /\ pamCur = [syll |-> 0, ph |-> 0] /\ ~forced =>
    \E u \in {pamSent.syls} : \A n \in Spoke(u) :
      \E word \in {Word(u, n)}, sec \in {Sec(u, n)}, prim \in {Prim(u, n)} :
      \E meant \in {Meant(u, n, word, sec, prim)} : \A x \in DOMAIN meant : pamFeats[n][x] = meant[x]

\* Fewer items are tied to a sentence than there are numbers for them.
IdsFit == pamQueue.last < PamIds - 1


\* What arrives is taken, and the end of every sentence gets out, unless the queue
\* had no room for it.
Ends(s) == Len(SelectSeq(s, LAMBDA item : item.kind \in SentEnd /\ item.id # Made /\ item.id \notin pamLost))
PamSentencesGetOut ==
  /\ cbIn # << >> ~> cbIn = << >>
  /\ Ends(told) < Ends(came) ~> Ends(told) >= Ends(came)
=============================================================================
