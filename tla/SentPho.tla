------------------------------ MODULE SentPho -------------------------------
(***************************************************************************)
(* Sentence phonology (picospho.c): collects words, bounds and commands,   *)
(* takes the phones of words and bounds through transducers, moves the     *)
(* strengths of bounds and the pauses asked for by commands to the BOUNDs  *)
(* between the words, and cuts the words into syllables.                   *)
(*                                                                         *)
(* A sentence that does not fit into the buffers is treated in windows:    *)
(* headx[0 .. rd-1] is looked at, [start .. end-1] of it is put out, and   *)
(* pen is where the next window begins.  Positions count from 0, as in the *)
(* code; Item(i) is headx[i].  The transducers are a choice of what        *)
(* becomes of bound strengths, and of whether elidable phones are dropped; *)
(* they insert nothing.                                                    *)
(***************************************************************************)
EXTENDS ProcUnit, SequencesExt

CONSTANTS
  SpMaxHeadx,     \* SPHO_MAXNR_HEADX
  SpCbufSize,     \* SPHO_MAXSIZE_CBUF
  SpPhonCap,      \* 2 * PICOTRNS_MAX_NUM_POSSYM
  SpFsts,         \* what a transduction may do to the strengths: functions on PHR0 .. PHR3
  SpItems,        \* the items that may arrive
  SpInputs(_)     \* those of them that may do so after the given ones

Bounds == {"SBEG", "PHR1", "PHR2", "PHR3", "SEND", "TERM"}
SentEnd == {"SEND", "TERM"}
WithPhones == Bounds \union {"WORD"}

\* A bound is a header without content (acphPutBoundItem); syllables are made here.
ASSUME SpAssumption ==
  /\ SpMaxHeadx \in Nat /\ SpCbufSize \in Nat /\ SpPhonCap \in Nat
  /\ \A in \in SpItems :
       /\ {"kind", "type", "time", "acc", "tag", "phones", "len"} \subseteq DOMAIN in
       /\ in.kind # "SYLL" /\ in.len \in Nat /\ in.phones \in Seq(STRING)
       /\ in.kind \in Bounds => in.len = 0
\* The time of a pause is two bytes of its command.
ASSUME SpTimes == \A in \in SpItems : in.time \in 0 .. 65535

VARIABLES
  spHeadx,        \* the items, with the bound to be put before each
  spPhon,         \* phonBuf
  spCol,          \* COLLECT: needMoreInput, force, whether this call got an item
  spPar,          \* PARSE: headxReadPos, sentenceStarted, suppressParseWordBound
  spWin,          \* activeStartPos, penultima, activeEndPos
  spAli,          \* BOUNDS and RECOMB: outReadPos, phonReadPos, suppressRecombWordBound, wordStarted
  spBrk,          \* breakPending, breakTime, lastPhraseType, lastPhraseBoundPos
  spOut,          \* the item in outBuf, and feedFollowState
  came, stored,   \* history: the items taken, and those of them that found room
  told,           \* history: the items put
  windowed        \* history: how many items were stored when a sentence was cut

spHist == << came, stored, told, windowed >>
spVars == << unitVars, spHeadx, spPhon, spCol, spPar, spWin, spAli, spBrk, spOut, spHist >>

Invalid == -2     \* PICOTRNS_POS_INVALID
Ignore == -3      \* PICOTRNS_POS_IGNORE
Item(i) == spHeadx[i + 1]
WritePos == Len(spHeadx)
LenSum(items) ==
  LET upTo[n \in 0 .. Len(items)] == IF n = 0 THEN 0 ELSE upTo[n - 1] + items[n].len
  IN upTo[Len(items)]
Weak == {"PHR0", "PHR3"}                  \* bounds without a pause
Pausing == {"SIL", "PLAY", "SAVE", "IGNSTART", "IGNEND", "MARK"}

SpInit ==
  /\ UnitInit("INIT")
  /\ spHeadx = << >> /\ spPhon = << >>
  /\ spCol = [need |-> TRUE, force |-> FALSE, got |-> FALSE]
  /\ spPar = [rd |-> 0, started |-> FALSE, suppress |-> FALSE]
  /\ spWin = [start |-> 0, pen |-> Invalid, end |-> Invalid]
  /\ spAli = [out |-> 0, phon |-> 1, suppress |-> FALSE, word |-> FALSE]
  /\ spBrk = [pending |-> FALSE, time |-> 0, type |-> "NA", pos |-> -1]
  /\ spOut = << >>
  /\ came = << >> /\ stored = << >> /\ told = << >> /\ windowed = {}

SpStart ==
  /\ Running("INIT") /\ Go("COLLECT")
  /\ spWin' = [spWin EXCEPT !.pen = Invalid, !.end = Invalid]
  /\ spPar' = [spPar EXCEPT !.rd = 0]
  /\ spPhon' = << >>
  /\ spBrk' = [spBrk EXCEPT !.type = "NA", !.pos = -1]
  /\ NoTransfer /\ UNCHANGED << spHeadx, spCol, spAli, spOut, spHist >>

-----------------------------------------------------------------------------
(* COLLECT: takes items while there is one and room for it.                 *)
HeadRoom == WritePos < SpMaxHeadx /\ LenSum(spHeadx) < SpCbufSize
ContentRoom(item) == LenSum(spHeadx) + item.len <= SpCbufSize
SideBound(strength, type, sil) == [strength |-> strength, type |-> type, sil |-> sil]
NoBound == SideBound("none", "NA", -1)
Unbounded(item) == [f \in DOMAIN item \cup {"bound"} |-> IF f = "bound" THEN NoBound ELSE item[f]]

SpCollect ==
  /\ Running("COLLECT") /\ HeadRoom /\ Take /\ ContentRoom(Head(cbIn)) /\ Stay
  /\ spHeadx' = Append(spHeadx, Unbounded(Head(cbIn)))
  /\ came' = Append(came, Head(cbIn)) /\ stored' = Append(stored, Head(cbIn))
  /\ spCol' = [spCol EXCEPT !.got = TRUE]
  /\ UNCHANGED << spPhon, spPar, spWin, spAli, spBrk, spOut, told, windowed >>

\* No more items: go on if there is a new one to look at.
SpCollectEnd ==
  /\ Running("COLLECT") /\ HeadRoom /\ cbIn = << >>
  /\ IF spCol.got \/ ~spCol.need
       THEN Go("PARSE") /\ spCol' = [spCol EXCEPT !.need = FALSE, !.got = FALSE]
       ELSE Return("IDLE") /\ UNCHANGED spCol
  /\ NoTransfer /\ UNCHANGED << spHeadx, spPhon, spPar, spWin, spAli, spBrk, spOut, spHist >>

\* No more room: what there is has to do.
BufferFull ==
  /\ Go("PARSE")
  /\ spCol' = [need |-> FALSE, force |-> spCol.force \/ spCol.need, got |-> FALSE]
  /\ UNCHANGED << spHeadx, spPhon, spPar, spWin, spAli, spBrk, spOut, stored, told, windowed >>

SpCollectFull ==
  Running("COLLECT") /\ ~HeadRoom /\ BufferFull /\ NoTransfer /\ UNCHANGED came

\* The item has been taken, but its content does not fit: it is lost.
SpCollectLost ==
  /\ Running("COLLECT") /\ HeadRoom /\ Take /\ ~ContentRoom(Head(cbIn)) /\ BufferFull
  /\ came' = Append(came, Head(cbIn))

-----------------------------------------------------------------------------
(* PARSE: one item at a time, to phones with the position of the item.      *)
Sym(pos, plane, sym) == [pos |-> pos, plane |-> plane, sym |-> sym]
Fits(s) == Len(spPhon) + Len(s) <= SpPhonCap
StressMarks == {"'", ","}

\* sphoGetSylAccent
SylAccent(acc, stress) ==
  CASE stress = "'" -> acc
    [] stress = "," -> IF acc = "ACC0" THEN "ACC0" ELSE "ACC4"
    [] OTHER        -> "ACC0"

\* The stress mark in the syllable that begins behind the n-th character.
StressAfter(content, n) ==
  LET marks == {m \in n + 1 .. Len(content) :
                  content[m] \in StressMarks /\ \A k \in n + 1 .. m : content[k] # "-"}
  IN IF marks = {} THEN "" ELSE content[CHOOSE m \in marks : \A k \in marks : m <= k]

\* sphoExtractPhonemes with convertAccents: every character becomes a phone, but
\* stress marks; an accent and the part of speech come before every syllable.
Spelled(pos, item) ==
  LET content == item.phones
      begin(n) == << Sym(pos, "ACC", SylAccent(item.acc, StressAfter(content, n))),
                     Sym(pos, "POS", item.tag) >>
      phone(n) == Sym(pos, "PH", content[n])
  IN begin(0) \o FlattenSeq([n \in DOMAIN content |->
       IF content[n] \in StressMarks THEN << >>
       ELSE IF content[n] = "-" THEN << phone(n) >> \o begin(n) ELSE << phone(n) >>])
BoundSym(kind) == IF kind \in {"SBEG", "TERM"} THEN "SEND" ELSE kind
Extract(pos, item, suppressWB) ==
  IF item.kind # "WORD" THEN << Sym(pos, "PB", BoundSym(item.kind)) >>
  ELSE (IF suppressWB THEN << >> ELSE << Sym(pos, "PB", "PHR0") >>) \o Spelled(pos, item)

Looked == Item(spPar.rd)
Parsing == Running("PARSE") /\ spPar.rd < WritePos

SpParseEnd ==
  /\ Running("PARSE") /\ spPar.rd >= WritePos
  /\ IF spCol.force
       THEN /\ spCol' = [spCol EXCEPT !.force = FALSE]
            /\ spWin' = [spWin EXCEPT !.end = IF @ = Invalid THEN spPar.rd ELSE @]
            /\ windowed' = windowed \union {Len(stored)}
            /\ Go("TRANSDUCE")
       ELSE /\ spCol' = [spCol EXCEPT !.need = TRUE]
            /\ Go("COLLECT")
            /\ UNCHANGED << spWin, windowed >>
  /\ NoTransfer /\ UNCHANGED << spHeadx, spPhon, spPar, spAli, spBrk, spOut, came, stored, told >>

\* The phones that end a sentence: the second is added only if the first could
\* not be, so never; and nobody asks whether there was room.
TermSyms(pos) == IF Fits(<< 1 >>) THEN << Sym(pos, "PB", "SEND") >> ELSE << >>

\* Mutant: the active range stops before the end of the sentence.
SpParseSentEndShort ==
  /\ Parsing /\ Looked.kind \in SentEnd /\ spPar.started
  /\ spPhon' = spPhon \o TermSyms(spPar.rd)
  /\ spPar' = [spPar EXCEPT !.started = FALSE, !.rd = @ + 1]
  /\ spWin' = [spWin EXCEPT !.end = spPar.rd, !.pen = spPar.rd + 1]
  /\ Go("TRANSDUCE")
  /\ NoTransfer /\ UNCHANGED << spHeadx, spCol, spAli, spBrk, spOut, spHist >>

SpParseSentEnd ==
  /\ Parsing /\ Looked.kind \in SentEnd /\ spPar.started
  /\ spPhon' = spPhon \o TermSyms(spPar.rd)
  /\ spPar' = [spPar EXCEPT !.started = FALSE, !.rd = @ + 1]
  /\ spWin' = [spWin EXCEPT !.end = spPar.rd + 1, !.pen = spPar.rd + 1]
  /\ Go("TRANSDUCE")
  /\ NoTransfer /\ UNCHANGED << spHeadx, spCol, spAli, spBrk, spOut, spHist >>

\* A flush outside a sentence goes out at once. (A SEND there never comes.)
SpParseFlush ==
  /\ Parsing /\ Looked.kind = "TERM" /\ ~spPar.started
  /\ spOut' = << [id |-> Made, kind |-> "TERM", type |-> Looked.type, sil |-> -1], "SHIFT" >>
  /\ spPar' = [spPar EXCEPT !.rd = @ + 1]
  /\ spWin' = [spWin EXCEPT !.end = spPar.rd + 1, !.pen = Invalid]
  /\ Go("FEED")
  /\ NoTransfer /\ UNCHANGED << spHeadx, spPhon, spCol, spAli, spBrk, spHist >>

\* Is a new end of the active range found? It is a word, or the end was a bound.
NewEnd ==
  /\ spWin.start <= spPar.rd
  /\ Looked.kind = "WORD" \/ spWin.end = Invalid \/ Item(spWin.end).kind \in Bounds
Started == spPar.started \/ Looked.kind = "SBEG"
StartSyms == IF Looked.kind = "SBEG" /\ Fits(<< 1 >>) THEN << Sym(Ignore, "INT", "start") >> ELSE << >>
InSentence == Looked.kind \notin SentEnd
NewSyms == StartSyms \o Extract(spPar.rd, Looked, spPar.suppress)

SpParsePhones ==
  /\ Parsing /\ Looked.kind \in WithPhones /\ InSentence
  /\ Fits(NewSyms)
  /\ spPhon' = spPhon \o NewSyms
  /\ spPar' = [rd |-> spPar.rd + 1, started |-> Started, suppress |-> Looked.kind # "WORD"]
  /\ spWin' = IF NewEnd THEN [spWin EXCEPT !.pen = spWin.end, !.end = spPar.rd] ELSE spWin
  /\ Stay /\ NoTransfer /\ UNCHANGED << spHeadx, spCol, spAli, spBrk, spOut, spHist >>

\* phonBuf is full in the middle of a sentence.
SpParseOverflow ==
  /\ Parsing /\ Looked.kind \in WithPhones /\ InSentence
  /\ ~Fits(NewSyms)
  /\ spPhon' = spPhon \o StartSyms
  /\ spPar' = [spPar EXCEPT !.started = Started, !.suppress = (Looked.kind # "WORD")]
  /\ spWin' = [spWin EXCEPT !.end = IF @ \in {Invalid, spWin.start} THEN spPar.rd ELSE @]
  /\ windowed' = windowed \union {Len(stored)}
  /\ Go("TRANSDUCE")
  /\ NoTransfer /\ UNCHANGED << spHeadx, spCol, spAli, spBrk, spOut, came, stored, told >>

SpParseOther ==
  /\ Parsing /\ Looked.kind \notin WithPhones
  /\ spPar' = [spPar EXCEPT !.rd = @ + 1]
  /\ Stay /\ NoTransfer /\ UNCHANGED << spHeadx, spPhon, spCol, spWin, spAli, spBrk, spOut, spHist >>

-----------------------------------------------------------------------------
(* TRANSDUCE: all transducers, one after the other.                         *)
Elidable == "h"
Transduced(fst, drop) ==
  LET kept == SelectSeq(spPhon, LAMBDA s : ~(drop /\ s.plane = "PH" /\ s.sym = Elidable))
  IN [n \in DOMAIN kept |->
        IF kept[n].plane = "PB" /\ kept[n].sym \in DOMAIN fst
          THEN Sym(kept[n].pos, "PB", fst[kept[n].sym]) ELSE kept[n]]

SpTransduce ==
  /\ Running("TRANSDUCE")
  /\ \E fst \in SpFsts, drop \in BOOLEAN : spPhon' = Transduced(fst, drop)
  /\ spAli' = [spAli EXCEPT !.out = 0, !.phon = 1]
  /\ Go("BOUNDS")
  /\ NoTransfer /\ UNCHANGED << spHeadx, spCol, spPar, spWin, spBrk, spOut, spHist >>

-----------------------------------------------------------------------------
(* The phones in their order. NextSym(p, end) is the next one from the p-th, *)
(* if it belongs to an item before end; it is at the place PhonAt(p).        *)
PhonAt(p) ==
  LET here == {n \in p .. Len(spPhon) : spPhon[n].pos # Ignore}
  IN IF here = {} THEN Len(spPhon) + 1 ELSE CHOOSE n \in here : \A m \in here : n <= m
HasSym(p, end) == PhonAt(p) <= Len(spPhon) /\ spPhon[PhonAt(p)].pos < end
NextSym(p) == spPhon[PhonAt(p)].sym
AfterSym(p) == PhonAt(p) + 1
AfterItems(p, end) ==
  LET later == {n \in p .. Len(spPhon) : spPhon[n].pos # Ignore /\ spPhon[n].pos >= end}
  IN IF later = {} THEN Len(spPhon) + 1 ELSE CHOOSE n \in later : \A m \in later : n <= m

\* What the items [from .. to-1] say about a word bound before the next word.
SuppressAfter(from, to, before) ==
  LET marks == {i \in from .. to - 1 : Item(i).kind \in WithPhones}
  IN IF marks = {} THEN before
     ELSE Item(CHOOSE i \in marks : \A j \in marks : j <= i).kind # "WORD"

(* BOUNDS: finds the strength and the pause of the bound before each item.  *)
SpBounds ==
  /\ Running("BOUNDS") /\ Go("ALIGN")
  /\ spAli' = [spAli EXCEPT !.out = IF @ < spWin.start THEN spWin.start ELSE @,
                            !.phon = AfterItems(1, spWin.start),
                            !.suppress = SuppressAfter(spAli.out, spWin.start, FALSE)]
  /\ NoTransfer /\ UNCHANGED << spHeadx, spPhon, spCol, spPar, spWin, spBrk, spOut, spHist >>

FstModified(orig, target) ==
  CASE orig \in {"PHR1", "PHR2"} -> IF target = "PHR0" THEN "PHR3" ELSE target
    [] orig \in Weak             -> target
    [] OTHER                     -> orig

BreakModified(orig, time, wasPrimary) ==
  LET modified == IF time = 0 THEN "PHR3" ELSE IF time > 50 THEN "PHR1" ELSE "PHR2"
  IN CASE orig = "PHR0" /\ time = 0                -> "PHR0"
       [] orig \in Weak /\ time = 0 /\ ~wasPrimary -> "PHR0"
       [] orig \in Weak \union {"PHR1", "PHR2"}    -> modified
       [] OTHER                                    -> orig

WithBound(headx, i, bound) == [headx EXCEPT ![i + 1].bound = bound]
WithType(headx, i, type) == IF spWin.start <= i THEN [headx EXCEPT ![i + 1].bound.type = type] ELSE headx

\* Mutant: every bound keeps its own type.
SetTypesStay(brk, i, orig, origType, bound) ==
  /\ spHeadx' = WithBound(spHeadx, i, SideBound(bound.strength, origType, bound.sil))
  /\ spBrk' = [brk EXCEPT !.type = origType, !.pos = i]

\* The types of the phrases move with bounds that come or go: a new phrase takes
\* the type of the one it is cut from, which becomes a P phrase; a phrase that
\* loses its bound gives its type to the phrase before.
SetTypes(brk, i, orig, origType, bound) ==
  LET fromPhrase == orig # "PHR0"
      toPhrase == bound.strength # "PHR0"
      type == IF fromPhrase THEN origType ELSE brk.type
      before == IF toPhrase /\ ~fromPhrase THEN WithType(spHeadx, brk.pos, "P")
                ELSE IF ~toPhrase /\ fromPhrase THEN WithType(spHeadx, brk.pos, origType)
                ELSE spHeadx
  IN /\ spHeadx' = WithBound(before, i, SideBound(bound.strength, IF toPhrase THEN type ELSE "NA", bound.sil))
     /\ spBrk' = [brk EXCEPT !.type = type, !.pos = IF toPhrase THEN i ELSE @]

\* breakTime is unsigned, sildur signed, both of 16 bits.
Int16(t) == IF t < 2 ^ 15 THEN t ELSE t - 2 ^ 16
NoBreak(brk) == [brk EXCEPT !.pending = FALSE, !.time = 0]
OneMs(brk) == [brk EXCEPT !.pending = TRUE, !.time = 1]

\* setSideBound with a bound that was there: fst is what the transducers made of it.
SetBound(brk, i, orig, origType, fst) ==
  LET strength == FstModified(orig, fst)
  IN IF brk.pending
       THEN SetTypes(NoBreak(brk), i, orig, origType,
                     SideBound(BreakModified(strength, brk.time, orig = "PHR1"), "NA", Int16(brk.time)))
       ELSE SetTypes(brk, i, orig, origType, SideBound(strength, "NA", -1))

\* setSideBound where none was: only a break makes one; next is pending then.
SetBreak(brk, i, next) ==
  IF brk.pending
    THEN SetTypes(next, i, "PHR0", "NA",
                  SideBound(BreakModified("PHR0", brk.time, FALSE), "NA", Int16(brk.time)))
    ELSE UNCHANGED spHeadx /\ spBrk' = next

Aligned == Item(spAli.out)
Aligning == Running("ALIGN") /\ spAli.out < spWin.end
NextPos == spAli.out + 1
BoundExpected == Aligned.kind \in Bounds \/ (Aligned.kind = "WORD" /\ ~spAli.suppress)
AlignNext(suppress) ==
  spAli' = [spAli EXCEPT !.out = NextPos, !.phon = AfterItems(spAli.phon, NextPos), !.suppress = suppress]
AlignOnly == Stay /\ NoTransfer /\ UNCHANGED << spPhon, spCol, spPar, spWin, spOut, spHist >>

SpAlignBound ==
  /\ Aligning /\ BoundExpected /\ HasSym(spAli.phon, NextPos)
  /\ SetBound(spBrk, spAli.out, IF Aligned.kind = "WORD" THEN "PHR0" ELSE Aligned.kind,
              Aligned.type, NextSym(spAli.phon))
  /\ AlignNext(spAli.suppress \/ Aligned.kind \in Bounds)
  /\ AlignOnly

\* The phone of the bound is missing; the next call goes on from here.
SpAlignError ==
  /\ Aligning /\ BoundExpected /\ ~HasSym(spAli.phon, NextPos)
  /\ Leave("BOUNDS", "ERROR")
  /\ NoTransfer /\ UNCHANGED << spHeadx, spPhon, spCol, spPar, spWin, spAli, spBrk, spOut, spHist >>

\* Mutant: the last of two pauses replaces the first.
SpAlignSilLast ==
  /\ Aligning /\ Aligned.kind = "SIL"
  /\ spBrk' = [spBrk EXCEPT !.pending = TRUE, !.time = Aligned.time]
  /\ AlignNext(spAli.suppress)
  /\ AlignOnly /\ UNCHANGED spHeadx

SpAlignSil ==
  /\ Aligning /\ Aligned.kind = "SIL"
  /\ spBrk' = [spBrk EXCEPT !.pending = TRUE,
                             !.time = IF spBrk.pending THEN (@ + Aligned.time) % 2 ^ 16 ELSE Aligned.time]
  /\ AlignNext(spAli.suppress)
  /\ AlignOnly /\ UNCHANGED spHeadx

\* breakStateInterrupting: does an item need a pause before and after it?
BreakBefore == {"PLAY", "SAVE", "IGNSTART"}
BreakAfter == {"PLAY", "SAVE", "IGNEND"}
AtLeast1ms(brk) == IF brk.pending /\ brk.time > 0 THEN brk ELSE OneMs(brk)

SpAlignOther ==
  /\ Aligning /\ ~BoundExpected /\ Aligned.kind # "SIL"
  /\ \E brk \in {IF Aligned.kind \in BreakBefore THEN AtLeast1ms(spBrk) ELSE spBrk} :
       SetBreak(brk, spAli.out, IF Aligned.kind \in BreakAfter THEN OneMs(brk) ELSE NoBreak(brk))
  /\ AlignNext(spAli.suppress /\ Aligned.kind # "WORD")
  /\ AlignOnly

SpAlignEnd ==
  /\ Running("ALIGN") /\ spAli.out >= spWin.end
  /\ spAli' = [out |-> 0, phon |-> 1, suppress |-> FALSE, word |-> spAli.word]
  /\ Leave("RECOMB", "ATOMIC")
  /\ NoTransfer /\ UNCHANGED << spHeadx, spPhon, spCol, spPar, spWin, spBrk, spOut, spHist >>

-----------------------------------------------------------------------------
(* RECOMB and SYL: the items of the active range, with the bounds found.    *)
Recombining == Running("RECOMB") /\ spAli.out < spWin.end
AtActive == Recombining /\ spAli.out >= spWin.start
\* Mutant: a bound without a pause is not put.
SideDueIfStrong == Aligned.bound.strength \notin {"none", "PHR0"}
SideDue == Aligned.bound.strength # "none"
RecombOnly == NoTransfer /\ UNCHANGED << spPhon, spCol, spPar, spWin, spBrk, spHist >>
Feed(item, follow) == spOut' = << item, follow >> /\ Go("FEED")
Wrong(phase) == Leave(phase, "ERROR") /\ RecombOnly /\ UNCHANGED << spHeadx, spAli, spOut >>

SpRecombEnd ==
  /\ Running("RECOMB") /\ spAli.out >= spWin.end
  /\ Go("SHIFT")
  /\ RecombOnly /\ UNCHANGED << spHeadx, spAli, spOut >>

SpRecombContext ==
  /\ Recombining /\ spAli.out < spWin.start
  /\ spAli' = [spAli EXCEPT !.out = NextPos, !.phon = AfterItems(spAli.phon, NextPos),
                            !.suppress = SuppressAfter(spAli.out, NextPos, spAli.suppress)]
  /\ Stay /\ RecombOnly /\ UNCHANGED << spHeadx, spOut >>

\* putSideBoundToOutput: the pause is given only with a bound that has one.
SpRecombSide ==
  /\ AtActive /\ SideDue
  /\ Feed([id |-> Made, kind |-> Aligned.bound.strength, type |-> Aligned.bound.type,
           sil |-> IF Aligned.bound.strength \in Weak THEN -1 ELSE Aligned.bound.sil], "RECOMB")
  /\ spHeadx' = WithBound(spHeadx, spAli.out, NoBound)
  /\ RecombOnly /\ UNCHANGED spAli

SpRecombBound ==
  /\ AtActive /\ ~SideDue /\ Aligned.kind \in Bounds /\ HasSym(spAli.phon, NextPos)
  /\ spAli' = [spAli EXCEPT !.out = NextPos, !.phon = AfterSym(@), !.suppress = TRUE]
  /\ Stay /\ RecombOnly /\ UNCHANGED << spHeadx, spOut >>

SpRecombWord ==
  /\ AtActive /\ ~SideDue /\ Aligned.kind = "WORD"
  /\ spAli.suppress \/ HasSym(spAli.phon, NextPos)
  /\ spAli' = [spAli EXCEPT !.phon = IF spAli.suppress THEN @ ELSE AfterSym(@),
                            !.suppress = FALSE, !.word = TRUE]
  /\ Go("SYL")
  /\ RecombOnly /\ UNCHANGED << spHeadx, spOut >>

SpRecombError ==
  /\ AtActive /\ ~SideDue /\ ~HasSym(spAli.phon, NextPos)
  /\ Aligned.kind \in Bounds \/ (Aligned.kind = "WORD" /\ ~spAli.suppress)
  /\ Wrong("RECOMB")

SpRecombSil ==
  /\ AtActive /\ ~SideDue /\ Aligned.kind = "SIL"
  /\ spAli' = [spAli EXCEPT !.out = NextPos]
  /\ Stay /\ RecombOnly /\ UNCHANGED << spHeadx, spOut >>

SpRecombOther ==
  /\ AtActive /\ ~SideDue /\ Aligned.kind \notin WithPhones \union {"SIL"}
  /\ Feed([id |-> Aligned.id, kind |-> Aligned.kind], "RECOMB")
  /\ spAli' = [spAli EXCEPT !.out = NextPos]
  /\ RecombOnly /\ UNCHANGED spHeadx

\* A syllable: an accent, a part of speech, and phones to the next separator, or
\* to the end of the word. A syllable without phones is not put.
SylEnd(from) ==
  LET ends == {n \in from .. Len(spPhon) :
                 spPhon[n].pos # Ignore /\ (spPhon[n].pos >= NextPos \/ spPhon[n].sym = "-")}
  IN IF ends = {} THEN Len(spPhon) + 1 ELSE CHOOSE n \in ends : \A m \in ends : n <= m
SylPhones(from, to) == [n \in 1 .. to - from |-> spPhon[from + n - 1].sym]
\* Mutant: the separator is not passed.
SylFromEnd(end, more) == end
SylFrom(end, more) == IF more THEN end + 1 ELSE end

SpSyl ==
  /\ Running("SYL")
  /\ HasSym(spAli.phon, NextPos) /\ HasSym(AfterSym(spAli.phon), NextPos)
  /\ \E from \in {AfterSym(AfterSym(spAli.phon))} : \E to \in {SylEnd(from)} :
       LET more == HasSym(to, NextPos)
           follow == IF more THEN "SYL" ELSE "RECOMB"
       IN /\ spAli' = [spAli EXCEPT !.out = IF more THEN @ ELSE NextPos,
                                    !.phon = SylFrom(to, more), !.word = FALSE]
          /\ IF to = from THEN Go(follow) /\ UNCHANGED spOut
             ELSE Feed([id |-> Aligned.id, kind |-> "SYLL",
                        tag |-> IF spAli.word THEN NextSym(AfterSym(spAli.phon)) ELSE "NA",
                        acc |-> NextSym(spAli.phon), phones |-> SylPhones(from, to)], follow)
  /\ RecombOnly /\ UNCHANGED spHeadx

-----------------------------------------------------------------------------
(* FEED: puts the item in outBuf; SHIFT: moves the window.                  *)
SpFeed ==
  /\ Running("FEED") /\ Put(spOut[1]) /\ told' = Append(told, spOut[1])
  /\ Leave(spOut[2], "BUSY") /\ spOut' = << >>
  /\ UNCHANGED << spHeadx, spPhon, spCol, spPar, spWin, spAli, spBrk, came, stored, windowed >>

SpFeedFull ==
  /\ Running("FEED") /\ ~Room /\ Return("OUT_FULL")
  /\ NoTransfer /\ UNCHANGED << spHeadx, spPhon, spCol, spPar, spWin, spAli, spBrk, spOut, spHist >>

ShiftOnly == Go("INIT") /\ NoTransfer /\ UNCHANGED << spPhon, spCol, spAli, spBrk, spOut, spHist >>
Without(from, to) == SubSeq(spHeadx, 1, from) \o SubSeq(spHeadx, to + 1, WritePos)

\* penultima begins the new left context.
SpShift ==
  /\ Running("SHIFT") /\ spWin.pen # Invalid
  /\ spHeadx' = Without(0, spWin.pen)
  /\ spWin' = [spWin EXCEPT !.start = spWin.end - spWin.pen, !.pen = 0]
  /\ spPar' = [spPar EXCEPT !.suppress = FALSE]
  /\ ShiftOnly

\* The left context stays, unless that brought nothing, and the active range goes.
SpShiftActive ==
  /\ Running("SHIFT") /\ spWin.pen = Invalid
  /\ \E start \in {IF spWin.start = spWin.end THEN 0 ELSE spWin.start} :
       /\ spHeadx' = Without(start, spWin.end)
       /\ spWin' = [spWin EXCEPT !.start = start, !.end = start]
  /\ ShiftOnly /\ UNCHANGED spPar

SpStep ==
  \/ SpStart \/ SpCollect \/ SpCollectEnd \/ SpCollectFull \/ SpCollectLost
  \/ SpParseEnd \/ SpParseSentEnd \/ SpParseFlush \/ SpParsePhones \/ SpParseOverflow \/ SpParseOther
  \/ SpTransduce
  \/ SpBounds \/ SpAlignBound \/ SpAlignError \/ SpAlignSil \/ SpAlignOther \/ SpAlignEnd
  \/ SpRecombEnd \/ SpRecombContext \/ SpRecombSide \/ SpRecombBound \/ SpRecombWord
  \/ SpRecombError \/ SpRecombSil \/ SpRecombOther \/ SpSyl
  \/ SpFeed \/ SpFeedFull \/ SpShift \/ SpShiftActive

\* sphoReset; the stretch of text before it is forgotten.
SpReset ==
  /\ UnitReset("INIT")
  /\ spHeadx' = << >> /\ spPhon' = << >> /\ spOut' = << >>
  /\ spCol' = [need |-> TRUE, force |-> FALSE, got |-> FALSE]
  /\ spPar' = [rd |-> 0, started |-> FALSE, suppress |-> FALSE]
  /\ spWin' = [start |-> 0, pen |-> Invalid, end |-> Invalid]
  /\ spAli' = [out |-> 0, phon |-> 1, suppress |-> FALSE, word |-> FALSE]
  /\ spBrk' = [spBrk EXCEPT !.pending = FALSE, !.time = 0]
  /\ came' = << >> /\ stored' = << >> /\ told' = << >> /\ windowed' = {}

spOnly == << spHeadx, spPhon, spCol, spPar, spWin, spAli, spBrk, spOut, spHist >>

\* A sentence was begun and has not ended: there are words, bounds and commands
\* in a sentence only (BoundsFollow of AccPhr).
Open(s) ==
  \E k \in DOMAIN s : s[k].kind = "SBEG" /\ \A m \in k + 1 .. Len(s) : s[m].kind \notin SentEnd
MayFollow(s) == {in \in SpItems \cap SpInputs(s) : in.kind \in {"SBEG", "TERM"} \/ Open(s)}

SpNext ==
  \/ SpStep
  \/ (Call \/ Arrive(MayFollow(came \o cbIn)) \/ Fetch) /\ UNCHANGED spOnly
  \/ SpReset
\* A call runs to its return, the control unit goes on calling, and the unit
\* behind has the turn while there is output.
SpFairness ==
  WF_spVars(SpStep) /\ WF_spVars(Call /\ UNCHANGED spOnly) /\ SF_spVars(Fetch /\ UNCHANGED spOnly)
SpSpec == SpInit /\ [][SpNext]_spVars /\ SpFairness

-----------------------------------------------------------------------------
(* Properties.                                                              *)
\* The syllables of a content: the pieces between the separators.
SylCuts(content) == {0, Len(content) + 1} \union {n \in DOMAIN content : content[n] = "-"}
Syllables(content) ==
  LET c == SetToSortSeq(SylCuts(content), <)
  IN [k \in 1 .. Len(c) - 1 |-> SubSeq(content, c[k] + 1, c[k + 1] - 1)]
NoStress(syl) == SelectSeq(syl, LAMBDA ph : ph \notin StressMarks)
StressOf(syl) ==
  LET marks == SelectSeq(syl, LAMBDA ph : ph \in StressMarks) IN IF marks = << >> THEN "" ELSE marks[1]

Framing == {"SBEG", "SEND", "TERM"}
Phrasing == {"SBEG", "PHR1", "PHR2", "PHR3"}
Audible(phones) == SelectSeq(phones, LAMBDA ph : ph # Elidable)

\* What should be put for an item: the syllables of a word, with its part of
\* speech on the first and the accents; frames of sentences; no SIL and no other
\* bound as such. asked is the pause asked for up to here.
Syllable(item, k, asked) ==
  [id |-> item.id, kind |-> "SYLL", tag |-> IF k = 1 THEN item.tag ELSE "NA",
   acc |-> SylAccent(item.acc, StressOf(Syllables(item.phones)[k])),
   phones |-> Audible(NoStress(Syllables(item.phones)[k])), asked |-> asked]
DueFor(item, asked) ==
  CASE item.kind = "WORD"   -> [k \in DOMAIN Syllables(item.phones) |-> Syllable(item, k, asked)]
    [] item.kind \in Framing -> << [id |-> Made, kind |-> item.kind, asked |-> asked] >>
    [] item.kind \in Pausing \ {"SIL"} -> << [id |-> item.id, kind |-> item.kind, asked |-> asked] >>
    [] OTHER -> << >>
\* The pauses asked for in a row are one; longer ones than MaxPause (less the 1 ms
\* that an item which needs a pause behind it may have added) are not counted.
MaxPause == 2 ^ 15 - 2
Asked(n) ==
  LET pass(p, item) ==
        IF item.kind = "SIL" THEN [p EXCEPT !.row = @ + item.time]
        ELSE [row |-> 0, sum |-> IF p.row <= MaxPause THEN p.sum + p.row ELSE p.sum]
  IN FoldLeft(pass, [row |-> 0, sum |-> 0], SubSeq(stored, 1, n)).sum
Heard == FlattenSeq([n \in DOMAIN stored |-> DueFor(stored[n], Asked(n))])
IsContent(item) == item.id # Made \/ item.kind \in Framing
Content(s) == SelectSeq(s, IsContent)
Same(put, due) ==
  /\ put.id = due.id /\ put.kind = due.kind
  /\ put.kind = "SYLL" => put.tag = due.tag /\ put.acc = due.acc /\ Audible(put.phones) = due.phones

\* The k-th item that came had no room: there were others before it whose content,
\* fewer of them than the item buffer holds, left it too little of the content buffer.
Overflowed(k) ==
  \E n \in 0 .. SpMaxHeadx - 1 : \E place \in [1 .. n -> 1 .. k - 1] :
    LET held == [i \in 1 .. n |-> came[place[i]]]
    IN /\ \A i, j \in 1 .. n : i < j => place[i] < place[j]
       /\ LenSum(held) < SpCbufSize
       /\ ~(LenSum(held) + came[k].len <= SpCbufSize)

\* Words and commands leave in the order in which they came: what is put is a
\* syllable of a word, or a command, that came, and a command is put once; none is
\* passed over but one that overflowed the content buffer, and when the unit holds
\* nothing, no other is left behind.
Commands(s) == {n \in DOMAIN s : s[n].kind \notin WithPhones \union {"SIL"}}
Of(put, item) == put.id = item.id /\ put.kind = (IF item.kind = "WORD" THEN "SYLL" ELSE item.kind)
ItemsInOrder ==
  /\ \A n \in DOMAIN told : told[n].id # Made => \E k \in DOMAIN came : Of(told[n], came[k])
  /\ \A m, n \in DOMAIN told : m < n /\ told[m].id # Made /\ told[n].id # Made =>
       \/ told[m].id < told[n].id
       \/ told[m].id = told[n].id /\ told[m].kind = "SYLL" /\ told[n].kind = "SYLL"
  /\ \A k \in Commands(came) :
       (\E n \in DOMAIN told : came[k].id < told[n].id) \/ (spHeadx = << >> /\ spOut = << >>)
         => (\E n \in DOMAIN told : Of(told[n], came[k])) \/ Overflowed(k)

\* Words leave in their order, cut into their syllables, each with its own phones
\* and accent, and so do commands and the frames of sentences; nothing is put twice,
\* wherever the windows were cut and the output was full, and nothing is lost but
\* what overflowed the content buffer.
SyllablesInOrder ==
  /\ \A k \in DOMAIN came : (\E n \in DOMAIN stored : stored[n] = came[k]) \/ Overflowed(k)
  /\ \E heard \in {Heard} : \E put \in {Content(told)} :
       /\ Len(put) <= Len(heard)
       /\ \A n \in DOMAIN put : Same(put[n], heard[n])

\* The pauses asked for by SIL commands before something have been put when it
\* is put; none gets lost between windows, or under a bound that has none. (A SIL
\* that found no room asks for nothing, and a pause over MaxPause wraps, or is
\* negative and not put.)
PauseOf(item) == IF item.id = Made /\ item.sil > 0 THEN item.sil ELSE 0
BreaksKept ==
  told # << >> /\ IsContent(Last(told)) =>
    Heard[Len(Content(told))].asked <= FoldLeft(LAMBDA t, item : t + PauseOf(item), 0, told)

\* The unit behind finds a bound before every word, and none within a word.
IsBound(item) == item.kind \in Bounds \union {"PHR0"}
Spoken2(s) == SelectSeq(s, LAMBDA item : item.kind = "SYLL" \/ IsBound(item))
WordsBounded ==
  \E s \in {Spoken2(told)} : \A n \in DOMAIN s :
    /\ s[n].kind = "SYLL" /\ s[n].tag # "NA" => n > 1 /\ IsBound(s[n - 1])
    /\ s[n].kind = "SYLL" /\ s[n].tag = "NA" => n > 1 /\ s[n - 1].kind = "SYLL" /\ s[n - 1].id = s[n].id

\* A sentence that was not cut keeps its tone: when it ends, its last phrase has
\* the type that the last phrase of the input has, and every phrase has a type,
\* whatever bounds transducers and breaks have added and taken away.
LastWith(s, kinds) == CHOOSE n \in DOMAIN s : s[n].kind \in kinds /\ \A m \in n + 1 .. Len(s) : s[m].kind \notin kinds
FrameOf(s, k) ==      \* the place of the k-th frame of the sequence s
  CHOOSE n \in DOMAIN s : s[n].kind \in Framing /\ k = Cardinality({m \in 1 .. n : s[m].kind \in Framing})
Frames(s) == Len(SelectSeq(s, LAMBDA item : item.kind \in Framing))
ToneKept ==
  told # << >> /\ Last(told).kind \in SentEnd /\ Frames(told) > 1 =>
    LET end == FrameOf(stored, Frames(told))
        begin == FrameOf(stored, Frames(told) - 1)
        heard == SubSeq(stored, begin, end)
        put == SubSeq(told, FrameOf(told, Frames(told) - 1), Len(told))
    IN stored[begin].kind = "SBEG" /\ windowed \intersect (begin .. end - 1) = {} =>
         /\ put[LastWith(put, Phrasing)].type = heard[LastWith(heard, Phrasing)].type
         /\ \A n \in DOMAIN put : put[n].kind \in Phrasing => put[n].type # "NA"

\* What arrives is taken, and the end of a sentence gets out, whatever was before
\* it. (Phones that leave no room for that of the end put the unit into an error
\* for good.)
Ends(s) == Len(SelectSeq(s, LAMBDA item : item.kind \in SentEnd))
SentencesGetOut ==
  /\ cbIn # << >> ~> (cbIn = << >> \/ status = "ERROR")
  /\ Ends(told) < Ends(came) ~> (Ends(told) = Ends(came) \/ status = "ERROR")
=============================================================================
