-------------------------------- MODULE Cep ---------------------------------
(***************************************************************************)
(* Cepstral smoothing (picocep.c): gathers the frames of a sentence from   *)
(* its phones, smooths them, and gives them out one by one.  Other items   *)
(* that come in between wait with the number of frames before them.  A     *)
(* call of the step function does one case of its switch.                  *)
(*                                                                         *)
(* What a frame is smoothed to is left out: it stands for the phone and    *)
(* the state its index comes from.                                         *)
(***************************************************************************)
EXTENDS ProcUnit, SequencesExt

CONSTANTS
  MaxWinLen,       \* PICOCEP_MAXWINLEN, 10000 frames
  MaxHeadx,        \* PICOCEP_MAXNR_HEADX, 60 items
  MaxCbuf,         \* PICOCEP_MAXSIZE_CBUF, 7680 bytes
  CepInputs        \* [kind, len, states] of the items that may arrive

ASSUME CepAssumption ==
  /\ {MaxWinLen, MaxHeadx, MaxCbuf} \subseteq Nat \ {0}
  /\ \A in \in CepInputs :
       /\ DOMAIN in = {"kind", "len", "states"}
       /\ in.len \in Nat /\ in.states \in Seq(Nat)

VARIABLES
  cep,             \* cep_subobj_t
  cepHist          \* history: what is due and what was put, since the last reset

cepVars == << unitVars, cep, cepHist >>

NoFrame == << 0, 0 >>      \* what an index is before any phone came

(* The items in inBuf and outBuf (none or one); whether signals are         *)
(* ignored; the other items with their frames, and the first still to go    *)
(* out; the bytes of their contents; the indices, where to read, to write,  *)
(* and to end.  A reset leaves the indices as they are.                     *)
NewCep(index, follow) ==
  [item |-> << >>, out |-> << >>, follow |-> follow, ignore |-> FALSE, sentenceEnd |-> FALSE,
   headx |-> << >>, bottom |-> 0, cbuf |-> 0,
   index |-> index, read |-> 0, write |-> 0, end |-> MaxWinLen]

NewCepHist == [due |-> << >>, put |-> << >>, ignored |-> FALSE, frames |-> 0, over |-> FALSE]

CepInit ==
  /\ UnitInit("COLLECT")
  /\ cep = NewCep([i \in 0 .. MaxWinLen - 1 |-> NoFrame], "COLLECT")
  /\ cepHist = NewCepHist

EndsSentence(item) == item.kind \in {"SEND", "TERM"}
Forwarding(item) == item.kind \notin {"IGN_START", "IGN_END"}

FramesOf(item) ==
  FlattenSeq([s \in DOMAIN item.states |-> [n \in 1 .. item.states[s] |-> << item.id, s >>]])
UpTo(s, n) == SubSeq(s, 1, Min({n, Len(s)}))
FrameItem(frame) == [kind |-> "FRAME_PAR", id |-> Made, of |-> frame]

-----------------------------------------------------------------------------
(* History: what an item that is taken should give, without any waiting.    *)
(* The frames of a sentence end at MaxWinLen.                               *)
CepDue(item, h) ==
  LET fitting == UpTo(FramesOf(item), MaxWinLen - h.frames)
  IN IF h.ignored THEN [h EXCEPT !.ignored = item.kind # "IGN_END"]
     ELSE CASE item.kind = "PHONE" ->
                 [h EXCEPT !.due = @ \o [n \in DOMAIN fitting |-> FrameItem(fitting[n])],
                           !.frames = @ + Len(fitting), !.over = FALSE]
            [] item.kind = "IGN_START" -> [h EXCEPT !.ignored = TRUE]
            [] item.kind = "IGN_END" -> h
            [] OTHER -> [h EXCEPT !.due = Append(@, item),
                                  !.frames = IF EndsSentence(item) THEN 0 ELSE @,
                                  !.over = EndsSentence(item) \/ h.frames = 0]

CepCollect ==
  /\ Running("COLLECT") /\ Take
  /\ cep' = [cep EXCEPT !.item = << Head(cbIn) >>]
  /\ cepHist' = CepDue(Head(cbIn), cepHist)
  /\ Leave("PARSE", "BUSY")

CepIdle ==
  /\ Running("COLLECT") /\ cbIn = << >>
  /\ Return("IDLE") /\ NoTransfer /\ UNCHANGED << cep, cepHist >>

CepEmpty ==
  /\ Running("PARSE") /\ cep.item = << >>
  /\ Leave("COLLECT", "BUSY") /\ NoTransfer /\ UNCHANGED << cep, cepHist >>

\* The item that is looked at, outside an ignored stretch.
Parsing == Running("PARSE") /\ cep.item # << >> /\ ~cep.ignore
CepItem == cep.item[1]

CepIgnored ==
  /\ Running("PARSE") /\ cep.item # << >> /\ cep.ignore
  /\ cep' = [cep EXCEPT !.item = << >>, !.ignore = CepItem.kind # "IGN_END"]
  /\ Return("BUSY") /\ NoTransfer /\ UNCHANGED cepHist

\* treat_phone: the frames that do not fit are left out.
WithPhone(c, item) ==
  LET frames == UpTo(FramesOf(item), MaxWinLen - c.write)
  IN [c EXCEPT !.index = [i \in DOMAIN @ |-> IF i - c.write + 1 \in DOMAIN frames
                                             THEN frames[i - c.write + 1] ELSE @[i]],
               !.write = @ + Len(frames),
               !.item = << >>]

CepPhone ==
  /\ Parsing /\ CepItem.kind = "PHONE"
  /\ cep' = WithPhone(cep, CepItem)
  /\ Return("BUSY") /\ NoTransfer /\ UNCHANGED cepHist

CepIgnoreMark ==
  /\ Parsing /\ ~Forwarding(CepItem)
  /\ cep' = [cep EXCEPT !.item = << >>, !.ignore = CepItem.kind = "IGN_START"]
  /\ Return("BUSY") /\ NoTransfer /\ UNCHANGED cepHist

Passing(item) == Forwarding(item) /\ item.kind # "PHONE"
RoomToKeep(item) == Len(cep.headx) < MaxHeadx /\ cep.cbuf + item.len < MaxCbuf

\* Nothing is to be smoothed: the item goes out at once.
CepPass ==
  /\ Parsing /\ Passing(CepItem) /\ cep.write = 0
  /\ cep' = [cep EXCEPT !.out = << CepItem >>, !.follow = "PARSE", !.item = << >>]
  /\ Leave("FEED", "BUSY") /\ NoTransfer /\ UNCHANGED cepHist

CepKeep ==
  /\ Parsing /\ Passing(CepItem) /\ cep.write > 0
  /\ ~EndsSentence(CepItem) /\ RoomToKeep(CepItem)
  /\ cep' = [cep EXCEPT !.headx = Append(@, [item |-> CepItem, frame |-> cep.write]),
                        !.cbuf = @ + CepItem.len, !.item = << >>]
  /\ Return("BUSY") /\ NoTransfer /\ UNCHANGED cepHist

\* A sentence end, or an item there is no room for.  It stays in inBuf.  Without a
\* sentence end activeEndPos is what it was, the size of the index buffers.
CepToSmooth ==
  /\ Parsing /\ Passing(CepItem) /\ cep.write > 0
  /\ EndsSentence(CepItem) \/ ~RoomToKeep(CepItem)
  /\ cep' = IF EndsSentence(CepItem) THEN [cep EXCEPT !.end = cep.write, !.sentenceEnd = TRUE] ELSE cep
  /\ Leave("SMOOTH", "BUSY") /\ NoTransfer /\ UNCHANGED cepHist

CepSmooth ==
  /\ Running("SMOOTH")
  /\ cep' = [cep EXCEPT !.read = 0]
  /\ Leave("FRAME", "BUSY") /\ NoTransfer /\ UNCHANGED cepHist

-----------------------------------------------------------------------------
\* (mutant) An item waits for the frame at its place.
ItemIsDueLate == cep.bottom < Len(cep.headx) /\ cep.headx[cep.bottom + 1].frame < cep.read

\* An item kept goes out when the frames before it have.
ItemIsDue == cep.bottom < Len(cep.headx) /\ cep.headx[cep.bottom + 1].frame <= cep.read

CepFrameItem ==
  /\ Running("FRAME") /\ ItemIsDue
  /\ cep' = [cep EXCEPT !.out = << cep.headx[cep.bottom + 1].item >>, !.bottom = @ + 1, !.follow = "FRAME"]
  /\ Leave("FEED", "BUSY") /\ NoTransfer /\ UNCHANGED cepHist

CepFrame ==
  /\ Running("FRAME") /\ ~ItemIsDue /\ cep.read < cep.end
  /\ cep' = [cep EXCEPT !.out = << FrameItem(cep.index[cep.read]) >>, !.read = @ + 1, !.follow = "FRAME"]
  /\ Leave("FEED", "BUSY") /\ NoTransfer /\ UNCHANGED cepHist

\* (mutant) The indices of the sentence stay.
NewSentenceStays(c) ==
  [c EXCEPT !.sentenceEnd = FALSE, !.read = 0, !.end = MaxWinLen,
            !.headx = << >>, !.bottom = 0, !.cbuf = 0]

NewSentence(c) ==
  [c EXCEPT !.sentenceEnd = FALSE, !.read = 0, !.write = 0, !.end = MaxWinLen,
            !.headx = << >>, !.bottom = 0, !.cbuf = 0]

CepFrameEnd ==
  /\ Running("FRAME") /\ ~ItemIsDue /\ cep.read >= cep.end
  /\ cep' = IF cep.sentenceEnd THEN NewSentence(cep) ELSE cep
  /\ Leave("PARSE", "BUSY") /\ NoTransfer /\ UNCHANGED cepHist

CepFeed ==
  /\ Running("FEED") /\ Put(cep.out[1])
  /\ cep' = [cep EXCEPT !.out = << >>]
  /\ cepHist' = [cepHist EXCEPT !.put = Append(@, cep.out[1])]
  /\ Leave(cep.follow, "BUSY")

CepFeedFull ==
  /\ Running("FEED") /\ ~Room
  /\ Return("OUT_FULL") /\ NoTransfer /\ UNCHANGED << cep, cepHist >>

CepParse == CepEmpty \/ CepIgnored \/ CepPhone \/ CepIgnoreMark \/ CepPass \/ CepKeep \/ CepToSmooth
CepStep ==
  CepCollect \/ CepIdle \/ CepParse \/ CepSmooth \/ CepFrameItem \/ CepFrame \/ CepFrameEnd
    \/ CepFeed \/ CepFeedFull

CepReset ==
  /\ UnitReset("COLLECT")
  /\ cep' = NewCep(cep.index, cep.follow) /\ cepHist' = NewCepHist

CepNext ==
  \/ CepStep
  \/ (Call \/ Arrive(CepInputs) \/ Fetch) /\ UNCHANGED << cep, cepHist >>
  \/ CepReset

CepSpec == CepInit /\ [][CepNext]_cepVars

-----------------------------------------------------------------------------
(* What goes out are the frames of the phones and the other items, each     *)
(* once and in the order in which their items came in, up to the longest    *)
(* sentence that can be smoothed; with signals ignored between the marks    *)
(* that say so.  When a sentence has ended and the unit collects again,     *)
(* nothing has been kept (cepStep).                                         *)
FramesInOrder ==
  /\ IsPrefix(cepHist.put, cepHist.due)
  /\ procState = "COLLECT" /\ cepHist.over => cepHist.put = cepHist.due

CepOwes == cepHist.over /\ cepHist.put # cepHist.due
=============================================================================
