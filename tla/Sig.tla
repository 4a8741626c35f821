-------------------------------- MODULE Sig ---------------------------------
(***************************************************************************)
(* Signal generation (picosig.c): makes sound of the frames, the last of   *)
(* which it holds, plays sound files, and copies what it puts into sound   *)
(* files (picoos.c).                                                       *)
(*                                                                         *)
(* The computation is left out: a piece of sound stands for the frame or   *)
(* the place in the file it is made of, and the modifiers in force.  Every *)
(* piece has a number, nr, by which it is told from the others.            *)
(***************************************************************************)
EXTENDS ProcUnit, SequencesExt

CONSTANTS
  Half,            \* samples of a piece, hop_p / 2
  SdfBufLen,       \* samples in the buffer of a file, PICOOS_SDF_BUF_LEN
  Readable,        \* name :> samples of the sound files that can be played
  Writable,        \* names that can be opened for output
  MayFailToWrite,  \* may the file system refuse samples?
  MaxFile,         \* bound on the samples of a file whose pieces the output refuses
  SigInputs        \* [kind, info2, name, val] of the items that may arrive

\* Sound is made here, and arrives from no other unit.
ASSUME SigAssumption ==
  /\ Half \in Nat \ {0} /\ SdfBufLen \in Nat \ {0}
  /\ \A name \in DOMAIN Readable : Readable[name] \in Nat
  /\ \A in \in SigInputs :
       DOMAIN in = {"kind", "info2", "name", "val"} /\ in.kind # "FRAME" /\ in.val \in Int

VARIABLES
  sig,             \* sig_subobj_t and sig_innerobj_t
  disk,            \* files written: name :> [samples, head, open, broken, heard]
  sigHist          \* history: what is due, what was put

sigVars == << unitVars, sig, disk, sigHist >>

CepstBuffSize == 3        \* CEPST_BUFF_SIZE
NoFrame0 == 0             \* what is in a frame buffer before any frame came
NoFile == << >>
DummyLen == -1            \* the length in the header of a file not closed

(* The items in inBuf (none or one) and outBuf; where to go on behind FEED  *)
(* and in sigProcess; the last frames, oldest first, and how many there     *)
(* are; the files open for input and output; the modifiers.  A soft reset   *)
(* leaves frames and modifiers (sigDspInitialize).                          *)
NewSig ==
  [item |-> << >>, out |-> << >>, ret |-> "COLLECT", inner |-> 0,
   inFile |-> NoFile, pos |-> 0, outFile |-> NoFile, buf |-> << >>,
   frames |-> [i \in 1 .. CepstBuffSize |-> NoFrame0], available |-> 0,
   mods |-> [PITCH |-> 100, VOLUME |-> 50, SPEAKER |-> 100]]
SoftReset(s) == [NewSig EXCEPT !.frames = s.frames, !.available = s.available, !.mods = s.mods]

\* virtual: all frames there were, the first as often as it is needed.
NewSigHist(virtual) == [due |-> << >>, put |-> << >>, virtual |-> virtual, nr |-> 0]
Loaded(s) == SubSeq(s.frames, CepstBuffSize - s.available + 1, CepstBuffSize)

SigInit ==
  /\ UnitInit("COLLECT")
  /\ sig = NewSig /\ disk = << >> /\ sigHist = NewSigHist(<< >>)

-----------------------------------------------------------------------------
Piece(of, mods, nr) == [kind |-> "FRAME", id |-> Made, of |-> of, mods |-> mods, nr |-> nr]
TwoPieces(frame, mods, nr) ==
  << Piece(<< frame, 1 >>, mods, nr + 1), Piece(<< frame, 2 >>, mods, nr + 2) >>
\* A piece of a file: its name, and the first and last sample.
FilePiece(name, from, to, mods, nr) == Piece(<< name, from, to >>, mods, nr)

IsWav(name) == name # << >> /\ name[Len(name)] = ".wav"
DealWith(item) ==
  \/ item.kind \in {"FRAME_PAR", "PITCH", "VOLUME", "SPEAKER"}
  \/ item.kind \in {"PLAY", "SAVE", "UNSAVE"} /\ item.info2 = "TO_SIG"

\* May the file be played: it is not the one that is written, by as many characters
\* as its name has, and can be opened.
Plays(name) == (sig.outFile = NoFile \/ ~IsPrefix(name, sig.outFile)) /\ name \in DOMAIN Readable
FilePieces(name, mods, nr) ==
  [n \in 1 .. (Readable[name] + Half - 1) \div Half |->
     FilePiece(name, Half * (n - 1) + 1,
               IF Half * n <= Readable[name] THEN Half * n ELSE Readable[name], mods, nr + n)]

(* History: what an item that is taken should give: two pieces of the frame *)
(* that came two before, or of the first; a file, piece by piece; other     *)
(* items themselves.                                                        *)
SigDue(item, h, s) ==
  LET first == IF Len(h.virtual) < 3 THEN 3 - Len(h.virtual) ELSE 1
      virtual == h.virtual \o [n \in 1 .. first |-> item.id]
      of == virtual[Len(virtual) - 2]
  IN CASE ~DealWith(item) -> [h EXCEPT !.due = Append(@, item)]
       [] item.kind = "FRAME_PAR" ->
            [h EXCEPT !.due = @ \o TwoPieces(of, s.mods, h.nr), !.virtual = virtual, !.nr = @ + 2]
       [] DealWith(item) /\ item.kind = "PLAY" /\ Plays(item.name) ->
            LET pieces == FilePieces(item.name, s.mods, h.nr)
            IN [h EXCEPT !.due = @ \o pieces, !.nr = @ + Len(pieces)]
       [] OTHER -> h

SigCollect ==
  /\ Running("COLLECT") /\ Take
  /\ sig' = [sig EXCEPT !.item = << Head(cbIn) >>]
  /\ sigHist' = SigDue(Head(cbIn), sigHist, sig)
  /\ Leave("SCHEDULE", "ATOMIC") /\ UNCHANGED disk

SigIdle ==
  /\ Running("COLLECT") /\ cbIn = << >>
  /\ Return("IDLE") /\ NoTransfer /\ UNCHANGED << sig, disk, sigHist >>

Scheduled(kinds) == Running("SCHEDULE") /\ sig.item[1].kind \in kinds /\ DealWith(sig.item[1])
SigItem == sig.item[1]
Consumed == [sig EXCEPT !.item = << >>, !.ret = "COLLECT"]

SigForward ==
  /\ Running("SCHEDULE") /\ ~DealWith(SigItem)
  /\ sig' = [Consumed EXCEPT !.out = << SigItem >>]
  /\ Leave("FEED", "BUSY") /\ NoTransfer /\ UNCHANGED << disk, sigHist >>

SigFrame ==
  /\ Scheduled({"FRAME_PAR"})
  /\ sig' = [sig EXCEPT !.ret = "COLLECT"]
  /\ Leave("PROCESS", "BUSY") /\ NoTransfer /\ UNCHANGED << disk, sigHist >>

\* A value is in percent, or with "r" per mill.
SigModify ==
  /\ Scheduled({"PITCH", "VOLUME", "SPEAKER"})
  /\ sig' = IF SigItem.info2 \in {"a", "r"}
            THEN [Consumed EXCEPT !.mods[SigItem.kind] =
                    IF SigItem.info2 = "a" THEN SigItem.val ELSE SigItem.val \div 10]
            ELSE Consumed
  /\ Leave("COLLECT", "BUSY") /\ NoTransfer /\ UNCHANGED << disk, sigHist >>

SigPlay ==
  /\ Scheduled({"PLAY"})
  /\ IF Plays(SigItem.name)
     THEN sig' = [Consumed EXCEPT !.inFile = SigItem.name, !.pos = 0, !.ret = "PLAY"] /\ Leave("PLAY", "BUSY")
     ELSE sig' = Consumed /\ Leave("COLLECT", "BUSY")
  /\ NoTransfer /\ UNCHANGED << disk, sigHist >>

\* heard is what should be in the file (history).
NewOut == [samples |-> << >>, head |-> DummyLen, open |-> TRUE, broken |-> FALSE, heard |-> << >>]

\* A file of that name is written anew.
SigSave ==
  /\ Scheduled({"SAVE"})
  /\ LET opens == sig.outFile = NoFile /\ IsWav(SigItem.name) /\ SigItem.name \in Writable
     IN IF opens
        THEN /\ sig' = [Consumed EXCEPT !.outFile = SigItem.name, !.buf = << >>]
             /\ disk' = [name \in DOMAIN disk \cup {SigItem.name} |->
                           IF name = SigItem.name THEN NewOut ELSE disk[name]]
        ELSE sig' = Consumed /\ UNCHANGED disk
  /\ Leave("COLLECT", "BUSY") /\ NoTransfer /\ UNCHANGED sigHist

-----------------------------------------------------------------------------
(* Sound files.  Samples are written when the buffer is full, and with the  *)
(* last ones and the length in the header when the file is closed.          *)
Samples(piece) ==
  LET size == IF Len(piece.of) = 3 THEN piece.of[3] - piece.of[2] + 1 ELSE Half
  IN [k \in 1 .. size |-> << piece.nr, k >>]

\* (mutant) The samples in the buffer are not written.
ClosedShort(name, buf) == [disk EXCEPT ![name].head = Len(disk[name].samples \o buf), ![name].open = FALSE]

\* picoos_sdfCloseOut
Closed(name, buf) ==
  [disk EXCEPT ![name].samples = @ \o buf, ![name].head = Len(disk[name].samples \o buf), ![name].open = FALSE]

\* The file system refuses samples.  At the end nobody is told.
Broken(name) == [disk EXCEPT ![name].open = FALSE, ![name].broken = TRUE]

\* What a full buffer leaves behind: the part that is written, and the rest.
Flushed(all) == SubSeq(all, 1, SdfBufLen * (Len(all) \div SdfBufLen))
Kept(all) == SubSeq(all, Len(Flushed(all)) + 1, Len(all))

SigUnsave ==
  /\ Scheduled({"UNSAVE"})
  /\ IF sig.outFile = NoFile
     THEN sig' = Consumed /\ UNCHANGED disk
     ELSE /\ sig' = [Consumed EXCEPT !.outFile = NoFile, !.buf = << >>]
          /\ \/ disk' = Closed(sig.outFile, sig.buf)
             \/ MayFailToWrite /\ sig.buf # << >> /\ disk' = Broken(sig.outFile)
  /\ Leave("COLLECT", "BUSY") /\ NoTransfer /\ UNCHANGED sigHist

-----------------------------------------------------------------------------
(* sigProcess.  The frame that comes is put behind the others; as long as   *)
(* there are less than three, it is put there again.                        *)
\* (mutant) The first frame goes on at once.
ShiftDoneAtOnce(available) == TRUE

ShiftDone(available) == available = CepstBuffSize

SigShift ==
  /\ Running("PROCESS") /\ sig.inner = 0
  /\ LET available == IF sig.available < CepstBuffSize THEN sig.available + 1 ELSE CepstBuffSize
     IN sig' = [sig EXCEPT !.frames = Append(Tail(@), SigItem.id), !.available = available,
                           !.inner = IF ShiftDone(available) THEN 3 ELSE 0]
  /\ Return("BUSY") /\ NoTransfer /\ UNCHANGED << disk, sigHist >>

\* Spectrum, phases, envelope, impulse response, excitation, overlap.
SigCompute ==
  /\ Running("PROCESS") /\ sig.inner \in 3 .. 8
  /\ sig' = [sig EXCEPT !.inner = @ + 1]
  /\ Return("BUSY") /\ NoTransfer /\ UNCHANGED << disk, sigHist >>

SigSound ==
  /\ Running("PROCESS") /\ sig.inner = 9
  /\ sig' = [Consumed EXCEPT !.inner = 0,
                             !.out = TwoPieces(sig.frames[1], sig.mods, sigHist.nr - 2)]
  /\ Leave("FEED", "BUSY") /\ NoTransfer /\ UNCHANGED << disk, sigHist >>

SigFilePiece ==
  /\ Running("PLAY") /\ sig.pos < Readable[sig.inFile]
  /\ LET all == FilePieces(sig.inFile, sig.mods, 0)
         n == sig.pos \div Half + 1
     IN sig' = [sig EXCEPT !.out = << [all[n] EXCEPT !.nr = sigHist.nr - Len(all) + n] >>,
                           !.pos = all[n].of[3], !.ret = "PLAY"]
  /\ Leave("FEED", "BUSY") /\ NoTransfer /\ UNCHANGED << disk, sigHist >>

SigFileEnd ==
  /\ Running("PLAY") /\ sig.pos = Readable[sig.inFile]
  /\ sig' = [sig EXCEPT !.inFile = NoFile, !.ret = "COLLECT"]
  /\ Leave("COLLECT", "BUSY") /\ NoTransfer /\ UNCHANGED << disk, sigHist >>

-----------------------------------------------------------------------------
(* FEED.  While a file is open for output, sound is put into it first, at   *)
(* every attempt.                                                           *)
Saving == sig.outFile # NoFile /\ sig.out[1].kind = "FRAME"
All == sig.buf \o Samples(sig.out[1])
ToFile == [disk EXCEPT ![sig.outFile].samples = @ \o Flushed(All)]
Heard(d) == [d EXCEPT ![sig.outFile].heard = @ \o Samples(sig.out[1])]
PutOne(s) == [s EXCEPT !.out = Tail(@)]

SigFeed ==
  /\ Running("FEED") /\ Put(sig.out[1])
  /\ IF Saving THEN disk' = Heard(ToFile) /\ sig' = [PutOne(sig) EXCEPT !.buf = Kept(All)]
               ELSE sig' = PutOne(sig) /\ UNCHANGED disk
  /\ sigHist' = [sigHist EXCEPT !.put = Append(@, sig.out[1])]
  /\ Leave(IF Len(sig.out) = 1 THEN sig.ret ELSE "FEED", "BUSY")

SigFeedFull ==
  /\ Running("FEED") /\ ~Room
  /\ IF Saving THEN disk' = ToFile /\ sig' = [sig EXCEPT !.buf = Kept(All)] ELSE UNCHANGED << sig, disk >>
  /\ Return("OUT_FULL") /\ NoTransfer /\ UNCHANGED sigHist

\* The samples of a full buffer are refused: the file is closed, and all of outBuf
\* is lost.
SigFeedBroken ==
  /\ Running("FEED") /\ Saving /\ MayFailToWrite /\ Flushed(All) # << >>
  /\ disk' = Broken(sig.outFile)
  /\ sig' = [sig EXCEPT !.out = << >>, !.outFile = NoFile, !.buf = << >>]
  /\ sigHist' = [sigHist EXCEPT !.due = SubSeq(@, 1, Len(sigHist.put))
                                          \o SubSeq(@, Len(sigHist.put) + Len(sig.out) + 1, Len(@))]
  /\ Leave(sig.ret, "ERROR") /\ NoTransfer

\* The unit is called again though there is no room behind it (bounded).
SigCall ==
  /\ procState = "FEED" /\ Saving /\ ~Room => Len(disk[sig.outFile].samples) < MaxFile
  /\ Call /\ UNCHANGED << sig, disk, sigHist >>

SigStep ==
  SigCollect \/ SigIdle \/ SigForward \/ SigFrame \/ SigModify \/ SigPlay \/ SigSave \/ SigUnsave
    \/ SigShift \/ SigCompute \/ SigSound \/ SigFilePiece \/ SigFileEnd
    \/ SigFeed \/ SigFeedFull \/ SigFeedBroken

\* A file that is open for output is forgotten, not closed.
SigReset(full) ==
  /\ UnitReset("COLLECT")
  /\ sig' = IF full THEN NewSig ELSE SoftReset(sig)
  /\ sigHist' = NewSigHist(IF full THEN << >> ELSE Loaded(sig))
  /\ UNCHANGED disk

SigNext ==
  \/ SigStep \/ SigCall
  \/ (Arrive(SigInputs) \/ Fetch) /\ UNCHANGED << sig, disk, sigHist >>
  \/ \E full \in BOOLEAN : SigReset(full)

SigSpec == SigInit /\ [][SigNext]_sigVars

-----------------------------------------------------------------------------
(* Every frame gives two pieces of sound, of the frame two before it, with  *)
(* the modifiers set before it, files are played from their first sample to *)
(* the last, and other items keep their place between them: whatever the    *)
(* output refuses, and whatever was stopped by a reset (sigStep,            *)
(* sigProcess). When a file refuses the sound, all that waits in outBuf is  *)
(* dropped, and is no longer due (SigFeedBroken).                           *)
SoundInOrder ==
  /\ IsPrefix(sigHist.put, sigHist.due)
  /\ procState = "COLLECT" => sigHist.put = sigHist.due

(* A file that was closed has in it what went out while it was open, in     *)
(* that order, and its header has its length.  A piece the output refused   *)
(* is in it more than once (picosig.c, FEED).                               *)
FilesComplete ==
  \A name \in DOMAIN disk :
    LET file == disk[name]
    IN ~file.open /\ ~file.broken =>
         /\ file.head = Len(file.samples)
         /\ ToSet(file.samples) = ToSet(file.heard)
         /\ \A i, j \in DOMAIN file.samples : i < j => file.samples[i][1] <= file.samples[j][1]

SigOwes == sigHist.put # sigHist.due
=============================================================================
