------------------------------ MODULE MCSignal ------------------------------
(* The two units that make sound of phones, one of them at a time, for TLC. *)
EXTENDS Cep, Sig

CONSTANT Units          \* the units to be looked at

VARIABLE on             \* the unit

MCCepItem(kind, len, states) == [kind |-> kind, len |-> len, states |-> states]
MCMark == MCCepItem("OTHER", 1, << >>)
MCPhone == MCCepItem("PHONE", 12, << 1, 2 >>)
MCShortPhone == MCCepItem("PHONE", 12, << 0, 1 >>)
MCCepInputs ==
  {MCPhone, MCShortPhone, MCMark, MCCepItem("SEND", 0, << >>), MCCepItem("TERM", 0, << >>),
   MCCepItem("IGN_START", 0, << >>), MCCepItem("IGN_END", 0, << >>)}

MCSigItem(kind, info2, name, val) == [kind |-> kind, info2 |-> info2, name |-> name, val |-> val]
MCTune == << "tune", ".wav" >>
MCReadable == MCTune :> 3
MCWritable == {MCTune}
MCSigInputs ==
  {MCSigItem("FRAME_PAR", "NA", << >>, 0), MCSigItem("OTHER", "NA", << >>, 0),
   MCSigItem("VOLUME", "r", << >>, 800), MCSigItem("PLAY", "TO_SIG", MCTune, 0),
   MCSigItem("SAVE", "TO_SIG", MCTune, 0), MCSigItem("SAVE", "TO_SIG", << "tune" >>, 0),
   MCSigItem("UNSAVE", "TO_SIG", << >>, 0)}

SignalInit == on \in Units /\ CepInit /\ SigInit

SignalNext ==
  \/ on = "cep" /\ CepNext /\ UNCHANGED << sig, disk, sigHist, on >>
  \/ on = "sig" /\ SigNext /\ UNCHANGED << cep, cepHist, on >>

\* The control unit calls the unit again and again, and after OUT_FULL the unit
\* behind, or the application, fetches (ctrlStep); a running call disables that.
SignalStep ==
  \/ /\ on = "cep" /\ UNCHANGED << sig, disk, sigHist, on >>
     /\ CepStep \/ (Call /\ UNCHANGED << cep, cepHist >>)
  \/ /\ on = "sig" /\ UNCHANGED << cep, cepHist, on >>
     /\ SigStep \/ SigCall
SignalFetch == Fetch /\ UNCHANGED << cep, cepHist, sig, disk, sigHist, on >>

signalVars == << unitVars, cep, cepHist, sig, disk, sigHist, on >>
SignalSpec ==
  SignalInit /\ [][SignalNext]_signalVars /\ WF_signalVars(SignalStep) /\ SF_signalVars(SignalFetch)

(* What is due goes out in the end: after a sentence end all that has come, *)
(* with a file that is played all of it (cepStep, sigStep).                 *)
SignalGetsOut == CepOwes \/ SigOwes ~> ~(CepOwes \/ SigOwes)
=============================================================================
