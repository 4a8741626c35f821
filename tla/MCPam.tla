-------------------------------- MODULE MCPam -------------------------------
(* Sentences for the acoustic mapping, for TLC.  A sentence of type P has    *)
(* commands, one of type T or Q up to MaxSyll syllables with every kind of   *)
(* bound between them; what has begun ends.                                  *)
EXTENDS Pam

CONSTANTS MaxSyll, MaxP, MaxCmd     \* syllables; items and commands of a sentence with commands

MCItem(kind, type, len) ==
  [kind |-> kind, type |-> type, limits |-> << 0, 0 >>, len |-> len, phones |-> << >>, acc |-> 0,
   rel |-> FALSE, val |-> 0]
MCSyll(phones, acc) == [MCItem("SYLL", "NA", Len(phones)) EXCEPT !.phones = phones, !.acc = acc]
MCLow == MCSyll(<< "a" >>, 0)
MCHigh == MCSyll(<< "t", "a" >>, 1)
MCMid == MCSyll(<< "a", "t" >>, 3)
MCMark == MCItem("MARK", "NA", 9)
MCSlow == [MCItem("SPEED", "NA", 2) EXCEPT !.val = 25]
MCFast == [MCItem("SPEED", "NA", 2) EXCEPT !.val = 2000, !.rel = TRUE]
MCHigher == [MCItem("PITCH", "NA", 2) EXCEPT !.rel = TRUE]
MCPlay == MCItem("PLAY", "NA", 3)
MCShort == [MCItem("PHR1", "P", 4) EXCEPT !.limits = << 120, 120 >>]
MCLong == [MCShort EXCEPT !.limits = << 2000, 2000 >>]
MCEnd == MCItem("SEND", "NA", 0)
MCTerm == MCItem("TERM", "NA", 0)

MCBounds == {MCItem("PHR0", "P", 0), MCItem("PHR3", "P", 0), MCItem("PHR1", "Q", 0)}
MCPamItems ==
  {MCLow, MCHigh, MCMid, MCMark, MCSlow, MCFast, MCHigher, MCPlay, MCShort, MCLong, MCEnd, MCTerm}
    \cup {MCItem("SBEG", type, 0) : type \in {"P", "Q", "T"}} \cup MCBounds

MCCount(s, kinds) == Len(SelectSeq(s, LAMBDA item : item.kind \in kinds))
MCCmds == {"MARK", "SPEED", "PITCH", "PLAY"}

\* Nothing was spoken since the last bound.
MCOpen(s) == Last(SelectSeq(s, LAMBDA item : item.kind \in {"SYLL", "SBEG", "PHR1"})).kind # "SYLL"

\* With commands: what may stand in a sentence of type P.
MCCommanded(s) ==
  LET last == IF s = << >> THEN "none" ELSE Last(s).kind
      spoken == MCCount(s, {"SYLL"})
  IN CASE MCCount(s, {"SBEG"}) = 0 -> {MCItem("SBEG", "P", 0)}
       [] MCCount(s, {"SEND"}) > 0 -> IF last = "SEND" /\ MCCount(s, MCCmds) = 0 THEN {MCTerm} ELSE {}
       [] Len(s) >= MaxP -> IF MCOpen(s) THEN {MCHigh} ELSE {MCEnd}
       [] OTHER ->
            {MCHigh} \cup (IF MCOpen(s) THEN {} ELSE {MCEnd, MCShort, MCLong})
              \cup (IF MCCount(s, MCCmds) < MaxCmd /\ spoken < 2
                    THEN {MCMark, MCSlow}
                           \cup (IF MCCount(s, MCCmds) = 0 THEN {MCFast, MCPlay} ELSE {MCHigher})
                    ELSE {})

\* Without: the further on, the fewer kinds of syllables.
MCPlain(s) ==
  LET spoken == MCCount(s, {"SYLL"})
      most == IF s[1].type = "Q" THEN 2 ELSE MaxSyll
      next == IF spoken >= most THEN {} ELSE IF spoken < 2 THEN {MCLow, MCHigh, MCMid} ELSE {MCLow, MCHigh}
  IN IF Last(s).kind # "SYLL" THEN next
     ELSE next \cup {MCEnd} \cup (IF spoken < most THEN MCBounds ELSE {})

MCInputs(s) ==
  CASE s = << >> -> {MCItem("SBEG", "P", 0), MCItem("SBEG", "Q", 0), MCItem("SBEG", "T", 0), MCSlow, MCMark}
    [] s[1].id # 1 -> IF Last(s).kind = "SBEG" THEN {MCHigh} ELSE IF Last(s).kind = "SYLL" THEN {MCEnd} ELSE {}
    [] s[1].kind # "SBEG" \/ s[1].type = "P" -> MCCommanded(s)
    [] Last(s).kind = "SEND" -> {}
    [] OTHER -> MCPlain(s)

\* Durations by the place in the word, short when unstressed.
MCTree(v) ==
  IF v.P[3] = PausePhone THEN << 2, 8, 40, 8, 4 >>
  ELSE << 1, v.syl.B4, 3 + v.syl.B1, v.P6, 1 >>
=============================================================================
