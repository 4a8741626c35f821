----------------------------- MODULE MCSentPho ------------------------------
(* Sentences for the sentence phonology, for TLC: statements of up to MaxT  *)
(* items with weak and strong bounds, up to MaxP items with commands, and   *)
(* questions longer than a window with pauses between their words.          *)
EXTENDS SentPho

CONSTANTS MaxT, MaxP,       \* items in texts of sorts T and P
          MaxCmd            \* the last place for a command in sort P, and the commands in sort Q

MCItem(kind, type, len) ==
  [kind |-> kind, type |-> type, time |-> 0, acc |-> "NA", tag |-> "NA", phones |-> << >>, len |-> len]
MCWord(len) ==
  [MCItem("WORD", "NA", len) EXCEPT !.acc = "ACC1", !.tag = "n", !.phones = << "h", "b", "-", "'", "a" >>]
MCShort == [MCWord(1) EXCEPT !.phones = << "a" >>]
MCSil(time) == [MCItem("SIL", "NA", 1) EXCEPT !.time = time]
MCCmds == {MCItem(kind, "NA", 1) : kind \in {"MARK", "PLAY", "IGNEND"}} \union {MCSil(0), MCSil(20)}
MCPauses == {MCSil(20), MCSil(40000), MCItem("PLAY", "NA", 1)}
MCEnds == {MCItem(kind, "NA", 0) : kind \in SentEnd}
MCBegins == {MCItem("SBEG", type, 0) : type \in {"T", "P", "Q"}}
MCPhrases == {MCItem("PHR1", "Q", 0), MCItem("PHR3", "Q", 0)}
MCSpItems ==
  MCCmds \union MCPauses \union MCEnds \union MCBegins \union MCPhrases
    \union {MCShort, MCWord(1), MCWord(3), MCItem("MARK", "NA", 0)}

MCSort(s) == s[LastWith(s, {"SBEG"})].type
MCCommands(s) == Cardinality({n \in DOMAIN s : s[n] \in MCPauses})
MCInputs(s) ==
  LET last == IF s = << >> THEN "TERM" ELSE Last(s).kind
      size == Len(s)
  IN CASE s = << >> -> MCBegins
       [] \E n \in DOMAIN s : s[n].type = "P" /\ s[n].kind = "SBEG" /\ size >= MaxP -> {}
       [] MCSort(s) = "Q" ->
            CASE last = "SEND" -> {}
              [] size > SpMaxHeadx -> {MCItem("SEND", "NA", 0)}
              [] OTHER -> {MCShort} \union
                   (IF size \in 3 .. 5 /\ MCCommands(s) < MaxCmd THEN MCPauses ELSE {})
       [] size >= MaxT -> {}
       [] last = "TERM" -> MCBegins \ {MCItem("SBEG", "Q", 0)}
       [] last = "SEND" -> (MCBegins \ {MCItem("SBEG", "Q", 0)}) \union {MCItem("TERM", "NA", 0)}
       [] OTHER ->
            {MCWord(3)}
              \union (IF last \in {"SBEG", "PHR1", "PHR3"} THEN {} ELSE MCEnds \union MCPhrases)
              \union (IF MCSort(s) = "P" /\ size <= MaxCmd THEN MCCmds ELSE {})

\* Marks at the beginning of a sentence, as many as there is room for.
MCMarks(s) ==
  CASE s = << >> -> {MCItem("SBEG", "T", 0)}
    [] Len(s) \in 1 .. SpMaxHeadx - 1 -> {MCItem("MARK", "NA", 0)}
    [] Last(s).kind = "MARK" -> {MCWord(1)}
    [] OTHER -> {MCItem("SEND", "NA", 0)}

Same3 == [x \in {"PHR0", "PHR1", "PHR2", "PHR3"} |-> x]
MCStrengths == {Same3, [Same3 EXCEPT !["PHR0"] = "PHR2"], [x \in DOMAIN Same3 |-> "PHR0"]}
=============================================================================
