------------------------------ MODULE MCAccPhr ------------------------------
(***************************************************************************)
(* For TLC: accentuation and phrasing with the items that arrive, or the   *)
(* knowledge bases that it and other units ask (MCKnowledge), one at a     *)
(* time.                                                                   *)
(***************************************************************************)
EXTENDS AccPhr, MCKnowledge

Contents == {[kind |-> "WORDPHON", info1 |-> "n", info2 |-> "NA", len |-> 1],
             [kind |-> "CMD", info1 |-> "m", info2 |-> "NA", len |-> 2]}
Ends == {[kind |-> "PUNC", info1 |-> "s", info2 |-> "Q", len |-> 0],
         [kind |-> "PUNC", info1 |-> "p", info2 |-> "P", len |-> 0],
         [kind |-> "CMD", info1 |-> "f", info2 |-> "NA", len |-> 0]}

MCInputs == Contents \union Ends

-----------------------------------------------------------------------------
know == << trVars, dtVars, on, given >>
phrKnowVars == << acphVars, know >>

PhrKnowInit ==
  /\ Init
  /\ \/ on = "acph" /\ given = 0 /\ NoTr /\ NoDt
     \/ KnowInit

PhrKnowNext ==
  \/ on = "acph" /\ Next /\ UNCHANGED know
  \/ KnowNext /\ UNCHANGED acphVars
  \/ on # "acph" /\ UNCHANGED phrKnowVars

\* The fairness of AccPhr; an answer of a knowledge base is one call.
PhrKnowSpec ==
  PhrKnowInit /\ [][PhrKnowNext]_phrKnowVars
    /\ WF_phrKnowVars(on = "acph" /\ Step /\ UNCHANGED know)
    /\ WF_phrKnowVars(on = "acph" /\ Call /\ UNCHANGED know)
    /\ WF_phrKnowVars(on = "acph" /\ Leave /\ UNCHANGED know)
=============================================================================
