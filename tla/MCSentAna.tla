----------------------------- MODULE MCSentAna ------------------------------
(* SentAna for TLC: the items that arrive.                                  *)
EXTENDS SentAna

Words == {[kind |-> "WORDGRAPH", len |-> 1], [kind |-> "WORDINDEX", len |-> 2]}
Ends == {[kind |-> "PUNC", len |-> 0], [kind |-> "CMD_FLUSH", len |-> 0]}
Commands == {[kind |-> "CMD_PHONEME", len |-> 2], [kind |-> "OTHER", len |-> 0]}

MCInputs == Words \union Ends \union Commands
=============================================================================
