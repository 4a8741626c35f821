-------------------------------- MODULE Pipe --------------------------------
(***************************************************************************)
(* What a processing unit promises about the items that pass through it    *)
(* (picodata.h, the step results and the item buffers): they leave in the  *)
(* order in which they came, none twice, and none is lost but by a step    *)
(* that answers with an error, or by a reset.  A unit may make items       *)
(* itself, and may take the mark that ends a phrase for itself.            *)
(***************************************************************************)
EXTENDS Sequences

CONSTANTS
  Item,    \* the items that arrive and have to leave
  Ends,    \* marks that arrive and may go no further
  Made,    \* items the unit makes among those it holds
  Added    \* items the unit puts in between at its output

VARIABLES
  in, held, out,   \* items before, in and behind the unit, oldest first
  failed           \* did the last step end with an error

pipeVars == << in, held, out, failed >>

Init == in = << >> /\ held = << >> /\ out = << >> /\ failed = FALSE

Arrive(i) == in' = Append(in, i) /\ UNCHANGED << held, out, failed >>

Begin == failed' = FALSE /\ UNCHANGED << in, held, out >>

Accept ==
  /\ in # << >>
  /\ in' = Tail(in) /\ held' = Append(held, Head(in))
  /\ UNCHANGED << out, failed >>

Refuse ==
  /\ in # << >>
  /\ in' = Tail(in) /\ failed' = TRUE
  /\ UNCHANGED << held, out >>

Make(m) == held' = Append(held, m) /\ UNCHANGED << in, out, failed >>

Add(m) == out' = Append(out, m) /\ UNCHANGED << in, held, failed >>

\* The oldest item leaves the unit, with what the unit has put before it.
Deliver(before) ==
  /\ held # << >>
  /\ held' = Tail(held) /\ out' = out \o Append(before, Head(held))
  /\ UNCHANGED << in, failed >>

Consume ==
  /\ held # << >> /\ Head(held) \in Ends
  /\ held' = Tail(held)
  /\ UNCHANGED << in, out, failed >>

Leave == out # << >> /\ out' = Tail(out) /\ UNCHANGED << in, held, failed >>

Clear == in' = << >> /\ held' = << >> /\ out' = << >> /\ UNCHANGED failed

Next ==
  \/ \E i \in Item \union Ends : Arrive(i)
  \/ Begin \/ Accept \/ Refuse
  \/ \E m \in Made : Make(m)
  \/ \E m \in Added : Add(m)
  \/ Deliver(<< >>)
  \/ \E m \in Added : Deliver(<< m >>)
  \/ Consume \/ Leave \/ Clear

Spec == Init /\ [][Next]_pipeVars
=============================================================================
