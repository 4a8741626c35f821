------------------------------ MODULE ProcUnit ------------------------------
(***************************************************************************)
(* What the processing units have in common (struct                        *)
(* picodata_processing_unit): a char buffer of items before and one behind *)
(* the unit, and a step function the control unit calls.  A call runs from *)
(* Call to a Return; the other units and the application act only between  *)
(* calls.  An item that arrives has a number, id, by which it is told from *)
(* the others.                                                             *)
(***************************************************************************)
EXTENDS Integers, Sequences, TLC

CONSTANTS
  InCap, OutCap,   \* items in the char buffers before and behind the unit
  MaxItems         \* bound on the items that arrive

VARIABLES
  cbIn, cbOut,     \* the items in the char buffers
  procState,       \* the phase of the unit
  status,          \* "running", or what the last call returned
  fed              \* how many items arrived so far

unitVars == << cbIn, cbOut, procState, status, fed >>

Made == 0          \* the id of items a unit makes itself

UnitInit(phase) ==
  /\ cbIn = << >> /\ cbOut = << >> /\ fed = 0
  /\ procState = phase /\ status = "IDLE"

(* Within a call. *)
Running(phase) == status = "running" /\ procState = phase
Stay == UNCHANGED << procState, status >>
Go(phase) == procState' = phase /\ UNCHANGED status
Return(st) == status' = st /\ UNCHANGED procState
Leave(phase, st) == procState' = phase /\ status' = st
Take == cbIn # << >> /\ cbIn' = Tail(cbIn) /\ UNCHANGED << cbOut, fed >>
Room == Len(cbOut) < OutCap
Put(item) == Room /\ cbOut' = Append(cbOut, item) /\ UNCHANGED << cbIn, fed >>
NoTransfer == UNCHANGED << cbIn, cbOut, fed >>

(* Between calls: the call, the unit before, the unit behind, a reset. *)
Call == status # "running" /\ status' = "running" /\ UNCHANGED << cbIn, cbOut, procState, fed >>

Numbered(in, n) == [f \in DOMAIN in \cup {"id"} |-> IF f = "id" THEN n ELSE in[f]]

Arrive(inputs) ==
  /\ status # "running" /\ Len(cbIn) < InCap /\ fed < MaxItems
  /\ \E in \in inputs : cbIn' = Append(cbIn, Numbered(in, fed + 1))
  /\ fed' = fed + 1
  /\ UNCHANGED << cbOut, procState, status >>

Fetch ==
  /\ status # "running" /\ cbOut # << >>
  /\ cbOut' = Tail(cbOut)
  /\ UNCHANGED << cbIn, procState, status, fed >>

UnitReset(phase) ==
  /\ status # "running"
  /\ cbIn' = << >> /\ cbOut' = << >> /\ procState' = phase
  /\ UNCHANGED << status, fed >>

Ids(s) == [n \in DOMAIN s |-> s[n].id]
=============================================================================
