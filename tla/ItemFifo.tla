------------------------------ MODULE ItemFifo ------------------------------
(***************************************************************************)
(* What a buffer between two processing units promises (picodata.h, the    *)
(* comments of picodata_cbGetItem, cbGetSpeechData and cbPutItem): a queue *)
(* of whole items bounded by the bytes they take.  An item is put entirely *)
(* or not at all and comes out as it was put.  The error "not empty, but   *)
(* no valid item" of the getters does not exist here: a consumer never     *)
(* meets half an item.                                                     *)
(***************************************************************************)
EXTENDS Integers, Sequences

CONSTANTS Size, HEADSIZE, FRAME, Items, BufLens

VARIABLES
  q,      \* the items, oldest first
  used,   \* bytes they take
  ret     \* result of the last call

Answer(op, rc, out) == ret' = [op |-> op, rc |-> rc, out |-> out]

Init ==
  /\ q = << >>
  /\ used = 0
  /\ ret = [op |-> "new", rc |-> "OK", out |-> << >>]

Reset == q' = << >> /\ used' = 0 /\ Answer("reset", "OK", << >>)

Put(it, blenmax) ==
  \/ /\ used + Len(it) <= Size /\ Len(it) <= blenmax
     /\ q' = Append(q, it) /\ used' = used + Len(it)
     /\ Answer("putItem", "OK", << >>)
  \/ /\ used + Len(it) > Size
     /\ UNCHANGED << q, used >>
     /\ Answer("putItem", "OVERFLOW", << >>)
  \/ /\ Len(it) > blenmax
     /\ UNCHANGED << q, used >>
     /\ Answer("putItem", "UNDERFLOW", << >>)

GetOp(issd) == IF issd THEN "getSpeechData" ELSE "getItem"

\* Speech data is a FRAME item without its header.
Payload(it, issd) ==
  IF issd THEN [i \in 1 .. Len(it) - HEADSIZE |-> it[i + HEADSIZE]] ELSE it

GetNothing(issd) ==
  /\ q = << >>
  /\ UNCHANGED << q, used >>
  /\ Answer(GetOp(issd), "EOF", << >>)

Get(issd, blenmax) ==
  /\ q # << >>
  /\ \/ /\ issd /\ Head(q)[1] # FRAME
        /\ q' = Tail(q) /\ used' = used - Len(Head(q))
        /\ Answer(GetOp(issd), "OK", << >>)
     \/ /\ issd => Head(q)[1] = FRAME
        /\ Len(Head(q)) <= blenmax
        /\ q' = Tail(q) /\ used' = used - Len(Head(q))
        /\ Answer(GetOp(issd), "OK", Payload(Head(q), issd))
     \/ /\ issd => Head(q)[1] = FRAME
        /\ Len(Head(q)) > blenmax
        /\ UNCHANGED << q, used >>
        /\ Answer(GetOp(issd), "OVERFLOW", << >>)

Next ==
  \/ Reset
  \/ \E it \in Items, n \in BufLens : Put(it, n)
  \/ \E issd \in BOOLEAN : GetNothing(issd)
  \/ \E issd \in BOOLEAN, n \in BufLens : Get(issd, n)

Spec == Init /\ [][Next]_<< q, used, ret >>
=============================================================================
