------------------------------ MODULE CharFifo ------------------------------
(***************************************************************************)
(* What the engine's text buffer promises (picodata.h, "CharBuffer"): a    *)
(* queue of at most Size characters.                                       *)
(***************************************************************************)
EXTENDS Integers, Sequences

CONSTANTS Size, Chars
VARIABLES q, ret

Answer(op, rc, out) == ret' = [op |-> op, rc |-> rc, out |-> out]

Init == q = << >> /\ ret = [op |-> "new", rc |-> "OK", out |-> << >>]

Reset == q' = << >> /\ Answer("reset", "OK", << >>)

PutCh(ch) ==
  \/ Len(q) < Size /\ q' = Append(q, ch) /\ Answer("putCh", "OK", << >>)
  \/ Len(q) = Size /\ q' = q /\ Answer("putCh", "OVERFLOW", << >>)

GetCh ==
  \/ q # << >> /\ q' = Tail(q) /\ Answer("getCh", "OK", << Head(q) >>)
  \/ q = << >> /\ q' = q /\ Answer("getCh", "EOF", << >>)

Next == Reset \/ GetCh \/ \E ch \in Chars : PutCh(ch)

Spec == Init /\ [][Next]_<< q, ret >>
=============================================================================
