-------------------------------- MODULE Heap --------------------------------
(***************************************************************************)
(* What the memory manager promises its callers (picoos.h, allocate and    *)
(* deallocate): blocks that do not overlap, and a refusal only when there  *)
(* is no room.  It knows nothing of cells, headers and lists.              *)
(***************************************************************************)
EXTENDS Integers

CONSTANTS
  Base, Limit,   \* blocks lie in Base .. Limit - 1
  Room(_),       \* bytes set aside for a request
  Slack,         \* bytes that bookkeeping may cost a request
  Requests       \* sizes that callers ask for

VARIABLES
  live,          \* blocks allocated and not yet freed: [adr, len]
  ret            \* the last call: [call, arg, adr], adr is its answer

heapVars == << live, ret >>

NULL == 0

\* The len bytes from a on lie in the memory, apart from every live block.
Vacant(a, len) ==
  /\ a + len <= Limit
  /\ \A b \in live : a + len <= b.adr \/ b.adr + b.len <= a

Answered(call, arg, adr) == ret' = [call |-> call, arg |-> arg, adr |-> adr]

Init == live = {} /\ ret = [call |-> "none", arg |-> NULL, adr |-> NULL]

Grant(n) ==
  \E a \in Base .. Limit :
    /\ Vacant(a, Room(n))
    /\ live' = live \cup {[adr |-> a, len |-> Room(n)]}
    /\ Answered("allocate", Room(n), a)

\* A request is refused only if it would not fit even with bookkeeping.
Refuse(n) ==
  /\ \A a \in Base .. Limit : ~Vacant(a, Room(n) + Slack)
  /\ Answered("allocate", Room(n), NULL)
  /\ UNCHANGED live

Free(b) == live' = live \ {b} /\ Answered("deallocate", b.adr, NULL)

FreeNull == Answered("deallocate", NULL, NULL) /\ UNCHANGED live

Next ==
  \/ \E n \in Requests : Grant(n) \/ Refuse(n)
  \/ \E b \in live : Free(b)
  \/ FreeNull

Spec == Init /\ [][Next]_heapVars
=============================================================================
