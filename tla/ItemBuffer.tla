----------------------------- MODULE ItemBuffer -----------------------------
(***************************************************************************)
(* CharBuffer used for items, as every processing unit uses its cbIn and   *)
(* cbOut, with a history of the items inside.  The history is written, and *)
(* never read, by the operations:                                          *)
(*   items   the items put and not yet taken, oldest first                 *)
(*   at      for each of them, the distance of its first byte from front   *)
(***************************************************************************)
EXTENDS CharBuffer

VARIABLES items, at

ibVars == << buf, front, rear, len, ret, items, at >>

IBInit == Init /\ items = << >> /\ at = << >>

IBReset == Reset /\ items' = << >> /\ at' = << >>

Remember(it) == items' = Append(items, it) /\ at' = Append(at, len)

Forget ==
  /\ items' = Tail(items)
  /\ at' = [i \in 1 .. Len(at) - 1 |-> at[i + 1] - HeadLen]

IBPutItem(it, blenmax) ==
  /\ PutItem(it, blenmax)
  /\ IF PutItemRc(it, blenmax) = "OK" THEN Remember(it) ELSE UNCHANGED << items, at >>

\* The history forgets the oldest item when the code drops as many bytes as
\* the length byte it reads says.
IBGetItem(issd, blenmax) ==
  /\ GetItem(issd, blenmax)
  /\ IF GetItemRc(issd, blenmax) = "OK" THEN Forget ELSE UNCHANGED << items, at >>

IBNext ==
  \/ IBReset
  \/ \E it \in Items, n \in BufLens : IBPutItem(it, n)
  \/ \E issd \in BOOLEAN, n \in BufLens : IBGetItem(issd, n)

IBSpec == IBInit /\ [][IBNext]_ibVars

-----------------------------------------------------------------------------
Offsets == 0 .. Size

(* The bytes of the buffer are exactly the bytes of the pending items, laid *)
(* end to end from front to rear: there is never half an item, a gap or a   *)
(* length byte that points elsewhere.                                       *)
Framed ==
  /\ items \in Seq(Items)
  /\ at \in Seq(Offsets)
  /\ Len(at) = Len(items)
  /\ items = << >> => len = 0
  /\ items # << >> =>
       /\ at[1] = 0
       /\ at[Len(at)] + Len(items[Len(items)]) = len
  /\ \A i \in 1 .. Len(items) :
       /\ at[i] + Len(items[i]) <= len
       /\ i < Len(items) => at[i + 1] = at[i] + Len(items[i])
       /\ \A k \in i + 1 .. Len(items) : at[i] + Len(items[i]) <= at[k]
       /\ \A j \in 1 .. Len(items[i]) : Cell(at[i] + j - 1) = items[i][j]

(* A getter never finds half an item: picodata_cbGetItem and                *)
(* picodata_cbGetSpeechData never answer PICO_EXC_BUF_UNDERFLOW, which      *)
(* the engine turns into PICO_STEP_ERROR.                                   *)
NoTornItem ==
  ret.op \in {"getItem", "getSpeechData"} => ret.rc # "UNDERFLOW"

IBFifo == INSTANCE ItemFifo WITH q <- items, used <- len

(* The ring implements the queue of whole items.                            *)
RefinesItemFifo == IBFifo!Spec
=============================================================================
