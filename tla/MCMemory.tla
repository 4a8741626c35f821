------------------------------ MODULE MCMemory ------------------------------
(***************************************************************************)
(* What everything is kept in, one at a time, for TLC: the ring buffer in  *)
(* its two uses, for the text of the application and for items between     *)
(* units, and the memory manager.                                          *)
(***************************************************************************)
EXTENDS ItemBuffer, MemManager

VARIABLE on             \* "text", "items" or "memory"

\* Items of two types (102 is FRAME, 119 a word) with zero to three content bytes
\* behind a header of two: in a ring of seven they wrap in every position.
MCItems == {<< 102, 1, 7 >>, << 102, 0 >>, << 119, 2, 8, 9 >>, << 119, 3, 1, 2, 3 >>}

MemoryInit == on \in {"text", "items", "memory"} /\ IBInit /\ MemInit

MemoryNext ==
  \/ on = "text" /\ TextNext /\ UNCHANGED << items, at, memVars, on >>
  \/ on = "items" /\ IBNext /\ UNCHANGED << memVars, on >>
  \/ on = "memory" /\ Next /\ UNCHANGED << ibVars, on >>

memoryVars == << ibVars, memVars, on >>

\* The loop of picoos_allocate runs on (FairSpec of MemManager).
MemorySpec ==
  MemoryInit /\ [][MemoryNext]_memoryVars /\ WF_memoryVars(Search /\ UNCHANGED << ibVars, on >>)

-----------------------------------------------------------------------------
(* RefinesCharFifo and RefinesItemFifo of the behaviours that use the ring  *)
(* for text and for items: it is a bounded queue, of characters or of whole *)
(* items.  None is lost, doubled or moved by wrapping around the end of the *)
(* array, and a get never fails with half an item (picodata_cbPutCh,        *)
(* picodata_cbGetCh, picodata_cbPutItem, picodata_cbGetItem).               *)
RingIsQueue ==
  /\ Fifo!Init /\ [][on = "text" => Fifo!Next]_<< Contents, ret >>
  /\ IBFifo!Init /\ [][on = "items" => IBFifo!Next]_<< items, len, ret >>

(* RefinesHeap of the behaviours that use the memory manager: blocks do not *)
(* overlap, and a request is refused only when no gap takes it with its     *)
(* headers (picoos_allocate, picoos_deallocate).                            *)
MemoryIsHeap == H!Init /\ [][on = "memory" => H!Next]_<< LiveBlocks, answer >>
=============================================================================
