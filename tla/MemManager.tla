----------------------------- MODULE MemManager -----------------------------
(***************************************************************************)
(* The memory manager (picoos.c): one block of memory, cut into cells that *)
(* lie end to end.  Every cell starts with a header (its size, negative    *)
(* while in use, and its left neighbour); the header of a free cell also   *)
(* links it into the list of free cells, where a cell in use holds the     *)
(* application's data.  The two outermost cells are sentinels of size 0.   *)
(*                                                                         *)
(* The domain of size is the set of cells, that of next the set of cells   *)
(* that have links: whatever a header would be read from elsewhere is the  *)
(* application's data.  The loop of picoos_allocate is one step per cell.  *)
(***************************************************************************)
EXTENDS Integers, FiniteSets

CONSTANTS
  Align,       \* PICOOS_ALIGN_SIZE
  FullHdr,     \* fullCellHdrSize, the aligned header with its links
  UsedHdr,     \* usedCellHdrSize, the header without them
  MgrSize,     \* sizeof(memory_manager_t)
  BlockHdr,    \* sizeof(mem_block_hdr_t)
  RawSize,     \* the memory the application gives, from address 0 on
  Requests     \* sizes that are asked for

NULL == 0

\* picoos_raw_malloc and the alignments in picoos_allocate.
RoundUp(n) == ((n + Align - 1) \div Align) * Align

MinCont == FullHdr - UsedHdr
MinCell == FullHdr + Align

\* The first and last sentinel, freeCells and lastFree, and the cell between
\* them, as picoos_newMemoryManager and os_init_mem_block place them.
Cbeg == RoundUp(MgrSize) + RoundUp(BlockHdr)
Cmid == Cbeg + FullHdr
Cend == RawSize - FullHdr

ASSUME MemAssumption ==
  /\ Align \in Nat \ {0} /\ FullHdr \in Nat /\ UsedHdr \in Nat
  /\ MgrSize \in Nat \ {0} /\ BlockHdr \in Nat \ {0} /\ RawSize \in Nat
  /\ 0 < UsedHdr /\ UsedHdr < FullHdr
  /\ FullHdr % Align = 0 /\ UsedHdr % Align = 0
  /\ Cmid + FullHdr <= Cend         \* taken for granted by os_init_mem_block
  /\ Requests \subseteq Nat

VARIABLES
  size, left,              \* cell -> header fields size and leftCell
  next, prev,              \* cell with links -> nextFree and prevFree
  usedSize, prevUsedSize, maxUsedSize,
  cellSize,                \* size of the cell picoos_allocate looks for, or 0
  cur,                     \* its cursor c
  answer                   \* the last call: [call, arg, adr], adr what it gave

memVars == << size, left, next, prev, usedSize, prevUsedSize, maxUsedSize, cellSize, cur, answer >>

Cells == DOMAIN size
Free(c) == size[c] > 0
InUse(c) == size[c] < 0
Running == cellSize # 0

Answered(call, arg, adr) == answer' = [call |-> call, arg |-> arg, adr |-> adr]

-----------------------------------------------------------------------------
MemInit ==
  /\ size = [c \in {Cbeg, Cmid, Cend} |-> IF c = Cmid THEN Cend - Cmid ELSE 0]
  /\ left = [c \in {Cbeg, Cmid, Cend} |->
               IF c = Cbeg THEN NULL ELSE IF c = Cmid THEN Cbeg ELSE Cmid]
  /\ next = [c \in {Cbeg, Cmid, Cend} |->
               IF c = Cbeg THEN Cmid ELSE IF c = Cmid THEN Cend ELSE NULL]
  /\ prev = [c \in {Cbeg, Cmid, Cend} |->
               IF c = Cbeg THEN NULL ELSE IF c = Cmid THEN Cbeg ELSE Cmid]
  /\ usedSize = 0 /\ prevUsedSize = 0 /\ maxUsedSize = 0
  /\ cellSize = 0 /\ cur = NULL
  /\ answer = [call |-> "none", arg |-> NULL, adr |-> NULL]

-----------------------------------------------------------------------------
(* picoos_allocate.                                                         *)
\* Bytes of content for a request of n.
Content(n) == RoundUp(IF n < MinCont THEN MinCont ELSE n)

Allocate(n) ==
  /\ ~Running
  /\ cellSize' = Content(n) + UsedHdr
  /\ cur' = next[Cbeg]
  /\ UNCHANGED << size, left, next, prev, usedSize, prevUsedSize, maxUsedSize, answer >>

Fits(c) == size[c] = cellSize \/ size[c] >= cellSize + MinCell

\* Mutant: the search goes around, past the last sentinel.
WalkAround ==
  /\ Running /\ cur # NULL /\ ~Fits(cur)
  /\ cur' = IF next[cur] = NULL THEN next[Cbeg] ELSE next[cur]
  /\ UNCHANGED << size, left, next, prev, usedSize, prevUsedSize, maxUsedSize, cellSize, answer >>

Walk ==
  /\ Running /\ cur # NULL /\ ~Fits(cur)
  /\ cur' = next[cur]
  /\ UNCHANGED << size, left, next, prev, usedSize, prevUsedSize, maxUsedSize, cellSize, answer >>

Refuse ==
  /\ Running /\ cur = NULL
  /\ cellSize' = 0
  /\ Answered("allocate", cellSize - UsedHdr, NULL)
  /\ UNCHANGED << size, left, next, prev, usedSize, prevUsedSize, maxUsedSize, cur >>

\* Mutant: the cell is taken out of the list and still linked.
UnlinkedBackOnly(c) == [x \in DOMAIN next \ {c} |-> next[x]]

\* The list without cell c, whose links become data.
UnlinkedNext(c) ==
  [x \in DOMAIN next \ {c} |-> IF x = prev[c] THEN next[c] ELSE next[x]]
UnlinkedPrev(c) ==
  [x \in DOMAIN prev \ {c} |-> IF x = next[c] THEN prev[c] ELSE prev[x]]

TakeWhole(c) ==
  /\ size[c] = cellSize
  /\ size' = [size EXCEPT ![c] = -@]
  /\ next' = UnlinkedNext(c)
  /\ prev' = UnlinkedPrev(c)
  /\ UNCHANGED left

\* The rest c2 of a cell that is split takes its place in the list.
Split(c) ==
  LET c2  == c + cellSize
      c2r == c + size[c]
      Listed == (DOMAIN next \ {c}) \cup {c2}
  IN
  /\ size[c] # cellSize
  /\ size' = [x \in Cells \cup {c2} |->
                IF x = c2 THEN size[c] - cellSize ELSE IF x = c THEN -cellSize ELSE size[x]]
  /\ left' = [x \in Cells \cup {c2} |->
                IF x = c2 THEN c ELSE IF x = c2r THEN c2 ELSE left[x]]
  /\ next' = [x \in Listed |->
                IF x = c2 THEN next[c] ELSE IF x = prev[c] THEN c2 ELSE next[x]]
  /\ prev' = [x \in Listed |->
                IF x = c2 THEN prev[c] ELSE IF x = next[c] THEN c2 ELSE prev[x]]

Grant ==
  /\ Running /\ cur # NULL /\ Fits(cur)
  /\ TakeWhole(cur) \/ Split(cur)
  /\ usedSize' = usedSize + cellSize
  /\ maxUsedSize' = IF usedSize' > maxUsedSize THEN usedSize' ELSE maxUsedSize
  /\ Answered("allocate", cellSize - UsedHdr, cur + UsedHdr)
  /\ cellSize' = 0 /\ cur' = NULL
  /\ UNCHANGED prevUsedSize

-----------------------------------------------------------------------------
(* picoos_deallocate of the cell c.                                         *)
Right(c) == c - size[c]                          \* c is in use: size[c] < 0

\* Mutant: the left neighbour is not looked at.
LeftIgnored(c) == FALSE

LeftFree(c) == size[left[c]] > 0
RightFree(c) == size[Right(c)] > 0
Refund(c) == -size[c]

MergeBoth(c) ==
  LET cl == left[c]
      cr == Right(c)
      crr == cr + size[cr]
  IN
  /\ LeftFree(c) /\ RightFree(c)
  /\ size' = [x \in Cells \ {c, cr} |->
                IF x = cl THEN size[cl] - size[c] + size[cr] ELSE size[x]]
  /\ left' = [x \in Cells \ {c, cr} |-> IF x = crr THEN cl ELSE left[x]]
  /\ next' = UnlinkedNext(cr)
  /\ prev' = UnlinkedPrev(cr)

MergeLeft(c) ==
  /\ LeftFree(c) /\ ~RightFree(c)
  /\ size' = [x \in Cells \ {c} |-> IF x = left[c] THEN size[x] - size[c] ELSE size[x]]
  /\ left' = [x \in Cells \ {c} |-> IF x = Right(c) THEN left[c] ELSE left[x]]
  /\ UNCHANGED << next, prev >>

\* c takes the place of its right neighbour cr in the list.
MergeRight(c) ==
  LET cr == Right(c)
      crr == cr + size[cr]
      Listed == (DOMAIN next \ {cr}) \cup {c}
  IN
  /\ ~LeftFree(c) /\ RightFree(c)
  /\ size' = [x \in Cells \ {cr} |-> IF x = c THEN size[cr] - size[c] ELSE size[x]]
  /\ left' = [x \in Cells \ {cr} |-> IF x = crr THEN c ELSE left[x]]
  /\ next' = [x \in Listed |->
                IF x = c THEN next[cr] ELSE IF x = prev[cr] THEN c ELSE next[x]]
  /\ prev' = [x \in Listed |->
                IF x = c THEN prev[cr] ELSE IF x = next[cr] THEN c ELSE prev[x]]

PushedNext(c) ==
  [x \in DOMAIN next \cup {c} |->
     IF x = c THEN next[Cbeg] ELSE IF x = Cbeg THEN c ELSE next[x]]

Push(c) ==
  /\ ~LeftFree(c) /\ ~RightFree(c)
  /\ size' = [size EXCEPT ![c] = -@]
  /\ next' = PushedNext(c)
  /\ prev' = [x \in DOMAIN prev \cup {c} |->
                IF x = c THEN Cbeg ELSE IF x = next[Cbeg] THEN c ELSE prev[x]]
  /\ UNCHANGED left

Deallocate(c) ==
  /\ ~Running /\ InUse(c)
  /\ MergeBoth(c) \/ MergeLeft(c) \/ MergeRight(c) \/ Push(c)
  /\ usedSize' = usedSize - Refund(c)
  /\ Answered("deallocate", c + UsedHdr, NULL)
  /\ UNCHANGED << prevUsedSize, maxUsedSize, cellSize, cur >>

DeallocateNull ==
  /\ ~Running
  /\ Answered("deallocate", NULL, NULL)
  /\ UNCHANGED << size, left, next, prev, usedSize, prevUsedSize, maxUsedSize, cellSize, cur >>

\* picoos_getMemUsage with resetIncremental; without it nothing changes.
GetMemUsage ==
  /\ ~Running
  /\ prevUsedSize' = usedSize
  /\ UNCHANGED << size, left, next, prev, usedSize, maxUsedSize, cellSize, cur, answer >>

-----------------------------------------------------------------------------
(* Properties.                                                              *)
\* Types of the cells' headers and links.
TypeOK ==
  /\ size \in [Cells -> Int] /\ left \in [Cells -> Cells \cup {NULL}]
  /\ next \in [DOMAIN next -> Cells \cup {NULL}] /\ prev \in [DOMAIN next -> Cells \cup {NULL}]
  /\ usedSize \in Nat /\ prevUsedSize \in Nat /\ maxUsedSize \in Nat
  /\ cellSize \in Nat /\ cur \in Cells \cup {NULL} 
  /\ answer \in [call : {"none", "allocate", "deallocate"}, arg : Nat, adr : Nat]

Magnitude(k) == IF k < 0 THEN -k ELSE k

\* Where cell c ends; the first sentinel ends behind its header.
EndOf(c) == IF c = Cbeg THEN Cmid ELSE c + Magnitude(size[c])

\* The cells lie end to end between the sentinels, every one with room for a
\* full header, and every cell knows its left neighbour: what deallocate
\* relies on when it computes neighbours from sizes and leftCell.
Tiled ==
  /\ {Cbeg, Cend} \subseteq Cells
  /\ \A c \in Cells : Cbeg <= c /\ c <= Cend /\ (size[c] = 0 <=> c \in {Cbeg, Cend})
  /\ \A c \in Cells \ {Cend} :
       /\ EndOf(c) \in Cells /\ left[EndOf(c)] = c /\ EndOf(c) - c >= FullHdr
       /\ \A d \in Cells : d <= c \/ EndOf(c) <= d
  /\ \A c \in Cells \ {Cbeg} : left[c] \in Cells \ {Cend} /\ EndOf(left[c]) = c

\* n and p link their domain into lists from the first sentinel, both ways.
Linked(n, p) ==
  /\ DOMAIN p = DOMAIN n /\ {Cbeg, Cend} \subseteq DOMAIN n
  /\ n[Cend] = NULL /\ p[Cbeg] = NULL
  /\ \A c \in DOMAIN n \ {Cend} : n[c] \in DOMAIN n \ {Cbeg} /\ p[n[c]] = c
  /\ \A c \in DOMAIN n \ {Cbeg} : p[c] \in DOMAIN n \ {Cend} /\ n[p[c]] = c

\* The cells with links are the free cells and the sentinels, and the two
\* links of neighbours in the list agree: no cell in use, whose links are
\* application data, is ever reached by the allocator.
LinksSound ==
  /\ DOMAIN next = {c \in Cells : Free(c)} \cup {Cbeg, Cend}
  /\ Linked(next, prev)

\* Memory is not fragmented needlessly: no two free cells are neighbours.
Coalesced == \A c \in Cells \ {Cend} : ~(Free(c) /\ Free(EndOf(c)))

\* Whatever is allocated and freed, in any order.
FreeCellsSound == LinksSound /\ Coalesced

\* While picoos_allocate searches, its cursor is on the list.
CursorListed == Running => cur \in DOMAIN next \cup {NULL}

\* The search of the free list ends (it would not on a list with a cycle).
AllocateReturns == Running ~> ~Running

\* The manager promises what Heap says: blocks that do not overlap, and a
\* refusal only when no gap between blocks takes the request and the headers.
LiveBlocks == {[adr |-> c + UsedHdr, len |-> -size[c] - UsedHdr] : c \in {d \in Cells : InUse(d)}}

H == INSTANCE Heap WITH
       Base <- Cmid, Limit <- Cend, Room <- Content, Slack <- 2 * UsedHdr + MinCell,
       live <- LiveBlocks, ret <- answer

RefinesHeap == H!Spec

-----------------------------------------------------------------------------
Search == Walk \/ Refuse \/ Grant

Next ==
  \/ \E n \in Requests : Allocate(n)
  \/ Search
  \/ \E c \in Cells : Deallocate(c)
  \/ DeallocateNull
  \/ GetMemUsage

Spec == MemInit /\ [][Next]_memVars

\* The loop of picoos_allocate runs on until it returns.
FairSpec == Spec /\ WF_memVars(Search)
=============================================================================
