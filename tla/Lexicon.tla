------------------------------ MODULE Lexicon -------------------------------
(***************************************************************************)
(* The lexicon of a language (picoklex.c): entries sorted by their         *)
(* graphemes in blocks of fixed size, and a search index with the prefix   *)
(* of the first word of every block.  A lookup finds the block by binary   *)
(* search and walks through the entries from there.                        *)
(*                                                                         *)
(* A lexicon is a record [index, blocks]; blocks are numbered from 0 as in *)
(* the code.  An index into the lexicon is the number of the block times   *)
(* BlockSize plus the place of the entry in it.                            *)
(***************************************************************************)
EXTENDS Integers, SequencesExt

CONSTANTS
  NumGraphs,    \* PICOKLEX_LEX_SIE_NRGRAPHS, length of the prefixes
  BlockSize,    \* PICOKLEX_LEXBLOCK_SIZE
  MaxNrRes      \* PICOKLEX_MAX_NRRES

NrBlocks(lex) == Len(lex.blocks)

ASSUME LexiconAssumption == NumGraphs \in Nat \ {0} /\ BlockSize \in Nat \ {0} /\ MaxNrRes \in Nat \ {0}

\* The prefix of a word as a number, in lexicographic order.
Letter(g, i) == IF i <= Len(g) THEN g[i] ELSE 0
GraphVal(g) ==
  LET val[i \in 0 .. NumGraphs] == IF i = 0 THEN 0 ELSE val[i - 1] * 256 + Letter(g, i)
  IN val[NumGraphs]

\* Behind the last entry of the index lie the bytes of the first block: the
\* length of its first word, and the word.
SearchIndexVal(lex, i) ==
  IF i < NrBlocks(lex) THEN lex.index[i + 1]
  ELSE LET w == lex.blocks[1][1].graph IN GraphVal(<< Len(w) + 1 >> \o w)

\* The first entry of the index that is not less than val.
SearchFrom(lex, val) ==
  LET search[bounds \in (0 .. NrBlocks(lex)) \X (0 .. NrBlocks(lex))] ==
        LET low == bounds[1]
            high == bounds[2]
            mid == (low + high) \div 2
        IN IF low >= high THEN low
           ELSE IF SearchIndexVal(lex, mid) < val THEN search[<< mid + 1, high >>]
           ELSE search[<< low, mid >>]
  IN search[<< 0, NrBlocks(lex) >>]

\* The first of the blocks up to i whose entries in the index are the same.
FirstSame(lex, i) ==
  CHOOSE k \in 0 .. i :
    /\ \A j \in k .. i : SearchIndexVal(lex, j) = SearchIndexVal(lex, i)
    /\ k > 0 => SearchIndexVal(lex, k - 1) # SearchIndexVal(lex, i)

LexblockNr(lex, graph) ==
  LET val == GraphVal(graph)
      low == SearchFrom(lex, val)
  IN IF low = NrBlocks(lex) THEN low - 1
     ELSE IF SearchIndexVal(lex, low) > val THEN FirstSame(lex, low - 1)
     ELSE low

\* How many blocks from nr on have the same entry in the index.
LexblockRange(lex, nr) ==
  CHOOSE count \in 1 .. NrBlocks(lex) - nr :
    /\ \A i \in 0 .. count - 1 : SearchIndexVal(lex, nr + i) = SearchIndexVal(lex, nr)
    /\ SearchIndexVal(lex, nr + count) # SearchIndexVal(lex, nr)

\* -1, 0 or 1: the entry comes before, is, or comes after the word.
LexMatch(entry, graph) ==
  LET e == entry.graph
      common == {i \in DOMAIN e \intersect DOMAIN graph : e[i] # graph[i]}
  IN IF common # {}
       THEN LET i == CHOOSE i \in common : \A j \in common : i <= j
            IN IF e[i] < graph[i] THEN -1 ELSE 1
       ELSE IF Len(e) = Len(graph) THEN 0
       ELSE IF Len(e) < Len(graph) THEN -1 ELSE 1

NoResult == [phonfound |-> FALSE, res |-> << >>]

\* Adds an entry to the results. One without phones, to be found by :G2P, has
\* no index and stands alone.
SetLexResult(lexres, at) ==
  IF at.entry.g2p
    THEN [phonfound |-> FALSE, res |-> << [pos |-> at.entry.pos, ind |-> 0] >>]
    ELSE [phonfound |-> TRUE,
          res |-> Append(lexres.res, [pos |-> at.entry.pos, ind |-> at.ind])]

\* The entries of count blocks from block nr on, with their indices. The zeros
\* at the end of a block are passed over.
EntriesFrom(lex, nr, count) ==
  FlattenSeq([b \in 1 .. count |->
    [k \in DOMAIN lex.blocks[nr + b] |->
       [entry |-> lex.blocks[nr + b][k], ind |-> (nr + b - 1) * BlockSize + k - 1]]])

\* The first result and those of the entries behind n, up to the first one that is
\* not equal and up to the maximal number of results.
MoreResults(entries, n, graph, first) ==
  LET more[k \in 0 .. Len(entries) - n] ==
        IF k = 0 THEN first
        ELSE IF \/ Len(more[k - 1].res) >= MaxNrRes
                \/ \E j \in 1 .. k : LexMatch(entries[n + j].entry, graph) # 0
          THEN more[k - 1]
        ELSE SetLexResult(more[k - 1], entries[n + k])
  IN more[Len(entries) - n]

LexblockLookup(entries, graph) ==
  LET notBefore == {n \in DOMAIN entries : LexMatch(entries[n].entry, graph) >= 0}
      n == CHOOSE n \in notBefore : \A m \in notBefore : n <= m
      first == SetLexResult(NoResult, entries[n])
  IN IF notBefore = {} THEN NoResult
     ELSE IF LexMatch(entries[n].entry, graph) > 0 THEN NoResult
     ELSE IF first.phonfound THEN MoreResults(entries, n, graph, first)
     ELSE first

LexLookup(lex, graph) ==
  IF NrBlocks(lex) = 0 THEN NoResult
  ELSE LET nr == LexblockNr(lex, graph)
       IN LexblockLookup(EntriesFrom(lex, nr, LexblockRange(lex, nr)), graph)

\* The part of speech and the phones at an index, here the entry itself.
IndFound(lex, ind) == ind < NrBlocks(lex) * BlockSize
LexIndLookup(lex, ind) == lex.blocks[(ind \div BlockSize) + 1][(ind % BlockSize) + 1]

-----------------------------------------------------------------------------
(* What a lexicon is, and what a lookup promises.                           *)
AllEntries(lex) == EntriesFrom(lex, 0, NrBlocks(lex))

\* As all lexica in pico/lang/ are: blocks of entries that fit in them, sorted;
\* the index of block 0 is 0, that of the others the prefix of their first word;
\* words that share a prefix and do not fit in one block start at the beginning of
\* a block; a word without phones has one entry.  What is read behind the index
\* tells the last block from it, as lengths are less than letters.
Graphs == Seq(1 .. 255) \ {<< >>}
LexEntry == [graph : Graphs, pos : 0 .. 255, g2p : BOOLEAN]
WellFormed(lex) ==
  LET all == AllEntries(lex)
      Val(n) == GraphVal(all[n].entry.graph)
      Block(n) == all[n].ind \div BlockSize
  IN /\ lex.blocks \in Seq(Seq(LexEntry))
     /\ \A b \in DOMAIN lex.blocks : Len(lex.blocks[b]) \in 1 .. BlockSize
     /\ lex.index = [b \in DOMAIN lex.blocks |->
                       IF b = 1 THEN 0 ELSE GraphVal(lex.blocks[b][1].graph)]
     /\ NrBlocks(lex) > 0 => SearchIndexVal(lex, NrBlocks(lex)) # lex.index[NrBlocks(lex)]
     /\ \A n \in 1 .. Len(all) - 1 :
          /\ LexMatch(all[n].entry, all[n + 1].entry.graph) <= 0
          /\ all[n].entry.graph = all[n + 1].entry.graph =>
               ~all[n].entry.g2p /\ ~all[n + 1].entry.g2p
          /\ Block(n) # Block(n + 1) /\ Val(n) = Val(n + 1) =>
               lex.index[Block(n) + 1] = Val(n)

\* The entries of a word, found by looking at all of them.
EntriesOf(lex, graph) ==
  LET all == AllEntries(lex)
      found[n \in 0 .. Len(all)] ==
        IF n = 0 THEN << >>
        ELSE IF all[n].entry.graph = graph THEN Append(found[n - 1], all[n])
        ELSE found[n - 1]
  IN found[Len(all)]

\* What a search of the whole lexicon would find, up to MaxNrRes entries.
NrExpected(found) == IF Len(found) < MaxNrRes THEN Len(found) ELSE MaxNrRes
Expected(lex, graph) ==
  LET found == EntriesOf(lex, graph)
  IN IF found = << >> THEN NoResult
     ELSE IF found[1].entry.g2p
       THEN [phonfound |-> FALSE, res |-> << [pos |-> found[1].entry.pos, ind |-> 0] >>]
     ELSE [phonfound |-> TRUE,
           res |-> [k \in 1 .. NrExpected(found) |-> [pos |-> found[k].entry.pos, ind |-> found[k].ind]]]
=============================================================================
