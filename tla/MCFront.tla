------------------------------ MODULE MCFront -------------------------------
(***************************************************************************)
(* The units that work on text, one of them at a time, for TLC: their      *)
(* input and resources.                                                    *)
(***************************************************************************)
EXTENDS Tokenizer, Preproc, WordAna

CONSTANT Units          \* the units to be looked at

VARIABLE on             \* the unit

-----------------------------------------------------------------------------
(* The tokenizer: bytes that make tags, pieces of them, and text around.    *)
MCLetters == {"s", "b", "i", "n", "x", "g"}
MCDigits == {"1"}
MCTagId ==
  (<< "s" >> :> "MISentence") @@ (<< "b" >> :> "MIBreak") @@ (<< "i" >> :> "MIIgnore")
    @@ (<< "g" >> :> "MIGenFile")
MCKeyword == << "n" >>
MCGoodValues == {<< "1" >>}
MCTexts ==
  {<< "b", " " >>, << "EOL" >>, << "1", "." >>, << "L2" >>, << "T", "?", "NUL" >>, << "<" >>,
   << "<", "i", ">" >>, << "<", "/", "i", ">" >>,
   << "<", "b", " ", "n", "=", "'", "1", "'", "/", ">" >>, << "<", "b", " ", "n" >>,
   << "=", "'", "x", "'", ">" >>, << "<", "g", " ", "n", "=", "'", "1", "'", ">" >>,
   << "<", "/", " ", "b", "<" >>}

-----------------------------------------------------------------------------
(* The preprocessor: a number, an amount, which is a number and any sign    *)
(* behind it or none, and a tree of abbreviations.                          *)
NetTok(set, attr, next, altL, altR) ==
  [set |-> set, attr |-> attr, next |-> next, altL |-> altL, altR |-> altR]
Nowhere == 0
Then(set, attr, next) == NetTok(set \union {"NEXT"}, attr, next, Nowhere, Nowhere)
OrR(t, altR) == [t EXCEPT !.set = @ \union {"ALTR"}, !.altR = altR]
OrL(t, altL) == [t EXCEPT !.set = @ \union {"ALTL"}, !.altL = altL]
Str(s) == [type |-> "Str", str |-> s]
VarOf(v) == [type |-> "Var", val |-> v]
ValOf(v) == [type |-> "Val", val |-> v]
Fn(type, arg) == [type |-> type, arg |-> arg]

MCNet ==
  << Then({}, [PROD |-> "num", VAR |-> 1], 2),
     OrR(Then({}, << >>, 4), 3),
     Then({"SPACE"}, << >>, 4),
     OrR(Then({"CHAR"}, << >>, 5), 18),
     Then({}, [OUT |-> << VarOf(1), Str(<< 100 >>) >>], 6),
     NetTok({"ACCEPT"}, << >>, Nowhere, Nowhere, Nowhere),
     \* num
     OrR(Then({"DIGIT"}, [VAR |-> 1, MAX |-> 12], 8), 9),
     Then({}, [OUT |-> << VarOf(1) >>], 6),
     Then({"LETTER", "ROMAN"}, [VAR |-> 1, COST |-> 12], 10),
     Then({}, [OUT |-> << Fn("RomanToCard", << VarOf(1) >>) >>], 6),
     \* abbr
     OrL(OrR(Then({"LETTER", "CI"}, [STR |-> << 98 >>], 12), 16), 14),
     Then({"CHAR"}, [STR |-> << 46 >>], 13),
     Then({}, [OUT |-> << Str(<< 98, 98 >>) >>], 6),
     Then({"LETTER", "CI"}, [STR |-> << 97 >>], 15),
     Then({}, [OUT |-> << Fn("Spell", << Str(<< 105, 106, 105 >>), ValOf(-1) >>) >>], 6),
     Then({"LETTER", "CI"}, [STR |-> << 105 >>], 17),
     Then({}, [OUT |-> << Fn("Spell", << Str(<< 105, 106 >>) >>) >>], 6),
     \* an amount without its sign, which is cheaper than a number
     Then({}, [OUT |-> << VarOf(1), Str(<< 101 >>) >>, COST |-> 5], 6) >>
MCProds ==
  [num |-> [tok |-> 7, prefCost |-> 0], amount |-> [tok |-> 1, prefCost |-> 0],
   abbr |-> [tok |-> 11, prefCost |-> 0]]
MCCtxProds == DefaultContext :> << "abbr", "num", "amount" >>

TokIn(info1, str) == [type |-> "TOKEN", info1 |-> info1, info2 |-> "NA", str |-> str, val |-> 0]
CmdIn(info1, info2, val) == [type |-> "CMD", info1 |-> info1, info2 |-> info2, str |-> << >>, val |-> val]
MCPrInputs ==
  {TokIn("DIGIT", << 49 >>), TokIn("SPACE", << 32 >>), TokIn("CHAR", << 36 >>),
   TokIn("LETTER", << 73 >>), TokIn("LETTER", << 66 >>), TokIn("LETTER", << 65 >>),
   TokIn("CHAR", << 46 >>), CmdIn("FLUSH", "NA", 0)}
MCSpellInputs ==
  {TokIn("LETTER", << 66 >>), CmdIn("SPELL", "START", -1), CmdIn("SPELL", "END", 0), CmdIn("FLUSH", "NA", 0)}
MCSubst == 106 :> << 106, 106 >>

-----------------------------------------------------------------------------
(* The lexica: every way to put up to three sorted entries into blocks, and *)
(* three of them for the word analysis.                                     *)
Words2 == UNION {[1 .. n -> {97, 98}] : n \in 1 .. 3}
Entry(graph, pos, g2p) == [graph |-> graph, pos |-> pos, g2p |-> g2p]
Entries ==
  {Entry(g, 1, FALSE) : g \in {<< 97 >>, << 97, 97 >>, << 97, 97, 97 >>, << 97, 97, 98 >>, << 97, 98 >>}}
    \union {Entry(<< 98 >>, 2, TRUE)}
Cut2(s, at) ==
  LET c == SetToSortSeq((at \intersect DOMAIN s) \union {0, Len(s)}, <)
  IN [i \in 1 .. Len(c) - 1 |-> SubSeq(s, c[i] + 1, c[i + 1])]
LexOf(blocks) ==
  [blocks |-> blocks,
   index |-> [b \in DOMAIN blocks |-> IF b = 1 THEN 0 ELSE GraphVal(blocks[b][1].graph)]]
Lexica ==
  {l \in {LexOf(Cut2(s, at)) : s \in UNION {[1 .. n -> Entries] : n \in 1 .. 4}, at \in SUBSET (1 .. 3)} :
     WellFormed(l)}

(* A lookup finds, by the index and the blocks, what a look at every entry  *)
(* would find (picoklex_lexLookup).                                         *)
ASSUME LookupsFind ==
  \A l \in Lexica : \A g \in Words2 : LexLookup(l, g) = Expected(l, g)

MCUlex == << LexOf(<< << Entry(<< 97 >>, 1, FALSE), Entry(<< 97 >>, 2, FALSE) >> >>),
             LexOf(<< << Entry(<< 97 >>, 3, FALSE), Entry(<< 99 >>, 3, FALSE) >> >>) >>
MCMainLex == LexOf(<< << Entry(<< 97 >>, 4, FALSE), Entry(<< 97, 97, 98 >>, 4, FALSE) >>,
                      << Entry(<< 97, 98 >>, 5, FALSE) >>,
                      << Entry(<< 97, 98 >>, 6, FALSE), Entry(<< 98 >>, 6, TRUE) >> >>)
WaIn(kind, graph) == [kind |-> kind, graph |-> graph, info1 |-> {}, info2 |-> 0, inds |-> << >>]
MCWaInputs ==
  {WaIn("WORDGRAPH", g) : g \in {<< >>, << 97 >>, << 97, 98 >>, << 97, 97, 98 >>, << 98 >>, << 99 >>, << 98, 98 >>}}
    \union {WaIn("PUNC", << >>), WaIn("CMD", << >>), WaIn("OTHER", << >>)}

-----------------------------------------------------------------------------
tokOnly == << tok, tokHist >>
prOnly == << inItem, outItems, rin, rout, search, mode, force, prHist >>
NoTok == tok = NewTok /\ said = << >> /\ read = << >>
NoPr ==
  /\ inItem = << >> /\ outItems = << >> /\ rin = << >> /\ rout = << >> /\ search = StartSearch
  /\ mode = StartMode /\ force = FALSE /\ heard = << >> /\ uttered = << >> /\ givenUp = {}

FrontInit ==
  /\ on \in Units
  /\ \/ on = "tok" /\ TokInit /\ NoPr /\ waItem = << >>
     \/ on = "pr" /\ PrInit /\ NoTok /\ waItem = << >>
     \/ on = "wa" /\ WaInit /\ NoTok /\ NoPr

FrontNext ==
  \/ on = "tok" /\ TokNext /\ UNCHANGED << prOnly, waItem, on >>
  \/ on = "pr" /\ PrNext /\ UNCHANGED << tokOnly, waItem, on >>
  \/ on = "wa" /\ WaNext /\ UNCHANGED << tokOnly, prOnly, on >>

(* The properties of the other units (Tokenizer, Preproc).                  *)
TokTextKept == on = "tok" => TextKept
PrCheapest == on = "pr" => CheapestReading
=============================================================================
