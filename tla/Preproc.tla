------------------------------ MODULE Preproc -------------------------------
(***************************************************************************)
(* Text preprocessing (picopr.c): replaces tokens of the text, numbers and *)
(* abbreviations and the like, by the words to be spoken.  The items wait  *)
(* in rinItemList; a search with backtracking looks for the cheapest path  *)
(* of the network that matches the tokens at its head.  A path that needs  *)
(* a token that has not arrived yet stops the search until the next item.  *)
(* The voice has the main network.  The memory of the unit is counted in   *)
(* items.                                                                  *)
(***************************************************************************)
EXTENDS ProcUnit, PreprocNet

CONSTANTS
  CtxProds,      \* context -> its productions, in the order they are tried
  Punct,         \* characters that are punctuation
  Subst,         \* characters with a substitution -> what is put for them
  MaxPath,       \* PR_MAX_PATH_LEN
  MaxIter,       \* PR_MAX_NR_ITERATIONS
  DynMem,        \* items in PR_DYN_MEM_SIZE
  PrInputs       \* items that may arrive, without id

VARIABLES
  inItem,        \* inBuf
  outItems,      \* outBuf
  rin, rout,     \* rinItemList and routItemList
  search,        \* the search: rg, path, best, prods (left in the context), iter
  mode,          \* rignore, spellMode, insidePhoneme, actCtx, changed
  force,         \* forceOutput
  heard, uttered, \* (history) the items treated and put out since the reset
  givenUp        \* (history) the paths left where no token came, with the token at their head

prHist == << heard, uttered, givenUp >>
prVars == << unitVars, inItem, outItems, rin, rout, search, mode, force, prHist >>

-----------------------------------------------------------------------------
(* The search. An element of a path: tok; item, the number of the token of  *)
(* the text, 0 when there is none; cmp, depth, prefCost and state.          *)

None == 0
Element(tok, depth) ==
  [tok |-> tok, item |-> None, cmp |-> "NONE", depth |-> depth, prefCost |-> 0, state |-> "INIT"]

\* pr_getTopLevelToken: the first production left in the context.
TopLevel(s, prods) ==
  IF prods = << >> THEN [s EXCEPT !.prods = << >>]
  ELSE [s EXCEPT !.prods = prods,
          !.path = << [Element(Prods[prods[1]].tok, 1) EXCEPT !.prefCost = Prods[prods[1]].prefCost] >>]

Searching(s, ctx) ==
  LET t == TopLevel([s EXCEPT !.path = << >>, !.best = << >>],
                    IF ctx \in DOMAIN CtxProds THEN CtxProds[ctx] ELSE << >>)
  IN [t EXCEPT !.rg = IF t.path = << >> THEN "NOTFOUND" ELSE "CONTINUE"]

NextTop(s) ==
  LET t == TopLevel(s, IF s.prods = << >> THEN << >> ELSE Tail(s.prods))
  IN [t EXCEPT !.rg = IF t.path # << >> THEN "CONTINUE" ELSE IF t.best = << >> THEN "NOTFOUND" ELSE "FOUND"]

\* In state st, the search goes on with the last element; with a new one e
\* behind it, if the path is not too long.
In(s, st) == [s EXCEPT !.path[Len(s.path)].state = st]
Push(s, e) == IF Len(s.path) < MaxPath THEN [s EXCEPT !.path = Append(@, e)] ELSE s

\* What to do with a token of the network.
Entered(e) ==
  LET t == Net[e.tok]
  IN IF "ACCEPT" \in t.set THEN IF e.depth = 1 THEN "GETNEXTTOKEN" ELSE "GETPRODCONTTOKEN"
     ELSE IF HasAttr(t, "PROD") THEN "GETPRODTOKEN"
     ELSE IF ~HasAttr(t, "OUT") /\ HasToken(t) THEN "GETTOKEN"
     ELSE "GETNEXTTOKEN"

\* (mutant) The last path found is kept, whatever it costs.
Init1LastFound(s) ==
  LET e == Last(s.path)
      accepted == "ACCEPT" \in Net[e.tok].set /\ e.depth = 1
  IN In([s EXCEPT !.best = IF accepted THEN s.path ELSE @], Entered(e))

Init1(s) ==
  LET e == Last(s.path)
      better == /\ "ACCEPT" \in Net[e.tok].set /\ e.depth = 1
                /\ s.best = << >> \/ PathCost(s.path) < PathCost(s.best)
  IN In([s EXCEPT !.best = IF better THEN s.path ELSE @], Entered(e))

ProdTok(t) ==
  LET p == IF HasAttr(t, "PRODEXT") THEN t.attr["PRODEXT"] ELSE t.attr["PROD"]
  IN IF p \in DOMAIN Prods THEN << Prods[p].tok >> ELSE << >>

\* Into the production that the last element stands for.
GetProdToken(s) ==
  LET n == Len(s.path)  t == Net[Last(s.path).tok]
      pref == IF t.attr["PROD"] \in DOMAIN Prods THEN Prods[t.attr["PROD"]].prefCost ELSE 0
  IN IF ProdTok(t) = << >> \/ n >= MaxPath THEN In(s, "GETALTTOKEN")
     ELSE Push([In(s, "GETALTTOKEN") EXCEPT !.path[n].prefCost = pref],
               Element(ProdTok(t)[1], s.path[n].depth + 1))

\* Behind a production that was accepted: on from the element standing for it.
GetProdContToken(s) ==
  LET above == {n \in 1 .. Len(s.path) : /\ s.path[n].depth = Last(s.path).depth - 1
                                         /\ HasAttr(Net[s.path[n].tok], "PROD")}
      e == IF above = {} THEN s.path[1] ELSE s.path[CHOOSE n \in above : \A m \in above : m <= n]
  IN IF "NEXT" \in Net[e.tok].set
       THEN Push(In(s, "GETALTTOKEN"), Element(Net[e.tok].next, e.depth))
       ELSE In(s, "GETALTTOKEN")

GetNextToken(s) ==
  LET e == Last(s.path)
  IN IF "NEXT" \in Net[e.tok].set
       THEN Push(In(s, "GETALTTOKEN"), Element(Net[e.tok].next, e.depth))
       ELSE In(s, "GETALTTOKEN")

\* The alternatives are a tree that is ordered by the strings.
GetAltToken(s) ==
  LET e == Last(s.path)  t == Net[e.tok]
      left == e.cmp = "SMALLER"
  IN IF Len(s.path) < MaxPath /\ (IF left THEN "ALTL" ELSE "ALTR") \in t.set
       THEN [s EXCEPT !.path[Len(s.path)] = Element(IF left THEN t.altL ELSE t.altR, e.depth)]
       ELSE In(s, "GOBACK")

\* The token of the text that is next for the last element.
NextItem(path) ==
  FoldLeft(LAMBDA n, e : IF e.item = None THEN n ELSE e.item, 0, Front(path)) + 1

GetToken(s, toks, forced) ==
  LET n == NextItem(s.path)
      got == n <= Len(toks)
      t == [s EXCEPT !.path[Len(s.path)].item = IF got THEN n ELSE None]
  IN IF got THEN In(t, "MATCH")
     ELSE IF Last(s.path).state = "GETTOKEN2" THEN In(t, "GOBACK")
     ELSE IF forced THEN In(t, "GETALTTOKEN")
     ELSE [In(t, "GETTOKEN2") EXCEPT !.rg = "NEEDTOKEN"]

MatchRound(s, toks) ==
  LET e == Last(s.path)  t == Net[e.tok]
      u == [s EXCEPT !.path[Len(s.path)].cmp = Cmpres(t, toks[e.item])]
  IN In(u, IF MatchTokens(t, toks[e.item]) THEN "GETNEXTTOKEN" ELSE "GETALTTOKEN")

\* One round of pr_processToken.
Round(s, toks, forced) ==
  IF s.path = << >> THEN NextTop(s)
  ELSE LET st == Last(s.path).state
       IN CASE st = "INIT" -> Init1(s)
            [] st = "GETPRODTOKEN" -> GetProdToken(s)
            [] st = "GETPRODCONTTOKEN" -> GetProdContToken(s)
            [] st = "GOBACK" -> [s EXCEPT !.path = Front(@)]
            [] st \in {"GETTOKEN", "GETTOKEN2"} -> GetToken(s, toks, forced)
            [] st = "MATCH" -> MatchRound(s, toks)
            [] st = "GETNEXTTOKEN" -> GetNextToken(s)
            [] st = "GETALTTOKEN" -> GetAltToken(s)

-----------------------------------------------------------------------------
(* The output of a path. *)

NonToks(items) ==
  SubSeq(items, 1, CHOOSE n \in 0 .. Len(items) :
                     (\A k \in 1 .. n : ~IsTok(items[k])) /\ (n = Len(items) \/ IsTok(items[n + 1])))

\* pr_getOutput from element i at depth d: what is put, and what is left of the
\* input. Commands before a token go where the output of its production goes.
RECURSIVE GetOutput(_, _, _, _, _, _, _)
GetOutput(path, toks, i, d, inp, vars, out) ==
  IF i > Len(path) THEN [i |-> i, inp |-> inp, out |-> out]
  ELSE
    LET e == path[i]  t == Net[e.tok]
        cmds == IF e.item = None THEN << >> ELSE NonToks(inp)
        inp1 == IF e.item = None THEN inp ELSE SubSeq(inp, Len(cmds) + 2, Len(inp))
        out1 == out \o cmds
        set(v) == (t.attr["VAR"] :> v) @@ vars
    IN IF HasAttr(t, "PROD")
         THEN LET sub == GetOutput(path, toks, i + 1, d + 1, inp1, << >>, << >>)
              IN GetOutput(path, toks, sub.i + 1, d, sub.inp,
                           IF HasAttr(t, "VAR") THEN set(sub.out) ELSE vars, out1)
       ELSE IF HasAttr(t, "VAR")
         THEN GetOutput(path, toks, i + 1, d, inp1, set(<< toks[e.item] >>), out1)
       ELSE IF HasAttr(t, "OUT")
         THEN GetOutput(path, toks, i + 1, d, inp1, vars, out1 \o OutputItems(t.attr["OUT"], vars))
       ELSE IF i < Len(path) /\ d # path[i + 1].depth
         THEN [i |-> i, inp |-> inp1, out |-> out1]
       ELSE GetOutput(path, toks, i + 1, d, inp1, vars, out1)

\* pr_setContext: an unknown context changes nothing.
SetContext(m, ctx) ==
  IF ctx \in DOMAIN CtxProds THEN [m EXCEPT !.actCtx = ctx, !.changed = TRUE] ELSE m

Phoneme(m, item) ==
  [m EXCEPT !.insidePhoneme = IF IsStart(item, "PHONEME") THEN TRUE
                              ELSE IF IsEnd(item, "PHONEME") THEN FALSE ELSE @]
Sound(item) == IsCmd(item, "PLAY") \/ IsCmd(item, "IGNSIG")

\* pr_appendItemToOutItemList, into o = [m, rout, crash]. While spelling, the
\* characters of a token are put one by one; the item made for a character has
\* no memory for its lower case form, where picobase_lowercase_utf8_str then
\* writes through a null pointer.
ToOutList(o, item) ==
  IF o.m.spellMode # 0 /\ IsTok(item) /\ item.info1 # "SPACE" /\ item.str # << >>
    THEN [o EXCEPT !.crash = TRUE]
  ELSE IF o.m.spellMode # 0 /\ IsTok(item) /\ item.info1 # "SPACE" THEN o
  ELSE IF IsStart(item, "SPELL") THEN [o EXCEPT !.m.spellMode = item.val]
  ELSE IF IsEnd(item, "SPELL") THEN [o EXCEPT !.m.spellMode = 0]
  ELSE [o EXCEPT !.rout = Append(@, item)]

\* One item of the output of a path (pr_outputPath); o.played is
\* lastPlayFileFound.
PathItem(o0, item) ==
  LET o == [o0 EXCEPT !.m = Phoneme(@, item),
                      !.played = IF IsCmd(item, "PLAY") THEN item.str \in PlayFiles ELSE @]
  IN IF IsCmd(item, "PLAY") /\ ~o.played THEN o
     ELSE IF IsStart(item, "IGNORE") THEN IF o.played THEN [o EXCEPT !.m.rignore = @ + 1] ELSE o
     ELSE IF IsEnd(item, "IGNORE")
       THEN IF o.played /\ o.m.rignore > 0 THEN [o EXCEPT !.m.rignore = @ - 1] ELSE o
     ELSE IF IsCmd(item, "IGNSIG") /\ ~o.played THEN o
     ELSE IF o.m.rignore > 0 THEN o
     ELSE IF IsCmd(item, "CONTEXT") THEN [o EXCEPT !.m = SetContext(@, item.str)]
     ELSE IF IsCmd(item, "VOICE") THEN [o EXCEPT !.rout = Append(@, item)]
     ELSE IF o.m.insidePhoneme /\ Sound(item) THEN o
     ELSE ToOutList(o, item)

\* An item before the tokens, and a token no path was found for.
LeadItem(o0, item) ==
  LET o == [o0 EXCEPT !.m = Phoneme(@, item)]
  IN IF o.m.insidePhoneme /\ Sound(item) THEN o
     ELSE IF IsCmd(item, "CONTEXT") THEN [o EXCEPT !.m = SetContext(@, item.str)]
     ELSE IF o.m.rignore > 0 THEN o
     ELSE ToOutList(o, item)
PlainItem(o, item) == IF o.m.rignore > 0 THEN o ELSE ToOutList(o, item)

-----------------------------------------------------------------------------
(* The step function. *)

StartSearch == [rg |-> "START", path |-> << >>, best |-> << >>, prods |-> << >>, iter |-> 0]
StartMode == [rignore |-> 0, spellMode |-> 0, insidePhoneme |-> FALSE,
              actCtx |-> DefaultContext, changed |-> FALSE]

Cleared ==
  /\ inItem' = << >> /\ outItems' = << >> /\ rin' = << >> /\ rout' = << >>
  /\ search' = StartSearch /\ mode' = StartMode /\ force' = FALSE
  /\ heard' = << >> /\ uttered' = << >> /\ givenUp' = {}

PrInit ==
  /\ UnitInit("STEP")
  /\ inItem = << >> /\ outItems = << >> /\ rin = << >> /\ rout = << >>
  /\ search = StartSearch /\ mode = StartMode /\ force = FALSE
  /\ heard = << >> /\ uttered = << >> /\ givenUp = {}

InUse == Len(rin) + Len(rout)     \* dynMemSize, in items

PrPut ==
  /\ Running("STEP") /\ outItems # << >> /\ Put(outItems[1])
  /\ outItems' = Tail(outItems) /\ uttered' = Append(uttered, outItems[1])
  /\ Stay /\ UNCHANGED << inItem, rin, rout, search, mode, force, heard, givenUp >>

PrFull ==
  /\ Running("STEP") /\ outItems # << >> /\ ~Room /\ Return("OUT_FULL")
  /\ NoTransfer /\ UNCHANGED << inItem, outItems, rin, rout, search, mode, force, prHist >>

\* The words of a token: white space splits it.
RECURSIVE Words(_)
Words(str) ==
  LET n == CHOOSE k \in 0 .. Len(str) :
             (\A j \in 1 .. k : str[j] > 32) /\ (k = Len(str) \/ str[k + 1] <= 32)
      word == FlattenSeq([k \in 1 .. n |-> IF str[k] \in DOMAIN Subst THEN Subst[str[k]] ELSE << str[k] >>])
      rest == SubSeq(str, n + 1, Len(str))
      more == \E k \in DOMAIN rest : rest[k] > 32
      from == CHOOSE k \in DOMAIN rest : rest[k] > 32 /\ \A j \in 1 .. k - 1 : rest[j] <= 32
  IN IF more THEN << word >> \o Words(SubSeq(rest, from, Len(rest))) ELSE << word >>

\* What the item is put out as.
PutOut(item) ==
  IF ~IsTok(item) THEN << item >>
  ELSE IF item.info1 = "SPACE" \/ item.str = << >> THEN << >>
  ELSE IF Len(item.str) = 1 /\ item.str[1] \in Punct THEN << [item EXCEPT !.type = "PUNC"] >>
  ELSE [n \in DOMAIN Words(item.str) |-> [item EXCEPT !.type = "WORDGRAPH", !.str = Words(item.str)[n]]]

PrMove ==
  /\ Running("STEP") /\ outItems = << >> /\ rout # << >>
  /\ outItems' = PutOut(rout[1]) /\ rout' = Tail(rout)
  /\ Stay /\ NoTransfer /\ UNCHANGED << inItem, rin, search, mode, force, prHist >>

-----------------------------------------------------------------------------
(* pr_processItems: LEAD until the search has made a round or some, then     *)
(* DONE.                                                                     *)

Pending == Running("STEP") /\ outItems = << >> /\ rout = << >>
Waiting == Pending /\ ~force /\ (search.rg = "NEEDTOKEN" \/ rin = << >>)

PrProcess ==
  /\ Pending /\ (force \/ (search.rg # "NEEDTOKEN" /\ rin # << >>))
  /\ Go("LEAD")
  /\ NoTransfer /\ UNCHANGED << inItem, outItems, rin, rout, search, mode, force, prHist >>

\* pr_treatItem, before the new item is processed.
PrTreat ==
  /\ Waiting /\ inItem # << >> /\ InUse * 100 < DynMem * 45
  /\ rin' = Append(rin, inItem[1]) /\ heard' = Append(heard, inItem[1]) /\ inItem' = << >>
  /\ search' = IF mode.changed THEN [StartSearch EXCEPT !.iter = search.iter] ELSE search
  /\ mode' = [mode EXCEPT !.changed = FALSE]
  /\ force' = (IsCmd(inItem[1], "CONTEXT") \/ IsCmd(inItem[1], "FLUSH"))
  /\ Go("LEAD")
  /\ NoTransfer /\ UNCHANGED << outItems, rout, uttered, givenUp >>

\* o as in ToOutList; what is left of the input; the memory in use at most. The
\* rest of a call that runs out of memory, with the lists in disorder, is left
\* out.
Outputs(o, rest, peak, phase) ==
  /\ rin' = rest /\ rout' = o.rout /\ mode' = o.m
  /\ force' = (force /\ (rest # << >> \/ phase = "LEAD"))
  /\ IF o.crash THEN Leave("CRASHED", "CRASHED")
     ELSE IF peak > DynMem THEN Leave("NOMEMORY", "ERROR")
     ELSE IF phase = "STEP" /\ search.iter <= 0 THEN Leave("STEP", "BUSY")
     ELSE Go(phase)
  /\ NoTransfer /\ UNCHANGED << inItem, outItems, prHist >>
Nothing == [m |-> mode, rout |-> rout, crash |-> FALSE, played |-> TRUE]

PrLead ==
  /\ Running("LEAD") /\ rin # << >> /\ ~IsTok(rin[1])
  /\ search' = [search EXCEPT !.rg = "START"]
  /\ Outputs(LeadItem(Nothing, rin[1]), Tail(rin), 0, "LEAD")

PrLeadEnd ==
  /\ Running("LEAD") /\ rin = << >>
  /\ UNCHANGED search
  /\ Outputs(Nothing, rin, 0, "STEP")

AtToken == Running("LEAD") /\ rin # << >> /\ IsTok(rin[1])
SearchOnly == NoTransfer /\ UNCHANGED << inItem, outItems, rin, rout, mode, force, heard, uttered >>

PrStartSearch ==
  /\ AtToken /\ search.rg \in {"START", "FOUND", "NOTFOUND"}
  /\ search' = Searching(search, mode.actCtx)
  /\ Go("DONE") /\ SearchOnly /\ UNCHANGED givenUp

\* The last element waited for a token, and none came.
GivesUp == /\ search.path # << >> /\ Last(search.path).state = "GETTOKEN2"
           /\ NextItem(search.path) > Len(Toks(rin))
NetToks(path) == [n \in DOMAIN path |-> path[n].tok]

PrRound ==
  /\ AtToken /\ search.rg = "CONTINUE"
  /\ search' = [Round(search, Toks(rin), force) EXCEPT !.iter = @ - 1]
  /\ IF search'.rg = "CONTINUE" /\ search'.iter > 0 THEN Stay ELSE Go("DONE")
  /\ givenUp' = givenUp \cup IF GivesUp THEN {[head |-> rin[1].id, path |-> NetToks(search.path)]} ELSE {}
  /\ SearchOnly

PrWake ==
  /\ AtToken /\ search.rg = "NEEDTOKEN"
  /\ search' = [search EXCEPT !.rg = "CONTINUE"]
  /\ Go("DONE") /\ SearchOnly /\ UNCHANGED givenUp

PrNotFound ==
  /\ Running("DONE") /\ search.rg = "NOTFOUND"
  /\ search' = [search EXCEPT !.rg = "START"]
  /\ Outputs(PlainItem(Nothing, rin[1]), Tail(rin), 0, "STEP")

\* The tokens of the path are given back when all its output is made.
PrFound ==
  /\ Running("DONE") /\ search.rg = "FOUND"
  /\ search' = [search EXCEPT !.rg = "START"]
  /\ \E out \in {GetOutput(search.best, Toks(rin), 1, 1, rin, << >>, << >>)} :
     \E o \in {FoldLeft(PathItem, Nothing, out.out)} :
       Outputs(o, out.inp, Len(rin) + Len(o.rout), "STEP")

PrSearchOn ==
  /\ Running("DONE") /\ search.rg \in {"CONTINUE", "NEEDTOKEN"}
  /\ UNCHANGED search
  /\ Outputs(Nothing, rin, 0, "STEP")

\* Memory is low: what waits is put out before the next item is treated.
Cut == [type |-> "CUT"]
PrMemoryLow ==
  /\ Waiting /\ inItem # << >> /\ InUse * 100 >= DynMem * 45
  /\ force' = TRUE /\ heard' = Append(heard, Cut)
  /\ Stay /\ NoTransfer /\ UNCHANGED << inItem, outItems, rin, rout, search, mode, uttered, givenUp >>

PrGet ==
  /\ Waiting /\ inItem = << >> /\ Take
  /\ inItem' = << Head(cbIn) >>
  /\ Stay /\ UNCHANGED << outItems, rin, rout, search, mode, force, prHist >>

PrIdle ==
  /\ Waiting /\ inItem = << >> /\ cbIn = << >> /\ Return("IDLE")
  /\ NoTransfer /\ UNCHANGED << inItem, outItems, rin, rout, search, mode, force, prHist >>

\* Out of memory is an error until the unit is reset.
PrError ==
  /\ Running("NOMEMORY") /\ Return("ERROR")
  /\ NoTransfer /\ UNCHANGED << inItem, outItems, rin, rout, search, mode, force, prHist >>

PrStep ==
  \/ PrPut \/ PrFull \/ PrMove \/ PrProcess \/ PrTreat \/ PrMemoryLow \/ PrGet \/ PrIdle \/ PrError
  \/ PrLead \/ PrLeadEnd \/ PrStartSearch \/ PrRound \/ PrWake \/ PrNotFound \/ PrFound \/ PrSearchOn

PrCall ==
  /\ status # "CRASHED" /\ Call
  /\ search' = [search EXCEPT !.iter = MaxIter]
  /\ UNCHANGED << inItem, outItems, rin, rout, mode, force, prHist >>

PrReset == status # "CRASHED" /\ UnitReset("STEP") /\ Cleared

PrNext ==
  \/ PrStep \/ PrCall \/ PrReset
  \/ (Arrive(PrInputs) \/ Fetch) /\ UNCHANGED << inItem, outItems, rin, rout, search, mode, force, prHist >>
-----------------------------------------------------------------------------
(* What the search is to find: the readings of the tokens from pos on by the *)
(* network from tok on, all alternatives being tried, and of these the       *)
(* cheapest. A reading has the tokens of the network that were chosen. When  *)
(* no token comes for a path that waits for one, for a command came instead  *)
(* or memory is low, the path is left without its alternatives.              *)

Alternatives ==
  LET step(S) == S \cup {Net[n].altL : n \in {m \in S : "ALTL" \in Net[m].set}}
                    \cup {Net[n].altR : n \in {m \in S : "ALTR" \in Net[m].set}}
      reach[tok \in DOMAIN Net, n \in 0 .. Len(Net)] == IF n = 0 THEN {tok} ELSE step(reach[tok, n - 1])
  IN [tok \in DOMAIN Net |-> reach[tok, Len(Net)]]

RECURSIVE Readings(_, _, _, _, _, _, _)
Readings(tok, toks, pos, vars, out, cost, path) ==
  UNION {
    LET t == Net[a]
        c == cost + PathCost(<< Element(a, 1) >>)
        by == Append(path, a)
        on(p, vs, o, k, w) == IF "NEXT" \in t.set THEN Readings(t.next, toks, p, vs, o, k, w) ELSE {}
        with(v) == IF HasAttr(t, "VAR") THEN (t.attr["VAR"] :> v) @@ vars ELSE vars
    IN CASE "ACCEPT" \in t.set -> {[pos |-> pos, out |-> out, cost |-> c, path |-> by]}
         [] HasAttr(t, "PROD") -> UNION {on(r.pos, with(r.out), out, c + r.cost, r.path) :
              r \in Readings(Prods[t.attr["PROD"]].tok, toks, pos, << >>, << >>, 0, by)}
         [] HasAttr(t, "OUT") -> on(pos, vars, out \o OutputItems(t.attr["OUT"], vars), c, by)
         [] HasToken(t) -> IF pos <= Len(toks) /\ MatchTokens(t, toks[pos])
                             THEN on(pos + 1, with(<< toks[pos] >>), out, c, by) ELSE {}
         [] OTHER -> on(pos, vars, out, c, by) : a \in Alternatives[tok]}

\* The reading r takes an alternative to the token that the path g waited for.
LeftWith(r, g) ==
  LET n == Len(g.path)
  IN /\ n <= Len(r.path) /\ SubSeq(r.path, 1, n - 1) = Front(g.path)
     /\ r.path[n] \in Alternatives[g.path[n]] \ {g.path[n]}
Cheapest(rs) == {r \in rs : \A q \in rs : r.cost <= q.cost}
ReadingsTried(toks, ctx) ==
  {r \in UNION {Readings(Prods[p].tok, toks, 1, << >>, << >>, Prods[p].prefCost, << >>) : p \in ToSet(CtxProds[ctx])} :
     \A g \in givenUp : g.head = toks[1].id => ~LeftWith(r, g)}

\* What is put for tokens: the cheapest reading at the head, again and again.
RECURSIVE Spoken(_, _)
Spoken(toks, ctx) ==
  IF toks = << >> THEN {<< >>}
  ELSE LET rs == Cheapest(ReadingsTried(toks, ctx))
       IN IF rs = {} THEN {<< toks[1] >> \o s : s \in Spoken(Tail(toks), ctx)}
          ELSE UNION {{r.out \o s : s \in Spoken(SubSeq(toks, r.pos, Len(toks)), ctx)} : r \in rs}

\* Text is read in pieces; a piece ends with an item that is no token, or
\* where memory ran low.
RECURSIVE Pieces(_)
Pieces(items) ==
  LET n == CHOOSE k \in 0 .. Len(items) :
             (\A j \in 1 .. k : IsTok(items[j])) /\ (k = Len(items) \/ ~IsTok(items[k + 1]))
      spoken == Spoken(SubSeq(items, 1, n), DefaultContext)
  IN IF n = Len(items) THEN spoken
     ELSE {s \o << items[n + 1] >> \o r : s \in spoken, r \in Pieces(SubSeq(items, n + 2, Len(items)))}

AtRest == status = "IDLE" /\ procState = "STEP" /\ cbIn = << >> /\ inItem = << >> /\ rin = << >>
Wording(items) == [n \in DOMAIN items |-> IF IsTok(items[n]) THEN << >> ELSE << items[n].type, items[n].info1, items[n].str >>]
PutOuts(items) == FlattenSeq([n \in DOMAIN items |-> IF items[n] = Cut THEN << >> ELSE PutOut(items[n])])

(* What has been put for the text, once nothing waits, is the cheapest      *)
(* reading the network has, whatever was interrupted, waited for and taken  *)
(* back on the way, save the readings that take an alternative to a token   *)
(* waited for in vain: those and no others are not tried (pr_getToken).     *)
CheapestReading ==
  AtRest => Wording(uttered) \in {Wording(PutOuts(s)) : s \in Pieces(heard)}
=============================================================================
