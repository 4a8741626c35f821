----------------------------- MODULE PreprocNet -----------------------------
(***************************************************************************)
(* The preprocessing network (picokpr.c, first half of picopr.c): its      *)
(* tokens and productions, how a token of the network matches a token of   *)
(* the text, what a path through the network costs, and the items that the *)
(* path found puts in the place of the text.                               *)
(*                                                                         *)
(* A token of the network is a record: set, its attributes without value;  *)
(* attr, the values of the others; next, altL and altR.  The parameter of  *)
(* OUT is a sequence of output items, and so are their arguments.  Names   *)
(* of productions, contexts and variables are strings.  A character is its *)
(* code; all are ASCII.                                                    *)
(***************************************************************************)
EXTENDS Integers, Sequences, SequencesExt

CONSTANTS
  Net,         \* the tokens, a sequence
  Prods,       \* production -> [tok, prefCost]
  Vowels,      \* characters of token type LETTERV
  PlayFiles    \* the files that can be played

\* Items made here have no number.
Tok(info1, str) ==
  [id |-> 0, type |-> "TOKEN", info1 |-> info1, info2 |-> "NA", str |-> str, val |-> 0]
Cmd(info1, info2, str, val) ==
  [id |-> 0, type |-> "CMD", info1 |-> info1, info2 |-> info2, str |-> str, val |-> val]

IsTok(item) == item.type = "TOKEN"
IsCmd(item, info1) == item.type = "CMD" /\ item.info1 = info1
IsStart(item, info1) == IsCmd(item, info1) /\ item.info2 = "START"
IsEnd(item, info1) == IsCmd(item, info1) /\ item.info2 = "END"

-----------------------------------------------------------------------------
(* Characters and strings. *)

Lower(c) == IF c \in 65 .. 90 THEN c + 32 ELSE c
Upper(c) == IF c \in 97 .. 122 THEN c - 32 ELSE c
strci(str) == [n \in DOMAIN str |-> Lower(str[n])]
strcis(str) == [n \in DOMAIN str |-> IF n = 1 THEN Lower(str[n]) ELSE str[n]]
alc(str) == \A n \in DOMAIN str : str[n] = Lower(str[n])
auc(str) == \A n \in DOMAIN str : str[n] = Upper(str[n])
isSUC(str) == \A n \in DOMAIN str : str[n] = IF n = 1 THEN Upper(str[n]) ELSE Lower(str[n])

DigitStrToInt(str) == FoldLeft(LAMBDA v, c : (10 * v) + (c - 48), 0, str)

RECURSIVE IntToString(_)
IntToString(n) == IF n = 0 THEN << >> ELSE Append(IntToString(n \div 10), 48 + (n % 10))

\* atoi: the number at the beginning.
Atoi(str) ==
  LET digits == {n \in 0 .. Len(str) : \A k \in 1 .. n : str[k] \in 48 .. 57}
  IN DigitStrToInt(SubSeq(str, 1, CHOOSE n \in digits : \A k \in digits : k <= n))

(* Roman numbers, in capitals or in small letters all through. lseq bounds  *)
(* what may follow: the value of the last letter, or less when it may only  *)
(* repeat a number of times.                                                *)
Latin == [c \in {"I", "V", "X", "L", "C", "D", "M"} |->
            CASE c = "I" -> 73 [] c = "V" -> 86 [] c = "X" -> 88 [] c = "L" -> 76
              [] c = "C" -> 67 [] c = "D" -> 68 [] OTHER -> 77]

NotLatin == -1
RECURSIVE LatinFrom(_, _, _, _)
LatinFrom(str, li, lseq, val) ==
  LET at(n) == IF n \in DOMAIN str THEN str[n] ELSE 0
      \* one, with five and ten behind it to be subtracted from
      unit(one, five, ten, w) ==
        IF at(li - 1) # at(li) /\ lseq >= 4 * w
          THEN IF at(li + 1) = five THEN LatinFrom(str, li + 2, w, val + (4 * w))
               ELSE IF at(li + 1) = ten THEN LatinFrom(str, li + 2, w, val + (9 * w))
               ELSE LatinFrom(str, li + 1, 3 * w, val + w)
          ELSE LatinFrom(str, li + 1, lseq - w, val + w)
  IN CASE li > Len(str) -> val
       [] lseq > 1 /\ at(li) = Latin["I"] -> unit(Latin["I"], Latin["V"], Latin["X"], 1)
       [] lseq > 5 /\ at(li) = Latin["V"] -> LatinFrom(str, li + 1, 5, val + 5)
       [] lseq > 10 /\ at(li) = Latin["X"] -> unit(Latin["X"], Latin["L"], Latin["C"], 10)
       [] lseq > 50 /\ at(li) = Latin["L"] -> LatinFrom(str, li + 1, 50, val + 50)
       [] lseq > 100 /\ at(li) = Latin["C"] -> unit(Latin["C"], Latin["D"], Latin["M"], 100)
       [] lseq > 500 /\ at(li) = Latin["D"] -> LatinFrom(str, li + 1, 500, val + 500)
       [] lseq >= 1000 /\ at(li) = Latin["M"] -> LatinFrom(str, li + 1, lseq, val + 1000)
       [] OTHER -> NotLatin

LatinNumber(str) ==
  IF str # << >> /\ str[1] # Upper(str[1])
    THEN IF alc(str) THEN LatinFrom([n \in DOMAIN str |-> Upper(str[n])], 1, 1000, 0) ELSE NotLatin
    ELSE LatinFrom(str, 1, 1000, 0)

-----------------------------------------------------------------------------
(* Matching. *)

HasAttr(t, a) == a \in DOMAIN t.attr
Asks(t, a, P(_)) == HasAttr(t, a) => P(t.attr[a])

\* Compares the lower case of both (pr_compare).
Compare(item, str) ==
  LET a == strci(item.str)  b == strci(str)
      same(n) == \A k \in 1 .. n : k \in DOMAIN a /\ k \in DOMAIN b /\ a[k] = b[k]
      common == CHOOSE n \in 0 .. Len(a) : same(n) /\ ~same(n + 1)
  IN IF a = b THEN "EQUAL"
     ELSE IF common = Len(a) THEN "SMALLER"
     ELSE IF common = Len(b) THEN "LARGER"
     ELSE IF a[common + 1] < b[common + 1] THEN "SMALLER" ELSE "LARGER"

IsEqualHead(str, head) == IsPrefix(head, str)
IsEqualMid(str, mid) == \E n \in 0 .. Len(str) - Len(mid) : SubSeq(str, n + 1, n + Len(mid)) = mid
IsEqualTail(str, tail) == IsSuffix(tail, str)

Parts(t, str) ==
  /\ Asks(t, "HEAD", LAMBDA s : IsEqualHead(str, s))
  /\ Asks(t, "MID", LAMBDA s : IsEqualMid(str, s))
  /\ Asks(t, "TAIL", LAMBDA s : IsEqualTail(str, s))
InRange(t, n) ==
  /\ Asks(t, "MIN", LAMBDA v : n >= v)
  /\ Asks(t, "MAX", LAMBDA v : n <= v)
Length(t, item) == Asks(t, "LEN", LAMBDA v : Len(item.str) = v)
SameId(t, item) == Asks(t, "ID", LAMBDA v : item.info2 = v)
SameStr(t, cmpres) == Asks(t, "STR", LAMBDA s : cmpres = "EQUAL")

MatchSpace(t, item, cmpres) ==
  /\ "SPACE" \in t.set /\ Length(t, item) /\ InRange(t, Len(item.str)) /\ SameStr(t, cmpres)
  /\ Asks(t, "VAL", LAMBDA v : Len(SelectSeq(item.str, LAMBDA c : c = 10)) = v)
  /\ SameId(t, item)

MatchDigit(t, item, cmpres) ==
  /\ "DIGIT" \in t.set /\ Length(t, item)
  /\ LET val == DigitStrToInt(item.str)
     IN InRange(t, val) /\ Asks(t, "VAL", LAMBDA v : val = v)
  /\ SameStr(t, cmpres)
  /\ "NLZ" \in t.set => item.str[1] # 48
  /\ Parts(t, item.str) /\ SameId(t, item)

MatchSeq(t, item, cmpres) ==
  /\ "SEQ" \in t.set /\ Length(t, item) /\ InRange(t, Len(item.str)) /\ SameStr(t, cmpres)
  /\ Parts(t, item.str) /\ SameId(t, item)

MatchChar(t, item, cmpres) == "CHAR" \in t.set /\ SameStr(t, cmpres) /\ SameId(t, item)

MatchLetter(t, item, cmpres) ==
  /\ "LETTER" \in t.set /\ Length(t, item) /\ InRange(t, Len(item.str))
  /\ IF "CI" \in t.set THEN SameStr(t, cmpres) /\ Parts(t, strci(item.str))
     ELSE LET str == IF "CIS" \in t.set THEN strcis(item.str) ELSE item.str
          IN Asks(t, "STR", LAMBDA s : str = s) /\ Parts(t, str)
  /\ "AUC" \in t.set => auc(item.str)
  /\ "ALC" \in t.set => alc(item.str)
  /\ "SUC" \in t.set => isSUC(item.str)
  /\ "ROMAN" \in t.set => LatinNumber(item.str) # NotLatin
  /\ SameId(t, item)

\* What the comparison with the token's string gave; it also chooses the
\* alternative to be tried next.
Cmpres(t, item) == IF HasAttr(t, "STR") THEN Compare(item, t.attr["STR"]) ELSE "EQUAL"

\* A token with LEX, for several tokens of the text, never matches
\* (pr_matchMultiToken is empty).
MatchTokens(t, item) ==
  LET cmpres == Cmpres(t, item)
  IN /\ ~(HasAttr(t, "LEX") /\ "LETTER" \notin t.set)
     /\ CASE item.info1 = "SPACE" -> MatchSpace(t, item, cmpres)
          [] item.info1 = "DIGIT" -> MatchDigit(t, item, cmpres)
          [] item.info1 = "LETTER" -> MatchLetter(t, item, cmpres)
          [] item.info1 = "SEQ" -> MatchSeq(t, item, cmpres)
          [] item.info1 = "CHAR" -> MatchChar(t, item, cmpres)
          [] OTHER -> FALSE

HasToken(t) ==
  t.set \cap {"SPACE", "DIGIT", "LETTER", "SEQ", "CHAR", "BEGIN", "END"} # {} \/ HasAttr(t, "LEX")

PrCost == 10
PathCost(path) ==
  FoldLeft(LAMBDA cost, e :
             LET t == Net[e.tok]
             IN cost + IF HasAttr(t, "COST") THEN t.attr["COST"] - PrCost
                       ELSE IF HasToken(t) THEN -PrCost ELSE 0,
           IF path = << >> THEN 0 ELSE path[1].prefCost, path)

-----------------------------------------------------------------------------
(* Output. vars gives the items of the variables set so far. *)

Var(vars, id) == IF id \in DOMAIN vars THEN vars[id] ELSE << >>
Toks(items) == SelectSeq(items, IsTok)
JoinedStr(items) == FlattenSeq([n \in DOMAIN Toks(items) |-> Toks(items)[n].str])
FirstTok(items) == IF items # << >> /\ IsTok(items[1]) THEN << items[1] >> ELSE << >>

\* The first item, a token, with its text changed by f.
OnFirst(items, f(_)) ==
  [n \in DOMAIN FirstTok(items) |-> [items[n] EXCEPT !.str = f(@)]]

\* One character of a token that is spelled, and what is put behind it.
SpecChar == << 92, 47 >>    \* "\\/", behind a letter that is a vowel
Comma == << 44 >>
Spelled(item, c, mode) ==
  << [Tok(item.info1, IF c \in Vowels THEN << c >> \o SpecChar ELSE << c >>)
        EXCEPT !.info2 = item.info2] >>
  \o CASE mode = -1 \/ mode > 0 -> << Tok("CHAR", Comma) >>
       [] mode = -2 -> << Cmd("FLUSH", "NA", << >>, 0) >>
       [] OTHER -> << >>
SpellItem(item, mode) ==
  IF IsTok(item) THEN FlattenSeq([n \in DOMAIN item.str |-> Spelled(item, item.str[n], mode)])
                 ELSE << item >>

\* Tokens between commands are made one.
Concat(items) ==
  LET joined == FoldLeft(LAMBDA s, item :
                  IF IsTok(item) THEN [s EXCEPT !.str = @ \o item.str]
                  ELSE [out |-> s.out \o << Tok("UNDEFINED", s.str), item >>, str |-> << >>],
                  [out |-> << >>, str |-> << >>], items)
  IN Append(joined.out, Tok("UNDEFINED", joined.str))

Default == [Pitch |-> 100, Speed |-> 100, Volume |-> 100]
NumCmd == [Pitch |-> "PITCH", Speed |-> "SPEED", Volume |-> "VOLUME", Break |-> "SIL"]
NameCmd == [Voice |-> "VOICE", Context |-> "CONTEXT", Mark |-> "MARKER"]
DefaultContext == << 68, 69, 70, 65, 85, 76, 84 >>
DefaultName == [Voice |-> << >>, Context |-> DefaultContext, Mark |-> << >>]

RECURSIVE OutputItems(_, _)

\* A number given, or that a token begins with.
NumArg(o, vars) ==
  IF o.arg = << >> THEN IF o.type \in DOMAIN Default THEN << Default[o.type] >> ELSE << >>
  ELSE IF o.arg[1].type = "Val" THEN << o.arg[1].val >>
  ELSE LET first == FirstTok(IF o.arg[1].type = "Var" THEN Var(vars, o.arg[1].val)
                             ELSE OutputItems(o.arg, vars))
       IN [n \in DOMAIN first |-> Atoi(first[n].str)]

\* A name given, that of all tokens of a variable, or of the first token.
NameArg(o, vars) ==
  IF o.arg = << >> THEN << DefaultName[o.type] >>
  ELSE IF o.arg[1].type = "Var" THEN << JoinedStr(Var(vars, o.arg[1].val)) >>
  ELSE IF o.arg[1].type = "Str" THEN << o.arg[1].str >>
  ELSE LET first == FirstTok(OutputItems(o.arg, vars))
       IN [n \in DOMAIN first |-> first[n].str]

LeadingZeros(s) == CHOOSE n \in 0 .. Len(s) :
  (\A k \in 1 .. n : s[k] = 48) /\ (n = Len(s) \/ s[n + 1] # 48)

PauseDur == 500
GenCommands(o, vars) ==
  CASE o.type = "Ignore" ->
         << Cmd("IGNORE", IF o.val = 0 THEN "START" ELSE "END", << >>, 0) >>
    [] o.type \in DOMAIN NumCmd ->
         LET args == NumArg(o, vars)
         IN [n \in DOMAIN args |-> Cmd(NumCmd[o.type], "ABSOLUTE", << >>, args[n])]
    [] o.type \in DOMAIN NameCmd ->
         LET args == NameArg(o, vars)
         IN [n \in DOMAIN args |-> Cmd(NameCmd[o.type], "NA", args[n], 0)]
    [] o.type = "Sent" -> << Cmd("FLUSH", "NA", << >>, 0) >>
    [] o.type = "Para" ->
         << Cmd("FLUSH", "NA", << >>, 0) >>
         \o IF o.val = 1 THEN << Cmd("SIL", "NA", << >>, PauseDur) >> ELSE << >>
    [] o.type \in {"Play", "UseSig"} ->
         LET ign == IF o.type = "Play" THEN "IGNORE" ELSE "IGNSIG"
             args == IF o.arg = << >> THEN << >> ELSE NameArg(o, vars)
             play == [n \in DOMAIN args |-> Cmd("PLAY", "NA", args[n], 0)]
         IN \* a file named by a variable is given twice
            (IF o.arg # << >> /\ o.arg[1].type = "Var" THEN play ELSE << >>) \o play
            \o << Cmd(ign, IF o.arg # << >> THEN "START" ELSE "END", << >>, 0) >>
    \* phonetic strings put nothing (pr_putItem); GenFile is left out
    [] OTHER -> << >>

OutputItem(o, vars) ==
  CASE o.type = "Str" -> << Tok("UNDEFINED", o.str) >>
    [] o.type = "Var" -> Var(vars, o.val)
    [] o.type = "Spell" ->
         LET mode == IF Len(o.arg) > 1 THEN o.arg[2].val ELSE 0
             items == OutputItems(o.arg, vars)
         IN FlattenSeq([n \in DOMAIN items |-> SpellItem(items[n], mode)])
    [] o.type = "Concat" -> Concat(OutputItems(o.arg, vars))
    [] o.type = "RomanToCard" ->
         OnFirst(OutputItems(o.arg, vars),
                 LAMBDA s : IF LatinNumber(s) # NotLatin THEN IntToString(LatinNumber(s)) ELSE s)
    [] o.type = "Val" -> << >>
    [] o.type = "Left" ->
         OnFirst(OutputItems(Tail(o.arg), vars),
                 LAMBDA s : SubSeq(s, 1, IF o.arg[1].val < Len(s) THEN o.arg[1].val ELSE Len(s)))
    [] o.type = "Right" ->
         OnFirst(OutputItems(Tail(o.arg), vars),
                 LAMBDA s : SubSeq(s, IF o.arg[1].val < Len(s) THEN Len(s) + 1 - o.arg[1].val ELSE 1,
                                   Len(s)))
    [] o.type = "Item" ->
         LET items == OutputItems(Tail(o.arg), vars)  n == o.arg[1].val
         IN IF n <= Len(items) /\ IsTok(items[n]) THEN << items[n] >> ELSE << >>
    [] o.type = "RLZ" ->
         OnFirst(OutputItems(o.arg, vars),
                 LAMBDA s : SubSeq(s, 1 + LeadingZeros(s), Len(s)))
    [] OTHER -> GenCommands(o, vars)

OutputItems(os, vars) == FlattenSeq([n \in DOMAIN os |-> OutputItem(os[n], vars)])
=============================================================================
