----------------------------- MODULE Tokenizer ------------------------------
(***************************************************************************)
(* The tokenizer (picotok.c): assembles the bytes of the text to UTF-8     *)
(* characters, cuts these into tokens of one type, and recognizes markup   *)
(* in them, which becomes command items.  What looks like markup and turns *)
(* out not to be is treated as text after all.                             *)
(*                                                                         *)
(* A byte is a record of what it is and of its number in the text, which   *)
(* tells it from the others; 0 is the number of bytes the unit makes.  The *)
(* bytes that are distinguished: letters, digits, the signs of markup,     *)
(* "." for other signs, "?" for what is in no table, " ", "EOL", "NUL",    *)
(* and "L2" and "T", the first and second byte of a letter of two bytes.   *)
(***************************************************************************)
EXTENDS ProcUnit, SequencesExt

CONSTANTS
  TokBuf,         \* IN_BUF_SIZE
  MarkupBuf,      \* MARKUP_STRING_BUF_SIZE
  OutBuf,         \* OUT_BUF_SIZE
  MaxParams,      \* MAX_NR_MARKUP_PARAMS
  Letters, Digits,
  TagId,          \* the known tags: a name, as a sequence of bytes, to its MarkupId
  Keyword,        \* the name of the attribute a tag needs, the same for all
  GoodValues,     \* its values that can be used
  Texts           \* pieces of text that may arrive

VARIABLES
  tok,            \* the tokenizer, see TokInit
  said, read      \* all items put, and all bytes read so far, these with the
                  \* ignLevel there was (for the properties)

tokHist == << said, read >>
tokVars == << unitVars, tok, tokHist >>

NewTok ==
  [ utf |-> << >>, utflen |-> 0, tokenStr |-> << >>, tokenType |-> "UNDEFINED",
    markupState |-> "NotIn", markupStr |-> << >>, tagName |-> << >>, tagType |-> "Start",
    params |-> << >>, param |-> [id |-> << >>, val |-> << >>], delim |-> " ",
    tagErr |-> FALSE, ignLevel |-> 0, nrEOL |-> 0, saveFile |-> << >>, out |-> << >> ]

Sign(c) == [c |-> c, at |-> Made]
Chars(str) == [n \in DOMAIN str |-> str[n].c]
IsBlank(c) == c \in {" ", "EOL"}
OutLen(t) == FoldLeft(LAMBDA n, item : n + 4 + Len(item.text), 0, t.out)

-----------------------------------------------------------------------------
(* Items. An item that does not fit into outBuf is left out, also a token;  *)
(* only a flush is put regardless, of space and of ignLevel.                *)
PutItem(t, kind, text, at) ==
  LET item == [kind |-> kind, text |-> text, at |-> at]
  IN IF kind = "FLUSH" \/ (t.ignLevel = 0 /\ OutLen(t) + 4 + Len(text) < OutBuf)
       THEN [t EXCEPT !.out = Append(t.out, item)]
       ELSE t

PutItems(t, kinds, at) == FoldLeft(LAMBDA s, k : PutItem(s, k, << >>, at), t, kinds)

PutToken(t) ==
  LET s == IF t.tokenStr # << >> /\ (t.ignLevel = 0 \/ t.tokenType = "SPACE")
             THEN PutItem(t, "TOKEN", t.tokenStr, Made) ELSE t
  IN [s EXCEPT !.tokenStr = << >>, !.tokenType = "UNDEFINED"]

\* tok_putToSimpleToken: a token that gets too long is cut, wherever that is.
PutToSimpleToken(t, str, type) ==
  LET Add(s, b) == LET r == IF Len(s.tokenStr) >= TokBuf THEN PutToken(s) ELSE s
                   IN [r EXCEPT !.tokenStr = Append(r.tokenStr, b)]
  IN [FoldLeft(Add, t, str) EXCEPT !.tokenType = type]

-----------------------------------------------------------------------------
(* Plain text.                                                              *)
GraphType(c) ==
  CASE IsBlank(c)                  -> "SPACE"
    [] c \in Letters \union {"L2"} -> "LETTER"
    [] c \in Digits                -> "DIGIT"
    [] c = "?"                     -> "UNDEFINED"
    [] OTHER                       -> "CHAR"

CountEOL(t, c) ==
  [t EXCEPT !.nrEOL = IF c = "EOL" THEN t.nrEOL + 1 ELSE IF c = " " THEN t.nrEOL ELSE 0]

\* Two ends of line among blanks make a full stop. A character in no table ends
\* the token and is left out.
PlainChar(t0, u) ==
  LET c == Head(u).c
      t == CountEOL(t0, c)
      type == GraphType(c)
      cut == IF type # t.tokenType \/ type = "CHAR" THEN PutToken(t)
             ELSE IF c = "EOL" /\ t.nrEOL = 2
               THEN PutToken(PutToSimpleToken(PutToken(t), << Sign(".") >>, "CHAR"))
             ELSE t
  IN IF type = "UNDEFINED" THEN PutToken(t) ELSE PutToSimpleToken(cut, u, type)

\* tok_putToUtf: what a byte makes of the character it continues.
Utf8Len(c) == CASE c = "L2" -> 2 [] c = "T" -> 0 [] OTHER -> 1
PutToUtf(t, b) ==
  LET len == IF t.utf = << >> THEN Utf8Len(b.c) ELSE IF b.c = "T" THEN t.utflen ELSE 0
  IN [t EXCEPT !.utf = Append(t.utf, b), !.utflen = len]
Malformed(t) == Len(t.utf) > t.utflen
Complete(t) == Len(t.utf) = t.utflen
NoUtf(t) == [t EXCEPT !.utf = << >>, !.utflen = 0]

PlainByte(t, b) ==
  LET s == PutToUtf(t, b)
  IN IF Malformed(s) THEN NoUtf(s)
     ELSE IF Complete(s) THEN NoUtf(PlainChar(s, s.utf)) ELSE s

\* tok_treatMarkupAsSimpleToken
MarkupAsText(t) ==
  LET s == FoldLeft(PlainByte, [NoUtf(t) EXCEPT !.markupState = "NotIn"], t.markupStr)
  IN [s EXCEPT !.markupStr = << >>]

\* tok_treatSimpleToken
TreatSimpleToken(t) == PutToken(IF t.markupState # "NotIn" THEN MarkupAsText(t) ELSE t)

-----------------------------------------------------------------------------
(* The parser of tags, byte by byte.                                        *)
AttrChar(c, first) == c \in Letters \/ (~first /\ c \in Digits)
MarkupError(t) == [t EXCEPT !.markupState = "Error", !.tagErr = TRUE]
To(t, state) == [t EXCEPT !.markupState = state]

\* What is written to an attribute beyond MaxParams is lost.
AddToId(t, c) == IF Len(t.params) < MaxParams THEN [t EXCEPT !.param.id = Append(@, c)] ELSE t
AddToVal(t, c) == IF Len(t.params) < MaxParams THEN [t EXCEPT !.param.val = Append(@, c)] ELSE t
EndParam(t) ==
  [t EXCEPT !.params = IF Len(t.params) < MaxParams THEN Append(t.params, t.param) ELSE t.params,
            !.param = [id |-> << >>, val |-> << >>]]

TagByte(t, c) ==
  LET state == t.markupState
  IN CASE state = "NotIn" -> \* only called with "<"
            [To(t, "GotStart") EXCEPT !.params = << >>, !.tagName = << >>, !.tagType = "Start",
                                      !.param = [id |-> << >>, val |-> << >>]]
       [] state = "GotStart" /\ c = "/" -> [To(t, "ExpectingName") EXCEPT !.tagType = "End"]
       [] state = "GotStart" /\ c = " " -> To(t, "ExpectingName")
       [] \/ state \in {"GotStart", "ExpectingName"} /\ AttrChar(c, TRUE)
          \/ state = "InName" /\ AttrChar(c, FALSE) ->
            [To(t, "InName") EXCEPT !.tagName = Append(@, c)]
       [] state = "InName" /\ c = " " -> To(t, "GotName")
       [] state \in {"GotName", "GotAttrValue"} /\ AttrChar(c, TRUE) /\ t.tagType # "End" ->
            To(AddToId(t, c), "InAttrName")
       [] state = "InAttrName" /\ AttrChar(c, FALSE) -> AddToId(t, c)
       [] state = "InAttrName" /\ c = " " -> To(t, "GotAttrName")
       [] state \in {"InAttrName", "GotAttrName"} /\ c = "=" -> To(t, "GotEqual")
       [] state = "GotEqual" /\ c = "'" -> [To(t, "InAttrValue") EXCEPT !.delim = c]
       [] state = "InAttrValue" /\ c = t.delim -> To(EndParam(t), "GotAttrValue")
       [] state = "InAttrValue" /\ c # t.delim -> AddToVal(t, c)
       [] state = "GotEndSlash" /\ c = ">" -> To(t, "GotEnd")
       [] OTHER -> MarkupError(t)

MarkupByte(t, b) ==
  LET c == b.c
      state == t.markupState
      s == IF Len(t.markupStr) >= MarkupBuf - 1 THEN To(t, "ErrorTooLong")
           ELSE IF c = " " /\ state \in {"ExpectingName", "GotName", "GotAttrName", "GotEqual",
                                         "GotAttrValue"} THEN t
           ELSE IF c = ">" /\ state \in {"InName", "GotName", "GotAttrValue"} THEN To(t, "GotEnd")
           ELSE IF c = "/" /\ state \in {"InName", "GotName", "GotAttrValue"}
             THEN IF t.tagType = "End" THEN MarkupError(t)
                  ELSE [To(t, "GotEndSlash") EXCEPT !.tagType = "Empty"]
           ELSE TagByte(t, c)
  IN IF s.tagErr THEN s ELSE [s EXCEPT !.markupStr = Append(@, b)]

PutToMarkup(t, u) == FoldLeft(MarkupByte, [t EXCEPT !.tagErr = FALSE], u)

-----------------------------------------------------------------------------
(* The meaning of tags.                                                     *)
NeedsKeyword(id) == id \notin {"MIIgnore", "MISentence", "MIParagraph", "MISpell"}
MayFail(id) == id \in {"MIBreak"}    \* the start tag is no tag with a bad value

StartItems(id, good) ==
  CASE id = "MIVoice"     -> << "VOICE", "FLUSH", "PROSDOMAIN" >>
    [] id = "MISentence"  -> << "FLUSH", "PROSDOMAIN" >>
    [] id = "MIParagraph" -> << "FLUSH", "PROSDOMAIN" >>
    [] id = "MIBreak"     -> << "SIL" >>
    [] id = "MISpell"     -> << "SPELL" >>
    [] id = "MIMarker"    -> << "MARKER" >>
    [] id = "MILevel"     -> << "LEVEL" >>     \* speed, pitch, volume, speaker, context
    [] id = "MIPlay"      -> IF good THEN << "PLAY" >> ELSE << >>
    [] id = "MIUseSig"    -> IF good THEN << "PLAY", "IGNSIG" >> ELSE << >>
    [] id = "MIPhoneme"   -> IF good THEN << "PHONEME" >> ELSE << >>
    [] OTHER              -> << >>

EndItems(id) ==
  CASE id = "MIVoice"     -> << "VOICE", "FLUSH", "PROSDOMAIN" >>
    [] id = "MISentence"  -> << "FLUSH", "PROSDOMAIN" >>
    [] id = "MIParagraph" -> << "FLUSH", "SIL", "PROSDOMAIN" >>
    [] id = "MISpell"     -> << "SPELL" >>
    [] id = "MILevel"     -> << "LEVEL" >>
    [] id = "MIUseSig"    -> << "IGNSIG" >>
    [] id = "MIPhoneme"   -> << "PHONEME" >>
    [] OTHER              -> << >>

\* A file of MIPlay that does not exist is ignored, and so is its end then.
StartLevel(t, id, good) ==
  IF id = "MIIgnore" \/ (id = "MIPlay" /\ (good \/ t.ignLevel > 0))
    THEN t.ignLevel + 1 ELSE t.ignLevel
EndLevel(t, id) ==
  IF id \in {"MIIgnore", "MIPlay"} /\ t.ignLevel > 0 THEN t.ignLevel - 1 ELSE t.ignLevel

\* The file that is being saved is closed before another is.
Unsave(t, at) ==
  IF t.saveFile # << >> THEN [PutItem(t, "UNSAVE", << >>, at) EXCEPT !.saveFile = << >>] ELSE t

StartTag(t, id, at) ==
  LET first == IF t.params = << >> THEN [id |-> << >>, val |-> << >>] ELSE t.params[1]
      good == first.val \in GoodValues
      s == PutItems(t, StartItems(id, good), at)
  IN IF \/ NeedsKeyword(id) /\ first.id # Keyword
        \/ id = "MIIgnore" /\ first.id # << >>
        \/ MayFail(id) /\ ~good
       THEN [t EXCEPT !.tagErr = TRUE]
     ELSE IF id = "MIGenFile"
       THEN [PutItem(Unsave(t, at), "SAVE", << >>, at) EXCEPT !.saveFile = first.val]
     ELSE [s EXCEPT !.ignLevel = StartLevel(t, id, good)]

EndTag(t, id, at) ==
  IF id = "MIGenFile" THEN Unsave(t, at)
  ELSE [PutItems(t, EndItems(id), at) EXCEPT !.ignLevel = EndLevel(t, id)]

\* tok_treatMarkup, at the ">" that ends the tag; a tag that is not known, or
\* cannot be interpreted, is text.
TreatMarkup(t) ==
  LET id == TagId[t.tagName]
      at == Last(t.markupStr).at
      cut == IF t.tokenType \notin {"SPACE", "UNDEFINED"}
               THEN PutToken(To(t, "NotIn")) ELSE To(t, "NotIn")
      spaced == PutToSimpleToken(cut, << Sign(" ") >>, "SPACE")
      started == IF t.tagType # "End" THEN StartTag(spaced, id, at) ELSE spaced
      ended == IF t.tagType # "Start" THEN EndTag([started EXCEPT !.params = << >>], id, at)
               ELSE started
      done == IF t.tagName \notin DOMAIN TagId THEN MarkupAsText(t)
              ELSE IF ended.tagErr THEN MarkupAsText(ended) ELSE ended
  IN [done EXCEPT !.markupState = "NotIn", !.markupStr = << >>]

-----------------------------------------------------------------------------
(* tok_treatChar                                                            *)
FreshChar(t, u) ==
  IF Head(u).c = "<" THEN PutToMarkup(CountEOL(t, "<"), u) ELSE PlainChar(t, u)

\* (mutant) After an error the current character is not looked at again.
MarkupCharLost(t0, u) ==
  LET t == CountEOL(t0, Head(u).c)
      s == PutToMarkup(t, u)
  IN IF s.markupState \in {"Error", "ErrorTooLong"} THEN MarkupAsText(s)
     ELSE IF s.markupState = "GotEnd" THEN TreatMarkup(s)
     ELSE s

MarkupChar(t0, u) ==
  LET t == CountEOL(t0, Head(u).c)
      s == PutToMarkup(t, u)
  IN IF s.markupState \in {"Error", "ErrorTooLong"} THEN FreshChar(MarkupAsText(s), u)
     ELSE IF s.markupState = "GotEnd" THEN TreatMarkup(s)
     ELSE s

TreatChar(t, b) ==
  LET s == PutToUtf(t, b)
  IN IF b.c = "NUL" THEN PutItem(TreatSimpleToken(t), "FLUSH", << >>, b.at)
     ELSE IF Malformed(s) THEN NoUtf(s)
     ELSE IF ~Complete(s) THEN s
     ELSE IF s.markupState # "NotIn" THEN NoUtf(MarkupChar(s, s.utf))
     ELSE NoUtf(FreshChar(s, s.utf))

-----------------------------------------------------------------------------
(* tokStep                                                                  *)
TokInit == UnitInit("TOK") /\ tok = NewTok /\ said = << >> /\ read = << >>

TokPut ==
  /\ Running("TOK") /\ tok.out # << >> /\ Put(Head(tok.out))
  /\ tok' = [tok EXCEPT !.out = Tail(@)]
  /\ said' = Append(said, Head(tok.out))
  /\ Stay /\ UNCHANGED read

TokFull ==
  /\ Running("TOK") /\ tok.out # << >> /\ ~Room
  /\ Return("OUT_FULL") /\ NoTransfer /\ UNCHANGED << tok, tokHist >>

TokChar ==
  /\ Running("TOK") /\ tok.out = << >> /\ Take
  /\ tok' = TreatChar(tok, Head(cbIn))
  /\ read' = Append(read, [ign |-> tok.ignLevel] @@ Head(cbIn))
  /\ Stay /\ UNCHANGED said

TokIdle ==
  /\ Running("TOK") /\ tok.out = << >> /\ cbIn = << >>
  /\ Return("IDLE") /\ NoTransfer /\ UNCHANGED << tok, tokHist >>

TokStep == TokPut \/ TokFull \/ TokChar \/ TokIdle

\* Some text is given to the engine; its bytes are numbered from 100 * fed on.
TokFeed ==
  /\ status # "running" /\ cbIn = << >> /\ fed < MaxItems
  /\ fed' = fed + 1
  /\ \E text \in Texts : cbIn' = [n \in DOMAIN text |-> [c |-> text[n], at |-> 100 * fed' + n]]
  /\ UNCHANGED << cbOut, procState, status, tok, tokHist >>

TokReset == UnitReset("TOK") /\ tok' = NewTok /\ said' = << >> /\ read' = << >>

TokNext ==
  \/ TokStep
  \/ (Call \/ Fetch) /\ UNCHANGED << tok, tokHist >>
  \/ TokFeed
  \/ TokReset

-----------------------------------------------------------------------------
(* Properties.                                                              *)
\* All bytes that left or wait to leave, oldest first; a command counts as the
\* byte that ended its tag. Blanks are left out: one that is pending when a
\* command is put follows it. A letter of two bytes counts as its second.
Bytes(items) ==
  FlattenSeq([n \in DOMAIN items |->
    IF items[n].kind = "TOKEN" THEN items[n].text
    ELSE << [c |-> items[n].kind, at |-> items[n].at] >>])
Visible(str) == SelectSeq(str, LAMBDA b : b.at # Made /\ b.c # "L2" /\ ~IsBlank(b.c))
Outgoing == Visible(Bytes(said \o tok.out) \o tok.tokenStr \o tok.markupStr)
Gone == {Outgoing[n].at : n \in DOMAIN Outgoing}

\* Text and commands leave in the order of the text, and no byte twice (though
\* several commands may stand for one tag): also text that was held back because
\* it looked like markup, "up to (but not including) current char", and is
\* treated again (picotok.c:1350, tok_treatMarkupAsSimpleToken).
TextInOrder ==
  \A n \in 1 .. Len(Outgoing) - 1 :
    \/ Outgoing[n].at < Outgoing[n + 1].at
    \/ Outgoing[n].at = Outgoing[n + 1].at /\ Outgoing[n].c # Outgoing[n + 1].c

\* The byte read as number n belongs to a tag that was interpreted.
InTag(n) ==
  \E lo \in 1 .. n, hi \in n .. Len(read) :
    /\ read[lo].c = "<" /\ read[hi].c = ">"
    /\ \A k \in lo .. hi : read[k].at \in Gone => k = hi

\* No text is lost but in tags, between tags that say so, in characters that
\* are in no table, and after a character that is cut off, which takes the next
\* byte with it, also over a flush. (A tag that is longer than outBuf and turns
\* out to be none is lost in part.)
NoTextLost ==
  \A n \in DOMAIN read :
    \/ read[n].at \in Gone \/ read[n].ign > 0 \/ InTag(n)
    \/ IsBlank(read[n].c) \/ read[n].c \in {"?", "T", "L2"}
    \/ \E k \in 1 .. n - 1 :
         read[k].c = "L2" /\ \A j \in k + 1 .. n - 1 : read[j].c = "NUL"

\* Both, between calls.
TextKept == status # "running" => TextInOrder /\ NoTextLost
=============================================================================
