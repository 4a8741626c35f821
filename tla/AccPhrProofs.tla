---------------------------- MODULE AccPhrProofs -----------------------------
(***************************************************************************)
(* Accentuation and phrasing, for all sizes of its buffers, all trees and  *)
(* all inputs: a phrase never outgrows its slots, the BOUNDs at the output *)
(* follow one another as the next unit expects, a sentence carries its own *)
(* type, and the items pass through in order.                              *)
(***************************************************************************)
EXTENDS AccPhr, SequenceTheorems, TLAPS

Open == {"SBEG", "PHR1"}
Sub == {"PHR2", "PHR3"}

\* What the assumption says of an item holds for all that wait.
Fed(it) ==
  /\ it.kind = "PUNC" => it.info1 \in {"s", "p", "f"} /\ it.info2 \in PuncTypes
  /\ it.kind = "WORDPHON" => it.info1 # "f"
InputSound == \A n \in 1 .. Len(cbIn) : Fed(cbIn[n])

HeadSound(h) ==
  IF h.kind = "PUNC" THEN h.info1 \in {"s", "p", "f"} /\ h.info2 \in PuncTypes
                     ELSE h.info1 # "f"
HeadsSound == \A n \in 1 .. Len(headx) : HeadSound(headx[n])

\* While a phrase is collected there is a slot for a forced PUNC, and as long as
\* inspaceok is set one more, for the next item.
SpareSlot ==
  procState = "COLLECT" /\ needsmoreitems =>
    /\ Len(headx) < MaxHeadx
    /\ inspaceok => Len(headx) < MaxHeadx - 1

\* A phrase that is complete ends with its only PUNC.
Complete == procState # "COLLECT" \/ ~needsmoreitems
OnePhrase ==
  /\ \A n \in 1 .. Len(headx) : headx[n].kind = "PUNC" => n = Len(headx) /\ Complete
  /\ Complete => headx # << >> /\ headx[Len(headx)].kind = "PUNC"

\* The loop of FEED starts anew with every call, at the first item that is not out
\* yet; the PUNC stays the last of them.
FeedIndex ==
  /\ status # "running" \/ procState # "FEED" => ind = 0
  /\ procState # "FEED" => headxBottom = 0
  /\ procState = "FEED" =>
       /\ headxBottom < Len(headx)
       /\ \/ ind = 0 \/ ind = headxBottom + 1
          \/ ind = Len(headx) + 1 /\ headxBottom = Len(headx) - 1

\* The output is empty when the loop starts, so that the BOUND a phrase begins
\* with and its first item are put by the same call.
OutDrained ==
  /\ Len(cbOut) <= OutCap
  /\ status \in {"ATOMIC", "ERROR"} => cbOut = << >>
  /\ status = "running" /\ ind = 0 => cbOut = << >>
  /\ status = "running" /\ ind = 1 /\ headxBottom = 0 => Len(cbOut) <= 1

Strengths ==
  procState \in {"ACC", "FEED"} =>
    /\ headxBottom = 0 => headx[1].strength \in Open
    /\ headx[1].strength \notin Sub
    /\ \A n \in 2 .. Len(headx) :
         /\ headx[n].strength \notin Open
         /\ headx[n].strength \in Sub => headx[n].kind = "WORDPHON"
    /\ boundStrengthState = IF Punc.info1 = "p" THEN "PPHR" ELSE "SSEP"

\* The end of the output, what has left included.
EndOf(l, s) == IF s = << >> THEN l ELSE s[Len(s)]
Latest == EndOf(last, cbOut)

\* A sentence begins after the end of another, a phrase inside of one.
Begins(sentence) ==
  IF sentence THEN Latest.kind \in Closing ELSE Latest.kind \notin Closing \union Sub

EndOpen ==
  /\ procState \in {"COLLECT", "PHR"} => Begins(boundStrengthState = "SSEP")
  /\ procState = "ACC" => Begins(headx[1].strength = "SBEG")
  /\ procState = "FEED" /\ headxBottom = 0 /\ ind = 0 => Begins(headx[1].strength = "SBEG")
  /\ procState = "FEED" /\ headxBottom = 0 /\ ind = 1 =>
       IF headx[1].info1 = "f" THEN Latest.kind \notin Sub ELSE Latest.kind \in Open
  /\ procState = "FEED" /\ headxBottom > 0 /\ ind \in {0, headxBottom + 1} =>
       \/ Latest.kind \in Kinds
       \/ /\ Latest.kind \in Sub
          /\ headx[headxBottom + 1].strength = "none"
          /\ headx[headxBottom + 1].kind # "PUNC"
  /\ procState = "FEED" /\ ind = headxBottom + 2 => Begins(boundStrengthState = "SSEP")

\* A BOUND that is still to come carries the type of the phrase, or the last one
\* put does.
SubFrom(n) == \E m \in n .. Len(headx) : headx[m].strength \in Sub
ToneComing ==
  procState \in {"ACC", "FEED"} =>
    /\ \A n \in headxBottom + 1 .. Len(headx) :
         headx[n].strength \in Sub => headx[n].btype = Punc.info2 \/ SubFrom(n + 1)
    /\ headxBottom = 0 /\ ind = 0 => headx[1].btype = Punc.info2 \/ SubFrom(2)
    /\ (headxBottom > 0 \/ ind = 1) /\ headx[1].info1 # "f" =>
         tone = Punc.info2 \/ SubFrom(headxBottom + 1)

AcInv ==
  /\ TypeOK /\ InputSound /\ HeadsSound /\ SpareSlot /\ OnePhrase /\ FeedIndex
  /\ OutDrained /\ Strengths /\ EndOpen /\ ToneComing /\ BoundsFollow

-----------------------------------------------------------------------------
(* What the types say of the parts of the state.                            *)
LEMMA Types ==
  ASSUME TypeOK
  PROVE  /\ Len(headx) \in Nat /\ Len(cbIn) \in Nat /\ Len(cbOut) \in Nat
         /\ headxBottom \in Nat /\ headxBottom <= Len(headx) /\ ind \in Nat
         /\ DOMAIN headx = 1 .. Len(headx) /\ DOMAIN cbOut = 1 .. Len(cbOut)
         /\ DOMAIN cbIn = 1 .. Len(cbIn)
         /\ cbIn \in Seq(Arrived) /\ cbOut \in Seq(Ready) /\ headx \in Seq(Heads)
         /\ \A n \in 1 .. Len(cbIn) : cbIn[n] \in Arrived
         /\ \A n \in 1 .. Len(cbOut) : cbOut[n] \in Ready
         /\ \A n \in 1 .. Len(headx) : headx[n] \in Heads
         /\ MaxHeadx \in Nat /\ CbufSize \in Nat /\ OutCap \in Nat /\ OutCap >= 2
BY AcphAssumption DEF TypeOK

LEMMA HeadTyped ==
  ASSUME NEW h \in Heads
  PROVE  /\ h.id \in Nat /\ h.kind \in Kinds /\ h.info1 \in Info1
         /\ h.info2 \in PuncTypes \union {"NA"}
         /\ h.strength \in Opening \union {"PHR0", "none"}
         /\ h.btype \in PuncTypes \union {"NA"}
         /\ AsItem(h) \in Ready /\ AsItem(h).kind = h.kind
BY DEF Heads, AsItem, Ready

LEMMA BoundTyped ==
  ASSUME NEW k \in Opening \union Closing, NEW t \in PuncTypes \union {"NA"}
  PROVE  Bound(k, t) \in Ready /\ Bound(k, t).kind = k /\ Bound(k, t).type = t
BY DEF Bound, Ready, Made

\* The kinds of the items and of the BOUNDs are different things.
LEMMA KindFacts ==
  /\ \A k \in Kinds : k \notin Opening /\ k \notin Closing /\ k \notin Sub
  /\ \A k \in Open : k \in Opening /\ k \notin Sub /\ k \notin Closing
  /\ \A k \in Sub : k \in Opening /\ k \notin Closing /\ k \notin Kinds
BY DEF Kinds, Opening, Closing, Sub, Open

\* What an append leaves as it was.
LEMMA AppendFacts ==
  ASSUME NEW S, NEW s \in Seq(S), NEW x \in S
  PROVE  /\ Append(s, x) \in Seq(S) /\ Len(Append(s, x)) = Len(s) + 1 /\ Append(s, x) # << >>
         /\ \A n \in 1 .. Len(s) : Append(s, x)[n] = s[n]
         /\ Append(s, x)[Len(s) + 1] = x
OBVIOUS

-----------------------------------------------------------------------------
(* What each step of FEED does: which BOUND it puts, and where it stands.   *)
LEMMA FirstFacts ==
  ASSUME AcInv, FeedFirst
  PROVE  /\ cbOut = << >> /\ headxBottom < Len(headx) /\ ind' = headxBottom + 1
         /\ \/ /\ headxBottom = 0 /\ headx[1].info1 # "f"
               /\ headx[1].strength \in Open /\ headx[1].btype \in PuncTypes \union {"NA"}
               /\ cbOut' = << Bound(headx[1].strength, headx[1].btype) >>
               /\ tone' = headx[1].btype
            \/ /\ headxBottom # 0 \/ headx[1].info1 = "f"
               /\ cbOut' = << >> /\ tone' = tone
<1>1. /\ procState = "FEED" /\ status = "running" /\ ind = 0
      /\ cbOut' = cbOut \o Due
      /\ tone' = IF Due # << >> /\ Due[1].kind \in Opening THEN Due[1].type ELSE tone
      /\ ind' = headxBottom + 1 /\ Due = FirstBound
  BY DEF FeedFirst, Running, Put, Due
<1>2. cbOut = << >> /\ headxBottom < Len(headx)
  BY <1>1 DEF AcInv, OutDrained, FeedIndex
<1>3. headx[1] \in Heads
  BY <1>2, Types DEF AcInv
<1>4. CASE headxBottom = 0 /\ headx[1].info1 # "f"
  <2>1. Due = << Bound(headx[1].strength, headx[1].btype) >>
    BY <1>1, <1>4 DEF FirstBound
  <2>2. headx[1].strength \in Open /\ headx[1].btype \in PuncTypes \union {"NA"}
    BY <1>1, <1>3, <1>4, HeadTyped DEF AcInv, Strengths
  <2>3. /\ Bound(headx[1].strength, headx[1].btype).kind \in Opening
        /\ Bound(headx[1].strength, headx[1].btype).type = headx[1].btype
    BY <2>2, KindFacts, BoundTyped
  <2>4. /\ cbOut' = << Bound(headx[1].strength, headx[1].btype) >>
        /\ tone' = headx[1].btype
    BY <1>1, <1>2, <2>1, <2>3
  <2> QED BY <1>1, <1>2, <1>4, <2>2, <2>4
<1>5. CASE ~(headxBottom = 0 /\ headx[1].info1 # "f")
  BY <1>1, <1>2, <1>5 DEF FirstBound
<1> QED BY <1>4, <1>5

LEMMA PuncFacts ==
  ASSUME AcInv, FeedPunc
  PROVE  /\ procState = "FEED" /\ status = "running"
         /\ ind = Len(headx) /\ ind = headxBottom + 1 /\ ind' = headxBottom + 2
         /\ Punc = headx[ind] /\ Punc.kind = "PUNC" /\ tone' = tone
         /\ Len(cbOut') <= OutCap
         /\ \/ Punc.info1 = "p" /\ cbOut' = cbOut
            \/ Punc.info1 = "s" /\ cbOut' = Append(cbOut, Bound("SEND", "NA"))
            \/ Punc.info1 = "f" /\ cbOut' = Append(cbOut, Bound("TERM", "NA"))
<1>1. /\ procState = "FEED" /\ status = "running" /\ ind \in DOMAIN headx
      /\ headx[ind].kind = "PUNC" /\ cbOut' = cbOut \o Due
      /\ tone' = IF Due # << >> /\ Due[1].kind \in Opening THEN Due[1].type ELSE tone
      /\ ind' = ind + 1 /\ Len(Due) <= Room
  BY DEF FeedPunc, Running, Put, AtPunc
<1>2. ind = Len(headx) /\ HeadSound(headx[ind])
  BY <1>1, Types DEF AcInv, OnePhrase, HeadsSound
<1>3. ind = headxBottom + 1
  BY <1>1, <1>2, Types DEF AcInv, FeedIndex
<1>4. ind # 0 /\ Due = CloseBound(headx[ind])
  BY <1>1, <1>2, Types DEF Due, AtPunc, AcInv
<1>5. headx[ind].info1 \in {"s", "p", "f"}
  BY <1>1, <1>2 DEF HeadSound
<1>6. /\ Bound("SEND", "NA").kind \notin Opening /\ Bound("TERM", "NA").kind \notin Opening
  BY DEF Bound, Opening
<1>7. cbOut \in Seq(Ready) /\ Len(cbOut) \in Nat /\ OutCap \in Nat /\ Len(cbOut) <= OutCap
  BY Types DEF AcInv, OutDrained
<1>8. tone' = tone /\ \/ headx[ind].info1 = "p" /\ cbOut' = cbOut
                      \/ headx[ind].info1 = "s" /\ cbOut' = Append(cbOut, Bound("SEND", "NA"))
                      \/ headx[ind].info1 = "f" /\ cbOut' = Append(cbOut, Bound("TERM", "NA"))
  <2>1. CASE headx[ind].info1 = "p"
    <3>1. Due = << >>
      BY <1>4, <2>1 DEF CloseBound
    <3> QED BY <1>1, <1>7, <2>1, <3>1
  <2>2. CASE headx[ind].info1 = "s"
    <3>1. Due = << Bound("SEND", "NA") >>
      BY <1>4, <2>2 DEF CloseBound
    <3> QED BY <1>1, <1>6, <1>7, <2>2, <3>1
  <2>3. CASE headx[ind].info1 = "f"
    <3>1. Due = << Bound("TERM", "NA") >>
      BY <1>4, <2>3 DEF CloseBound
    <3> QED BY <1>1, <1>6, <1>7, <2>3, <3>1
  <2> QED BY <1>5, <2>1, <2>2, <2>3
<1>9. headxBottom \in Nat
  BY Types DEF AcInv
<1>10. Len(cbOut') <= OutCap
  <2>1. CASE Due = << >>
    BY <1>1, <1>7, <2>1
  <2>2. CASE Len(Due) = 1
    <3>1. Len(cbOut) + 1 <= OutCap
      BY <1>1, <1>7, <2>2 DEF Room
    <3>2. cbOut' = cbOut \/ Len(cbOut') = Len(cbOut) + 1
      <4>1. Bound("SEND", "NA") \in Ready /\ Bound("TERM", "NA") \in Ready
        BY BoundTyped DEF Closing
      <4> QED BY <1>7, <1>8, <4>1, AppendFacts
    <3> QED BY <1>7, <3>1, <3>2
  <2>3. Due = << >> \/ Len(Due) = 1
    BY <1>4 DEF CloseBound
  <2> QED BY <2>1, <2>2, <2>3
<1> QED BY <1>1, <1>2, <1>3, <1>8, <1>9, <1>10 DEF Punc

\* The item the loop is at is the first that is not out yet, and not the PUNC.
LEMMA AtItemFacts ==
  ASSUME AcInv, Running("FEED"), AtItem
  PROVE  /\ ind = headxBottom + 1 /\ ind < Len(headx) /\ ind \in 1 .. Len(headx)
         /\ headx[ind] \in Heads /\ headx[ind].kind \in {"WORDPHON", "CMD"}
         /\ headx[ind].info1 # "f"
         /\ IF headx[ind].strength \in Sub
              THEN Due = << Bound(headx[ind].strength, headx[ind].btype) >> /\ headxBottom > 0
              ELSE Due = << >>
<1>1. /\ procState = "FEED" /\ ind \in 1 .. Len(headx) /\ headx[ind].kind # "PUNC"
  BY Types DEF AcInv, Running, AtItem
<1>2. headx[ind] \in Heads /\ headx[ind].kind \in Kinds /\ HeadSound(headx[ind])
  BY <1>1, Types, HeadTyped DEF AcInv, HeadsSound
<1>3. headx[Len(headx)].kind = "PUNC"
  BY <1>1 DEF AcInv, OnePhrase, Complete
<1>4. ind < Len(headx) /\ ind # 0
  BY <1>1, <1>3, Types DEF AcInv
<1>5. ind = headxBottom + 1
  BY <1>1, <1>4, Types DEF AcInv, FeedIndex
<1>6. Due = SubBound(headx[ind])
  BY <1>1, <1>4, Types DEF Due, AtItem, AtPunc, AcInv
<1>7. CASE headx[ind].strength \in Sub
  <2>1. headxBottom > 0
    BY <1>1, <1>5, <1>7, Types DEF AcInv, Strengths
  <2>2. Due = << Bound(headx[ind].strength, headx[ind].btype) >>
    BY <1>6, <1>7 DEF SubBound, Sub
  <2> QED BY <1>1, <1>2, <1>4, <1>5, <1>7, <2>1, <2>2 DEF Kinds, HeadSound
<1>8. CASE headx[ind].strength \notin Sub
  <2>1. Due = << >>
    BY <1>6, <1>8 DEF SubBound, Sub
  <2> QED BY <1>1, <1>2, <1>4, <1>5, <1>8, <2>1 DEF Kinds, HeadSound
<1> QED BY <1>7, <1>8

LEMMA ItemFacts ==
  ASSUME AcInv, FeedItem
  PROVE  /\ Running("FEED") /\ AtItem /\ ind' = ind + 1 /\ headxBottom' = headxBottom + 1
         /\ Len(cbOut') <= OutCap
         /\ IF headx[ind].strength \in Sub
              THEN /\ cbOut' = Append(Append(cbOut, Bound(headx[ind].strength, headx[ind].btype)),
                                      AsItem(headx[ind]))
                   /\ tone' = headx[ind].btype
              ELSE cbOut' = Append(cbOut, AsItem(headx[ind])) /\ tone' = tone
<1> DEFINE it == AsItem(headx[ind])
           bd == Bound(headx[ind].strength, headx[ind].btype)
           put == Append(Due, it)
<1>1. /\ Running("FEED") /\ AtItem /\ Len(Due) < Room
      /\ cbOut' = cbOut \o put
      /\ tone' = IF put # << >> /\ put[1].kind \in Opening THEN put[1].type ELSE tone
      /\ headxBottom' = headxBottom + 1 /\ ind' = ind + 1
  BY DEF FeedItem, Put
<1>2. /\ headx[ind] \in Heads /\ it \in Ready /\ it.kind \in Kinds
      /\ cbOut \in Seq(Ready) /\ Len(cbOut) \in Nat /\ OutCap \in Nat
  BY <1>1, AtItemFacts, HeadTyped, Types DEF AcInv
<1>3. it.kind \notin Opening
  BY <1>2, KindFacts
<1>4. CASE headx[ind].strength \in Sub
  <2>1. Due = << bd >>
    BY <1>1, <1>4, AtItemFacts
  <2>2. bd \in Ready /\ bd.kind \in Opening /\ bd.type = headx[ind].btype
    BY <1>2, <1>4, HeadTyped, KindFacts, BoundTyped
  <2> HIDE DEF it, bd
  <2>3. put # << >> /\ put[1] = bd
    BY <2>1
  <2>4. cbOut' = Append(Append(cbOut, bd), it) /\ Len(cbOut') = Len(cbOut) + 2
    BY <1>1, <1>2, <2>1, <2>2
  <2>5. tone' = headx[ind].btype
    BY <1>1, <2>2, <2>3
  <2>6. Len(cbOut') <= OutCap
    BY <1>1, <1>2, <2>1, <2>4 DEF Room
  <2> QED BY <1>1, <1>4, <2>4, <2>5, <2>6 DEF it, bd
<1>5. CASE headx[ind].strength \notin Sub
  <2>1. Due = << >>
    BY <1>1, <1>5, AtItemFacts
  <2> HIDE DEF it
  <2>3. put # << >> /\ put[1] = it
    BY <2>1
  <2>4. cbOut' = Append(cbOut, it) /\ Len(cbOut') = Len(cbOut) + 1
    BY <1>1, <1>2, <2>1
  <2>5. tone' = tone
    BY <1>1, <1>3, <2>3
  <2>6. Len(cbOut') <= OutCap
    BY <1>1, <1>2, <2>1, <2>4 DEF Room
  <2> QED BY <1>1, <1>5, <2>4, <2>5, <2>6 DEF it
<1> QED BY <1>4, <1>5

LEMMA ItemFullFacts ==
  ASSUME AcInv, FeedItemFull
  PROVE  /\ Running("FEED") /\ AtItem /\ headxBottom > 0 /\ ind' = 0 /\ status' = "OUT_FULL"
         /\ Len(cbOut') <= OutCap
         /\ headx' \in Seq(Heads) /\ Len(headx') = Len(headx)
         /\ \A n \in 1 .. Len(headx) :
              /\ n # ind => headx'[n] = headx[n]
              /\ headx'[n].id = headx[n].id /\ headx'[n].kind = headx[n].kind
              /\ headx'[n].info1 = headx[n].info1 /\ headx'[n].info2 = headx[n].info2
              /\ headx'[n].btype = headx[n].btype
         /\ headx'[ind].strength = "none"
         /\ IF headx[ind].strength \in Sub
              THEN /\ cbOut' = Append(cbOut, Bound(headx[ind].strength, headx[ind].btype))
                   /\ tone' = headx[ind].btype
              ELSE cbOut' = cbOut /\ tone' = tone
<1> DEFINE bd == Bound(headx[ind].strength, headx[ind].btype)
           h == headx[ind]
           g == [id |-> h.id, kind |-> h.kind, info1 |-> h.info1, info2 |-> h.info2,
                 strength |-> "none", btype |-> h.btype]
<1>1. /\ Running("FEED") /\ AtItem /\ Len(Due) = Room /\ ind' = 0 /\ status' = "OUT_FULL"
      /\ cbOut' = cbOut \o Due
      /\ tone' = IF Due # << >> /\ Due[1].kind \in Opening THEN Due[1].type ELSE tone
  BY DEF FeedItemFull, Put, OutFull, Return
<1>2. headx' = [n \in DOMAIN headx |-> IF n # ind THEN headx[n] ELSE g]
  BY DEF FeedItemFull
<1>3. /\ h \in Heads /\ ind \in 1 .. Len(headx) /\ cbOut \in Seq(Ready) /\ Len(cbOut) \in Nat
      /\ OutCap \in Nat /\ OutCap >= 2 /\ headx \in Seq(Heads) /\ DOMAIN headx = 1 .. Len(headx)
      /\ headxBottom \in Nat /\ ind = headxBottom + 1
      /\ \A n \in 1 .. Len(headx) : headx[n] \in Heads
  BY <1>1, AtItemFacts, Types DEF AcInv
<1>4. g \in Heads
  BY <1>3, HeadTyped DEF Heads
<1>5. /\ headx' \in Seq(Heads) /\ Len(headx') = Len(headx)
      /\ \A n \in 1 .. Len(headx) : n # ind => headx'[n] = headx[n]
      /\ headx'[ind] = g
  <2> HIDE DEF g
  <2>1. headx' \in [1 .. Len(headx) -> Heads]
    BY <1>2, <1>3, <1>4
  <2>2. Len(headx) \in Nat
    BY <1>3
  <2> QED BY <1>2, <1>3, <2>1, <2>2
<1>6. \A n \in 1 .. Len(headx) :
        /\ headx'[n].id = headx[n].id /\ headx'[n].kind = headx[n].kind
        /\ headx'[n].info1 = headx[n].info1 /\ headx'[n].info2 = headx[n].info2
        /\ headx'[n].btype = headx[n].btype
  BY <1>5
<1>7. headxBottom > 0
  <2> SUFFICES ASSUME headxBottom = 0 PROVE FALSE
    BY <1>3
  <2>1. Len(cbOut) <= 1
    BY <1>1, <1>3 DEF AcInv, OutDrained, Running
  <2>2. Len(Due) >= 1
    BY <1>1, <1>3, <2>1 DEF Room
  <2>3. Due = << >>
    BY <1>1, AtItemFacts
  <2> QED BY <2>2, <2>3
<1>8. CASE h.strength \in Sub
  <2>1. Due = << bd >>
    BY <1>1, <1>8, AtItemFacts
  <2>2. bd \in Ready /\ bd.kind \in Opening /\ bd.type = h.btype
    BY <1>3, <1>8, HeadTyped, KindFacts, BoundTyped
  <2> HIDE DEF bd
  <2>3. Due # << >> /\ Due[1] = bd
    BY <2>1
  <2>4. cbOut' = Append(cbOut, bd) /\ Len(cbOut') = Len(cbOut) + 1
    BY <1>1, <1>3, <2>1, <2>2
  <2>5. tone' = h.btype
    BY <1>1, <2>2, <2>3
  <2>6. Len(cbOut') <= OutCap
    BY <1>1, <1>3, <2>1, <2>4 DEF Room
  <2> QED BY <1>1, <1>5, <1>6, <1>7, <1>8, <2>4, <2>5, <2>6 DEF bd
<1>9. CASE h.strength \notin Sub
  <2>1. Due = << >>
    BY <1>1, <1>9, AtItemFacts
  <2>2. cbOut' = cbOut /\ tone' = tone /\ Len(cbOut') <= OutCap
    BY <1>1, <1>3, <2>1 DEF Room
  <2> QED BY <1>1, <1>5, <1>6, <1>7, <1>9, <2>2
<1> QED BY <1>8, <1>9

\* There is always room for the BOUND a phrase begins with and its first item.
LEMMA FullFacts ==
  ASSUME AcInv, FeedFull
  PROVE  /\ Running("FEED") /\ headxBottom > 0 /\ ind = headxBottom + 1
         /\ ind' = 0 /\ status' = "OUT_FULL" /\ cbOut' = cbOut /\ headx' = headx /\ tone' = tone
<1>1. /\ Running("FEED") /\ Len(Due) > Room /\ ind' = 0 /\ status' = "OUT_FULL"
      /\ cbOut' = cbOut /\ headx' = headx /\ tone' = tone
  BY DEF FeedFull, OutFull, Return
<1>2. /\ headxBottom \in Nat /\ ind \in Nat /\ Len(cbOut) \in Nat /\ OutCap \in Nat /\ OutCap >= 2
      /\ Len(headx) \in Nat /\ DOMAIN headx = 1 .. Len(headx) /\ Len(cbOut) <= OutCap
  BY Types DEF AcInv, OutDrained
<1>3. /\ headxBottom < Len(headx)
      /\ ind = 0 \/ ind = headxBottom + 1 \/ ind = Len(headx) + 1
      /\ ind = 0 => Len(cbOut) <= 1
      /\ ind = 1 /\ headxBottom = 0 => Len(cbOut) <= 1
  <2>1. headxBottom < Len(headx) /\ (ind = 0 \/ ind = headxBottom + 1 \/ ind = Len(headx) + 1)
    BY <1>1 DEF AcInv, FeedIndex, Running
  <2>2. ind = 0 => cbOut = << >>
    BY <1>1 DEF AcInv, OutDrained, Running
  <2>3. ind = 1 /\ headxBottom = 0 => Len(cbOut) <= 1
    BY <1>1 DEF AcInv, OutDrained, Running
  <2> QED BY <2>1, <2>2, <2>3
<1>4. Due = << >> \/ Len(Due) = 1
  BY DEF Due, FirstBound, CloseBound, SubBound
<1>5. Len(Due) = 1
  BY <1>1, <1>2, <1>4 DEF Room
<1>6. ind # Len(headx) + 1
  <2> SUFFICES ASSUME ind = Len(headx) + 1 PROVE FALSE
    OBVIOUS
  <2>1. ind # 0 /\ ind \notin DOMAIN headx
    BY <1>2
  <2>2. Due = << >>
    BY <2>1 DEF Due, AtPunc, AtItem
  <2> QED BY <1>5, <2>2
<1>7. ~(Len(cbOut) <= 1)
  BY <1>1, <1>2, <1>5 DEF Room
<1> QED BY <1>1, <1>2, <1>3, <1>6, <1>7

\* The header that is made of an item.
LEMMA HeaderFacts ==
  ASSUME NEW it \in Arrived, Fed(it)
  PROVE  Header(it) \in Heads /\ HeadSound(Header(it)) /\ Header(it).id = it.id
<1> DEFINE flush == it.kind = "CMD" /\ it.info1 = "f"
<1>1. /\ it.id \in Nat /\ it.kind \in Kinds /\ it.info1 \in Info1
      /\ it.info2 \in PuncTypes \union {"NA"}
  BY DEF Arrived
<1>2. CASE flush
  <2>1. Header(it) = [id |-> it.id, kind |-> "PUNC", info1 |-> it.info1, info2 |-> "T",
                      strength |-> "none", btype |-> "NA"]
    BY <1>2 DEF Header
  <2> QED BY <1>1, <1>2, <2>1 DEF Heads, HeadSound, Kinds, PuncTypes
<1>3. CASE ~flush
  <2>1. Header(it) = [id |-> it.id, kind |-> it.kind, info1 |-> it.info1, info2 |-> it.info2,
                      strength |-> "none", btype |-> "NA"]
    BY <1>3 DEF Header
  <2>2. it.kind = "PUNC" \/ it.info1 # "f"
    BY <1>1, <1>3 DEF Fed, Kinds
  <2> QED BY <1>1, <2>1, <2>2 DEF Heads, HeadSound, Fed
<1> QED BY <1>2, <1>3

LEMMA CollectFacts ==
  ASSUME AcInv, CollectItem
  PROVE  /\ procState = "COLLECT" /\ status = "running" /\ inspaceok /\ needsmoreitems
         /\ cbIn # << >> /\ cbIn' = Tail(cbIn)
         /\ Header(Head(cbIn)) \in Heads /\ HeadSound(Header(Head(cbIn)))
         /\ headx' = Append(headx, Header(Head(cbIn))) /\ Len(headx) < MaxHeadx - 1
         /\ needsmoreitems' = (Header(Head(cbIn)).kind # "PUNC")
         /\ inspaceok' = SpaceLeft
         /\ cbufLen' \in 0 .. CbufSize
<1>1. /\ procState = "COLLECT" /\ status = "running" /\ inspaceok /\ needsmoreitems
      /\ cbIn # << >> /\ cbIn' = Tail(cbIn) /\ headx' = Append(headx, Header(Head(cbIn)))
      /\ needsmoreitems' = (Header(Head(cbIn)).kind # "PUNC") /\ inspaceok' = SpaceLeft
      /\ cbufLen' = cbufLen + Head(cbIn).len /\ Head(cbIn).len <= CbufSize - cbufLen
  BY DEF CollectItem, Running
<1>2. Head(cbIn) = cbIn[1] /\ 1 \in 1 .. Len(cbIn) /\ cbIn[1] \in Arrived
  BY <1>1, Types DEF AcInv
<1>3. Head(cbIn) \in Arrived /\ Fed(Head(cbIn)) /\ Head(cbIn).len \in Nat
  BY <1>2 DEF AcInv, InputSound, Arrived
<1>4. cbufLen' \in 0 .. CbufSize
  <2>1. cbufLen \in 0 .. CbufSize /\ CbufSize \in Nat
    BY AcphAssumption DEF AcInv, TypeOK
  <2> QED BY <1>1, <1>3, <2>1
<1>5. Len(headx) < MaxHeadx - 1
  BY <1>1 DEF AcInv, SpareSlot
<1> QED BY <1>1, <1>3, <1>4, <1>5, HeaderFacts

\* The forced PUNC.
ForcedPunc == [id |-> Made, kind |-> "PUNC", info1 |-> "p", info2 |-> "P", strength |-> "none",
               btype |-> "NA"]

LEMMA ForcedFacts ==
  ASSUME AcInv, CollectForced
  PROVE  /\ procState = "COLLECT" /\ status = "running" /\ needsmoreitems
         /\ procState' = "PHR" /\ status' = "ATOMIC" /\ needsmoreitems' = FALSE
         /\ ForcedPunc \in Heads /\ HeadSound(ForcedPunc)
         /\ headx' = Append(headx, ForcedPunc) /\ Len(headx) < MaxHeadx
<1>1. /\ procState = "COLLECT" /\ status = "running" /\ needsmoreitems
      /\ procState' = "PHR" /\ status' = "ATOMIC" /\ needsmoreitems' = FALSE
      /\ headx' = Append(headx, ForcedPunc)
  BY DEF CollectForced, Running, Return, ForcedPunc
<1>2. ForcedPunc \in Heads /\ HeadSound(ForcedPunc)
  <2>1. "p" \in Info1
    BY DEF Info1
  <2> QED BY <2>1 DEF ForcedPunc, Heads, HeadSound, Made, Kinds, PuncTypes
<1>3. Len(headx) < MaxHeadx
  BY <1>1 DEF AcInv, SpareSlot
<1> QED BY <1>1, <1>2, <1>3

\* What the tree leaves in the headers.
LEMMA PhrFacts ==
  ASSUME AcInv, Phr
  PROVE  /\ procState = "PHR" /\ status = "running" /\ procState' = "ACC"
         /\ headx' \in Seq(Heads) /\ Len(headx') = Len(headx)
         /\ \A n \in 1 .. Len(headx) :
              /\ headx'[n].id = headx[n].id /\ headx'[n].kind = headx[n].kind
              /\ headx'[n].info1 = headx[n].info1 /\ headx'[n].info2 = headx[n].info2
              /\ n # 1 => headx'[n].strength \notin Open
              /\ n # 1 /\ headx'[n].strength \in Sub => headx[n].kind = "WORDPHON"
              /\ n = 1 \/ headx'[n].strength \in Sub =>
                   \/ headx'[n].btype = Punc.info2
                   \/ \E m \in n + 1 .. Len(headx) : headx'[m].strength \in Sub
         /\ headx'[1].strength = IF boundStrengthState = "SSEP" THEN "SBEG" ELSE "PHR1"
         /\ boundStrengthState' = IF Punc.info1 = "p" THEN "PPHR" ELSE "SSEP"
<1>1. /\ procState = "PHR" /\ status = "running" /\ procState' = "ACC"
      /\ boundStrengthState' = IF Punc.info1 = "p" THEN "PPHR" ELSE "SSEP"
  BY DEF Phr, Running, GoOn
<1>2. PICK tree \in [LaterWords -> SubStrengths] :
        headx' = [n \in DOMAIN headx |->
                    [id |-> headx[n].id, kind |-> headx[n].kind, info1 |-> headx[n].info1,
                     info2 |-> headx[n].info2,
                     strength |-> StrengthAt(tree, n), btype |-> TypeAt(tree, n)]]
  BY DEF Phr
<1>3. /\ headx \in Seq(Heads) /\ Len(headx) \in Nat /\ DOMAIN headx = 1 .. Len(headx)
      /\ \A n \in 1 .. Len(headx) : headx[n] \in Heads
      /\ headx # << >> /\ 1 \in 1 .. Len(headx) /\ Len(headx) \in 1 .. Len(headx)
  <2>1. headx # << >>
    BY <1>1 DEF AcInv, OnePhrase, Complete
  <2>2. /\ headx \in Seq(Heads) /\ Len(headx) \in Nat /\ DOMAIN headx = 1 .. Len(headx)
        /\ \A n \in 1 .. Len(headx) : headx[n] \in Heads
    BY Types DEF AcInv
  <2> QED BY <2>1, <2>2
<1>4. Punc.info2 \in PuncTypes \union {"NA"}
  BY <1>3, HeadTyped DEF Punc
<1>5. \A n \in 1 .. Len(headx) :
        /\ StrengthAt(tree, n) \in Opening \union {"PHR0", "none"}
        /\ n # 1 => StrengthAt(tree, n) \notin Open
        /\ n # 1 /\ StrengthAt(tree, n) \in Sub => n \in Cuts(tree)
        /\ n # 1 /\ n \in Cuts(tree) => StrengthAt(tree, n) \in Sub
  <2>1. \A n \in LaterWords : tree[n] \in SubStrengths
    BY <1>2
  <2> QED BY <2>1 DEF StrengthAt, Cuts, Opening, Open, Sub, SubStrengths
<1>6. Cuts(tree) \subseteq LaterWords
      /\ \A n \in LaterWords : n \in 2 .. Len(headx) /\ headx[n].kind = "WORDPHON"
  BY <1>3 DEF Cuts, LaterWords
<1>7. \A n : TypeAt(tree, n) \in PuncTypes \union {"NA"}
  BY <1>4 DEF TypeAt, PuncTypes
<1>8. \A n \in 1 .. Len(headx) :
        n = 1 \/ n \in Cuts(tree) =>
          TypeAt(tree, n) = Punc.info2 \/ \E m \in Cuts(tree) : m > n
  BY DEF TypeAt
<1>9. StrengthAt(tree, 1) = IF boundStrengthState = "SSEP" THEN "SBEG" ELSE "PHR1"
  BY DEF StrengthAt
<1>10. \A n \in 1 .. Len(headx) :
         /\ headx'[n].id = headx[n].id /\ headx'[n].kind = headx[n].kind
         /\ headx'[n].info1 = headx[n].info1 /\ headx'[n].info2 = headx[n].info2
         /\ headx'[n].strength = StrengthAt(tree, n) /\ headx'[n].btype = TypeAt(tree, n)
         /\ headx'[n] \in Heads
  <2> SUFFICES ASSUME NEW n \in 1 .. Len(headx)
               PROVE  /\ headx'[n].id = headx[n].id /\ headx'[n].kind = headx[n].kind
                      /\ headx'[n].info1 = headx[n].info1 /\ headx'[n].info2 = headx[n].info2
                      /\ headx'[n].strength = StrengthAt(tree, n)
                      /\ headx'[n].btype = TypeAt(tree, n)
                      /\ headx'[n] \in Heads
    OBVIOUS
  <2>1. headx'[n] = [id |-> headx[n].id, kind |-> headx[n].kind, info1 |-> headx[n].info1,
                     info2 |-> headx[n].info2,
                     strength |-> StrengthAt(tree, n), btype |-> TypeAt(tree, n)]
    BY <1>2, <1>3
  <2>2. headx[n] \in Heads
    BY <1>3
  <2>3. headx'[n] \in Heads
    BY <2>1, <2>2, <1>5, <1>7, HeadTyped DEF Heads
  <2> QED BY <2>1, <2>3
<1>11. headx' \in Seq(Heads) /\ Len(headx') = Len(headx)
  <2>1. headx' = [n \in 1 .. Len(headx) |-> headx'[n]]
    BY <1>2, <1>3
  <2>2. headx' \in [1 .. Len(headx) -> Heads]
    BY <1>10, <2>1
  <2> QED BY <1>3, <2>2
<1>12. \A n \in 1 .. Len(headx) : n = 1 \/ headx'[n].strength \in Sub =>
         \/ headx'[n].btype = Punc.info2
         \/ \E m \in n + 1 .. Len(headx) : headx'[m].strength \in Sub
  <2> SUFFICES ASSUME NEW n \in 1 .. Len(headx), n = 1 \/ headx'[n].strength \in Sub,
                      headx'[n].btype # Punc.info2
               PROVE  \E m \in n + 1 .. Len(headx) : headx'[m].strength \in Sub
    OBVIOUS
  <2>1. PICK m \in Cuts(tree) : m > n
    BY <1>5, <1>8, <1>10
  <2>2. m \in 2 .. Len(headx)
    BY <1>6
  <2>3. headx'[m].strength \in Sub
    BY <1>5, <1>10, <2>2
  <2> QED BY <2>1, <2>2, <2>3
<1> QED BY <1>1, <1>3, <1>5, <1>6, <1>9, <1>10, <1>11, <1>12

-----------------------------------------------------------------------------
(* Every step keeps every part.                                             *)
LEMMA TypedStep ==
  ASSUME AcInv, Next
  PROVE  TypeOK'
<1> USE DEF Running, Return, GoOn, Phases, Results
<1>1. TypeOK
  BY DEF AcInv
<1>2. << >> \in Seq(Arrived) /\ << >> \in Seq(Ready) /\ << >> \in Seq(Heads) /\ Len(<< >>) = 0
  OBVIOUS
<1>3. CASE Call \/ CollectPhrase \/ CollectIdle \/ Acc
  BY <1>1, <1>3 DEF TypeOK, Call, CollectPhrase, CollectIdle, Acc, flagVars, phraseVars, envVars
<1>4. CASE CollectError
  <2>1. cbIn' \in Seq(Arrived)
    BY <1>1, <1>4, Types DEF CollectError
  <2> QED BY <1>1, <1>4, <2>1 DEF TypeOK, CollectError, flagVars, phraseVars, envVars
<1>5. CASE CollectItem
  <2>1. /\ headx' \in Seq(Heads) /\ Len(headx') <= MaxHeadx /\ headxBottom' \in 0 .. Len(headx')
    <3>1. /\ headx' = Append(headx, Header(Head(cbIn))) /\ Len(headx) < MaxHeadx - 1
          /\ Header(Head(cbIn)) \in Heads /\ headxBottom' = headxBottom
      BY <1>5, CollectFacts DEF CollectItem
    <3>2. /\ headx \in Seq(Heads) /\ Len(headx) \in Nat /\ headxBottom \in 0 .. Len(headx)
          /\ MaxHeadx \in Nat
      BY <1>1, Types DEF TypeOK
    <3>3. headx' \in Seq(Heads) /\ Len(headx') = Len(headx) + 1
      BY <3>1, <3>2, AppendFacts
    <3> QED BY <3>1, <3>2, <3>3
  <2>2. cbIn' \in Seq(Arrived)
    <3>1. cbIn # << >> /\ cbIn' = Tail(cbIn) /\ cbIn \in Seq(Arrived)
      BY <1>1, <1>5, CollectFacts DEF TypeOK
    <3> QED BY <3>1
  <2>3. /\ needsmoreitems' \in BOOLEAN /\ inspaceok' \in BOOLEAN /\ cbufLen' \in 0 .. CbufSize
    <3>1. /\ cbufLen' \in 0 .. CbufSize /\ inspaceok' = SpaceLeft
          /\ needsmoreitems' = (Header(Head(cbIn)).kind # "PUNC")
      BY <1>5, CollectFacts
    <3> QED BY <3>1 DEF SpaceLeft
  <2> QED BY <1>1, <1>5, <2>1, <2>2, <2>3 DEF TypeOK, CollectItem, envVars
<1>6. CASE CollectForced
  <2>1. /\ headx' \in Seq(Heads) /\ Len(headx') <= MaxHeadx /\ headxBottom' \in 0 .. Len(headx')
    <3>1. /\ headx' = Append(headx, ForcedPunc) /\ Len(headx) < MaxHeadx
          /\ ForcedPunc \in Heads /\ headxBottom' = headxBottom
      BY <1>6, ForcedFacts DEF CollectForced
    <3>2. /\ headx \in Seq(Heads) /\ Len(headx) \in Nat /\ headxBottom \in 0 .. Len(headx)
          /\ MaxHeadx \in Nat
      BY <1>1, Types DEF TypeOK
    <3>3. headx' \in Seq(Heads) /\ Len(headx') = Len(headx) + 1
      BY <3>1, <3>2, AppendFacts
    <3> QED BY <3>1, <3>2, <3>3
  <2> QED BY <1>1, <1>6, <2>1 DEF TypeOK, CollectForced, envVars
<1>7. CASE Phr
  <2>1. /\ headx' \in Seq(Heads) /\ Len(headx') = Len(headx)
        /\ boundStrengthState' \in {"SSEP", "PPHR"}
    BY <1>7, PhrFacts
  <2> QED BY <1>1, <1>7, <2>1 DEF TypeOK, Phr, flagVars, envVars
<1>8. CASE FeedFirst
  <2>1. cbOut' \in Seq(Ready) /\ tone' \in PuncTypes \union {"NA"}
    <3>1. CASE /\ headx[1].strength \in Open /\ headx[1].btype \in PuncTypes \union {"NA"}
               /\ cbOut' = << Bound(headx[1].strength, headx[1].btype) >>
               /\ tone' = headx[1].btype
      <4>1. Bound(headx[1].strength, headx[1].btype) \in Ready
        BY <3>1, KindFacts, BoundTyped
      <4> QED BY <3>1, <4>1
    <3>2. CASE cbOut' = << >> /\ tone' = tone
      BY <1>1, <1>2, <3>2 DEF TypeOK
    <3> QED BY <1>8, <3>1, <3>2, FirstFacts
  <2>2. ind' \in Nat
    BY <1>1, <1>8, Types, FirstFacts
  <2> QED BY <1>1, <1>8, <2>1, <2>2 DEF TypeOK, FeedFirst, flagVars, phraseVars, envVars
<1>9. CASE FeedPunc
  <2>1. cbOut' \in Seq(Ready) /\ tone' = tone
    <3>1. Bound("SEND", "NA") \in Ready /\ Bound("TERM", "NA") \in Ready
      BY BoundTyped DEF Closing
    <3>2. cbOut \in Seq(Ready)
      BY <1>1 DEF TypeOK
    <3> QED BY <1>9, <3>1, <3>2, PuncFacts, AppendFacts
  <2>2. ind' \in Nat
    BY <1>1, <1>9, Types, PuncFacts
  <2> QED BY <1>1, <1>9, <2>1, <2>2 DEF TypeOK, FeedPunc, flagVars, phraseVars, envVars
<1>10. CASE FeedItem
  <2>1. /\ ind = headxBottom + 1 /\ ind < Len(headx) /\ headx[ind] \in Heads
        /\ headxBottom' = headxBottom + 1 /\ ind' = ind + 1
    BY <1>10, ItemFacts, AtItemFacts
  <2>2. cbOut' \in Seq(Ready) /\ tone' \in PuncTypes \union {"NA"}
    <3>1. AsItem(headx[ind]) \in Ready /\ headx[ind].btype \in PuncTypes \union {"NA"}
      BY <2>1, HeadTyped
    <3>2. headx[ind].strength \in Sub => Bound(headx[ind].strength, headx[ind].btype) \in Ready
      BY <3>1, KindFacts, BoundTyped
    <3>3. cbOut \in Seq(Ready) /\ tone \in PuncTypes \union {"NA"}
      BY <1>1 DEF TypeOK
    <3> QED BY <1>10, <3>1, <3>2, <3>3, ItemFacts, AppendFacts
  <2>3. ind' \in Nat /\ headxBottom' \in 0 .. Len(headx)
    BY <1>1, <2>1, Types
  <2> QED BY <1>1, <1>10, <2>2, <2>3 DEF TypeOK, FeedItem, flagVars, envVars
<1>11. CASE FeedItemFull
  <2>1. /\ headx' \in Seq(Heads) /\ Len(headx') = Len(headx) /\ ind' = 0 /\ status' = "OUT_FULL"
        /\ headx[ind] \in Heads
    BY <1>11, ItemFullFacts, AtItemFacts
  <2>2. cbOut' \in Seq(Ready) /\ tone' \in PuncTypes \union {"NA"}
    <3>1. headx[ind].btype \in PuncTypes \union {"NA"}
      BY <2>1, HeadTyped
    <3>2. headx[ind].strength \in Sub => Bound(headx[ind].strength, headx[ind].btype) \in Ready
      BY <3>1, KindFacts, BoundTyped
    <3>3. cbOut \in Seq(Ready) /\ tone \in PuncTypes \union {"NA"}
      BY <1>1 DEF TypeOK
    <3> QED BY <1>11, <3>1, <3>2, <3>3, ItemFullFacts, AppendFacts, ZenonT(60)
  <2> QED BY <1>1, <1>11, <2>1, <2>2 DEF TypeOK, FeedItemFull, OutFull, flagVars, envVars
<1>12. CASE FeedFull
  <2>1. cbOut' = cbOut /\ headx' = headx /\ tone' = tone /\ ind' = 0 /\ status' = "OUT_FULL"
    BY <1>12, FullFacts
  <2> QED BY <1>1, <1>12, <2>1 DEF TypeOK, FeedFull, OutFull, flagVars, envVars
<1>13. CASE FeedDone
  <2>1. 0 \in 0 .. CbufSize /\ 0 <= MaxHeadx
    BY AcphAssumption
  <2> QED BY <1>1, <1>2, <1>13, <2>1 DEF TypeOK, FeedDone, envVars
<1>14. CASE \E x \in Inputs : Arrive(x)
  <2>1. PICK x \in Inputs : Arrive(x)
    BY <1>14
  <2> DEFINE it == [id |-> fed + 1, kind |-> x.kind, info1 |-> x.info1, info2 |-> x.info2,
                    len |-> x.len]
  <2>2. it \in Arrived
    <3>1. x \in [kind : Kinds, info1 : Info1, info2 : PuncTypes \union {"NA"}, len : Nat]
      BY AcphAssumption
    <3>2. fed + 1 \in Nat
      BY <1>1 DEF TypeOK
    <3> QED BY <3>1, <3>2 DEF Arrived
  <2>3. cbIn' = Append(cbIn, it) /\ fed' = fed + 1
    BY <2>1 DEF Arrive
  <2> HIDE DEF it
  <2>4. cbIn' \in Seq(Arrived) /\ fed' \in Nat
    BY <1>1, <2>2, <2>3 DEF TypeOK
  <2> QED BY <1>1, <2>1, <2>4 DEF TypeOK, Arrive, flagVars, phraseVars
<1>15. CASE Leave
  <2>1. cbOut' \in Seq(Ready) /\ last' \in Ready
    BY <1>1, <1>15 DEF TypeOK, Leave
  <2> QED BY <1>1, <1>15, <2>1 DEF TypeOK, Leave, flagVars, phraseVars
<1>16. CASE Reset
  <2>1. 0 \in 0 .. CbufSize /\ 0 <= MaxHeadx
    BY AcphAssumption
  <2>2. Start \in Ready
    BY DEF Start, Ready, Made, Closing
  <2>3. resets' \in Nat
    BY <1>1, <1>16 DEF TypeOK, Reset
  <2> QED BY <1>1, <1>2, <1>16, <2>1, <2>2, <2>3 DEF TypeOK, Reset
<1> QED
  BY <1>3, <1>4, <1>5, <1>6, <1>7, <1>8, <1>9, <1>10, <1>11, <1>12, <1>13, <1>14, <1>15, <1>16
     DEF Next, Step

\* What the step does to the items that wait.
LEMMA InputCases ==
  ASSUME Next
  PROVE  \/ cbIn' = cbIn
         \/ cbIn # << >> /\ cbIn' = Tail(cbIn)
         \/ cbIn' = << >>
         \/ \E x \in Inputs : Arrive(x)
BY DEF Next, Step, Call, CollectItem, CollectError, CollectPhrase, CollectForced, CollectIdle,
       Phr, Acc, FeedFirst, FeedPunc, FeedItem, FeedItemFull, FeedFull, OutFull, FeedDone, Leave,
       Reset

LEMMA InputStep ==
  ASSUME AcInv, Next
  PROVE  InputSound'
<1>1. InputSound /\ cbIn \in Seq(Arrived) /\ Len(cbIn) \in Nat
  BY Types DEF AcInv
<1>2. CASE cbIn' = cbIn
  BY <1>1, <1>2 DEF InputSound
<1>3. CASE cbIn # << >> /\ cbIn' = Tail(cbIn)
  <2>1. Len(cbIn') = Len(cbIn) - 1 /\ \A n \in 1 .. Len(cbIn) - 1 : cbIn'[n] = cbIn[n + 1]
    BY <1>1, <1>3
  <2>2. \A n \in 1 .. Len(cbIn) - 1 : n + 1 \in 1 .. Len(cbIn)
    BY <1>1
  <2> QED BY <1>1, <2>1, <2>2 DEF InputSound
<1>4. CASE cbIn' = << >>
  <2>1. Len(cbIn') = 0
    BY <1>4
  <2> QED BY <2>1 DEF InputSound
<1>5. CASE \E x \in Inputs : Arrive(x)
  <2>1. PICK x \in Inputs : Arrive(x)
    BY <1>5
  <2> DEFINE it == [id |-> fed + 1, kind |-> x.kind, info1 |-> x.info1, info2 |-> x.info2,
                    len |-> x.len]
  <2>2. cbIn' = Append(cbIn, it) /\ Fed(it)
    BY <2>1, AcphAssumption DEF Arrive, Fed
  <2> HIDE DEF it
  <2>3. /\ Len(cbIn') = Len(cbIn) + 1 /\ cbIn'[Len(cbIn) + 1] = it
        /\ \A n \in 1 .. Len(cbIn) : cbIn'[n] = cbIn[n]
    BY <1>1, <2>2
  <2>4. \A n \in 1 .. Len(cbIn) + 1 : n \in 1 .. Len(cbIn) \/ n = Len(cbIn) + 1
    BY <1>1
  <2> QED BY <1>1, <2>2, <2>3, <2>4 DEF InputSound
<1> QED BY <1>2, <1>3, <1>4, <1>5, InputCases

\* What the step does to the headers: nothing, a new one, other strengths or types,
\* or there are none any more.
SameHeads ==
  /\ Len(headx') = Len(headx)
  /\ \A n \in 1 .. Len(headx) :
       /\ headx'[n].id = headx[n].id /\ headx'[n].kind = headx[n].kind
       /\ headx'[n].info1 = headx[n].info1 /\ headx'[n].info2 = headx[n].info2

LEMMA HeadCases ==
  ASSUME AcInv, Next
  PROVE  \/ /\ headx' = headx /\ procState' = procState /\ needsmoreitems' = needsmoreitems
            /\ inspaceok' = inspaceok
         \/ Phr \/ FeedItemFull \/ CollectItem \/ CollectForced \/ CollectPhrase \/ Acc
         \/ headx' = << >> /\ procState' = "COLLECT" /\ needsmoreitems' = TRUE
BY DEF Next, Step, Call, CollectError, CollectIdle, FeedFirst, FeedPunc, FeedItem, FeedFull,
       OutFull, FeedDone, Arrive, Leave, Reset, flagVars, phraseVars, Running

LEMMA SameHeadsFacts ==
  ASSUME AcInv, Phr \/ FeedItemFull
  PROVE  SameHeads
BY PhrFacts, ItemFullFacts DEF SameHeads

LEMMA HeadsStep ==
  ASSUME AcInv, Next
  PROVE  HeadsSound'
<1>1. HeadsSound /\ headx \in Seq(Heads) /\ Len(headx) \in Nat
  BY Types DEF AcInv
<1>2. CASE headx' = headx
  BY <1>1, <1>2 DEF HeadsSound
<1>3. CASE headx' = << >>
  <2>1. Len(headx') = 0
    BY <1>3
  <2> QED BY <2>1 DEF HeadsSound
<1>4. CASE Phr \/ FeedItemFull
  <2>1. SameHeads
    BY <1>4, SameHeadsFacts
  <2> QED BY <1>1, <2>1 DEF SameHeads, HeadsSound, HeadSound
<1>5. ASSUME NEW h \in Heads, HeadSound(h), headx' = Append(headx, h)
      PROVE  HeadsSound'
  <2>1. /\ Len(headx') = Len(headx) + 1 /\ headx'[Len(headx) + 1] = h
        /\ \A n \in 1 .. Len(headx) : headx'[n] = headx[n]
    BY <1>1, <1>5, AppendFacts
  <2>2. \A n \in 1 .. Len(headx) + 1 : n \in 1 .. Len(headx) \/ n = Len(headx) + 1
    BY <1>1
  <2> QED BY <1>1, <1>5, <2>1, <2>2 DEF HeadsSound
<1>6. CASE CollectItem
  BY <1>5, <1>6, CollectFacts
<1>7. CASE CollectForced
  BY <1>5, <1>7, ForcedFacts
<1>8. CASE CollectPhrase \/ Acc
  BY <1>1, <1>8 DEF HeadsSound, CollectPhrase, Acc, phraseVars
<1> QED BY <1>2, <1>3, <1>4, <1>6, <1>7, <1>8, HeadCases

LEMMA SpareStep ==
  ASSUME AcInv, Next
  PROVE  SpareSlot'
<1>1. /\ SpareSlot /\ headx \in Seq(Heads) /\ Len(headx) \in Nat /\ MaxHeadx \in Nat
  BY Types DEF AcInv
<1>2. CASE /\ headx' = headx /\ procState' = procState /\ needsmoreitems' = needsmoreitems
           /\ inspaceok' = inspaceok
  BY <1>1, <1>2 DEF SpareSlot
<1>3. CASE headx' = << >>
  <2>1. Len(headx') = 0 /\ 0 < MaxHeadx /\ 0 < MaxHeadx - 1
    BY <1>3, AcphAssumption
  <2> QED BY <2>1 DEF SpareSlot
<1>4. CASE CollectItem
  <2>1. /\ headx' = Append(headx, Header(Head(cbIn))) /\ Header(Head(cbIn)) \in Heads
        /\ Len(headx) < MaxHeadx - 1 /\ inspaceok' = SpaceLeft
    BY <1>4, CollectFacts
  <2>2. Len(headx') = Len(headx) + 1
    BY <1>1, <2>1, AppendFacts
  <2>3. inspaceok' => Len(headx) < MaxHeadx - 2
    BY <2>1 DEF SpaceLeft
  <2> QED BY <1>1, <2>1, <2>2, <2>3 DEF SpareSlot
<1>5. CASE Phr \/ FeedItemFull \/ CollectForced \/ Acc \/ CollectPhrase
  <2>1. procState' # "COLLECT"
    BY <1>5 DEF Phr, FeedItemFull, OutFull, CollectForced, Acc, CollectPhrase, Running
  <2> QED BY <2>1 DEF SpareSlot
<1> QED BY <1>2, <1>3, <1>4, <1>5, HeadCases

LEMMA PhraseStep ==
  ASSUME AcInv, Next
  PROVE  OnePhrase'
<1>1. /\ OnePhrase /\ headx \in Seq(Heads) /\ Len(headx) \in Nat
  BY Types DEF AcInv
<1>2. CASE /\ headx' = headx /\ procState' = procState /\ needsmoreitems' = needsmoreitems
           /\ inspaceok' = inspaceok
  BY <1>1, <1>2 DEF OnePhrase, Complete
<1>3. CASE headx' = << >> /\ procState' = "COLLECT" /\ needsmoreitems' = TRUE
  <2>1. Len(headx') = 0 /\ ~Complete'
    BY <1>3 DEF Complete
  <2> QED BY <2>1 DEF OnePhrase
<1>4. CASE Phr \/ FeedItemFull
  <2>1. SameHeads
    BY <1>4, SameHeadsFacts
  <2>2. Complete /\ Complete'
    BY <1>4 DEF Complete, Phr, FeedItemFull, OutFull, Running
  <2>3. headx # << >> /\ headx[Len(headx)].kind = "PUNC" /\ Len(headx) \in 1 .. Len(headx)
    <3>1. headx # << >> /\ headx[Len(headx)].kind = "PUNC"
      BY <1>1, <2>2 DEF OnePhrase
    <3> QED BY <1>1, <3>1
  <2>4. headx' # << >>
    <3>1. Len(headx') # 0
      BY <1>1, <2>1, <2>3 DEF SameHeads
    <3>2. Len(<< >>) = 0
      OBVIOUS
    <3> QED BY <3>1, <3>2
  <2> QED BY <1>1, <2>1, <2>2, <2>3, <2>4 DEF OnePhrase, SameHeads
<1>5. ASSUME NEW h \in Heads, headx' = Append(headx, h), ~Complete, Complete' <=> h.kind = "PUNC"
      PROVE  OnePhrase'
  <2>1. /\ Len(headx') = Len(headx) + 1 /\ headx'[Len(headx) + 1] = h /\ headx' # << >>
        /\ \A n \in 1 .. Len(headx) : headx'[n] = headx[n]
    BY <1>1, <1>5, AppendFacts
  <2>2. \A n \in 1 .. Len(headx) : headx[n].kind # "PUNC"
    BY <1>1, <1>5 DEF OnePhrase
  <2>3. \A n \in 1 .. Len(headx) + 1 : n \in 1 .. Len(headx) \/ n = Len(headx) + 1
    BY <1>1
  <2> QED BY <1>5, <2>1, <2>2, <2>3 DEF OnePhrase
<1>6. CASE CollectItem
  <2>1. ~Complete /\ (Complete' <=> Header(Head(cbIn)).kind = "PUNC")
    BY <1>6, CollectFacts DEF Complete, CollectItem
  <2> QED BY <1>5, <1>6, <2>1, CollectFacts
<1>7. CASE CollectForced
  <2>1. ~Complete /\ Complete' /\ ForcedPunc.kind = "PUNC"
    BY <1>7, ForcedFacts DEF Complete, ForcedPunc
  <2> QED BY <1>5, <1>7, <2>1, ForcedFacts
<1>8. CASE CollectPhrase \/ Acc
  <2>1. headx' = headx /\ Complete /\ Complete'
    BY <1>8 DEF CollectPhrase, Acc, phraseVars, Complete, Running
  <2> QED BY <1>1, <2>1 DEF OnePhrase
<1> QED BY <1>2, <1>3, <1>4, <1>6, <1>7, <1>8, HeadCases

LEMMA IndexStep ==
  ASSUME AcInv, Next
  PROVE  FeedIndex'
<1> USE DEF Running, Return, GoOn
<1>1. /\ FeedIndex /\ Len(headx) \in Nat /\ headxBottom \in Nat /\ ind \in Nat
  BY Types DEF AcInv
<1>2. CASE Call \/ CollectError \/ CollectPhrase \/ CollectIdle
  BY <1>1, <1>2 DEF FeedIndex, Call, CollectError, CollectPhrase, CollectIdle, phraseVars
<1>3. CASE (\E x \in Inputs : Arrive(x)) \/ Leave
  BY <1>1, <1>3 DEF FeedIndex, Arrive, Leave, phraseVars
<1>4. CASE CollectItem \/ CollectForced \/ Phr
  <2>1. /\ procState # "FEED" /\ procState' # "FEED" /\ ind' = ind /\ headxBottom' = headxBottom
    BY <1>4 DEF CollectItem, CollectForced, Phr
  <2> QED BY <1>1, <2>1 DEF FeedIndex
<1>5. CASE Acc
  <2>1. headx # << >>
    BY <1>5 DEF AcInv, OnePhrase, Complete, Acc
  <2>2. headxBottom = 0 /\ 0 < Len(headx)
    <3>1. Len(headx) # 0
      BY <2>1, Types DEF AcInv
    <3> QED BY <1>1, <1>5, <3>1 DEF FeedIndex, Acc
  <2> QED BY <1>5, <2>2 DEF FeedIndex, Acc, phraseVars
<1>6. CASE FeedFirst
  <2>1. headxBottom < Len(headx) /\ ind' = headxBottom + 1
    BY <1>6, FirstFacts
  <2> QED BY <1>6, <2>1 DEF FeedIndex, FeedFirst, phraseVars
<1>7. CASE FeedPunc
  <2>1. ind = Len(headx) /\ ind = headxBottom + 1 /\ ind' = headxBottom + 2
    BY <1>7, PuncFacts
  <2>2. headxBottom < Len(headx) /\ ind' = Len(headx) + 1 /\ headxBottom = Len(headx) - 1
    BY <1>1, <2>1
  <2> QED BY <1>7, <2>2 DEF FeedIndex, FeedPunc, phraseVars
<1>8. CASE FeedItem
  <2>1. ind = headxBottom + 1 /\ ind < Len(headx) /\ ind' = ind + 1
        /\ headxBottom' = headxBottom + 1
    BY <1>8, ItemFacts, AtItemFacts
  <2>2. headxBottom' < Len(headx) /\ ind' = headxBottom' + 1
    BY <1>1, <2>1
  <2> QED BY <1>8, <2>2 DEF FeedIndex, FeedItem
<1>9. CASE FeedItemFull
  <2>1. headxBottom < Len(headx) /\ ind' = 0 /\ Len(headx') = Len(headx)
    BY <1>1, <1>9, ItemFullFacts, AtItemFacts
  <2> QED BY <1>9, <2>1 DEF FeedIndex, FeedItemFull, OutFull
<1>10. CASE FeedFull
  <2>1. headxBottom < Len(headx) /\ ind' = 0 /\ headx' = headx
    BY <1>1, <1>10, FullFacts DEF FeedIndex
  <2> QED BY <1>10, <2>1 DEF FeedIndex, FeedFull, OutFull
<1>11. CASE FeedDone \/ Reset
  BY <1>11 DEF FeedIndex, FeedDone, Reset
<1> QED
  BY <1>2, <1>3, <1>4, <1>5, <1>6, <1>7, <1>8, <1>9, <1>10, <1>11 DEF Next, Step

LEMMA DrainedStep ==
  ASSUME AcInv, Next
  PROVE  OutDrained'
<1> USE DEF Running, Return, GoOn
<1>1. /\ OutDrained /\ FeedIndex /\ Len(cbOut) \in Nat /\ headxBottom \in Nat /\ ind \in Nat
      /\ OutCap \in Nat /\ OutCap >= 2 /\ cbOut \in Seq(Ready)
  BY Types DEF AcInv
<1>2. Len(<< >>) = 0
  OBVIOUS
<1>3. CASE Call
  <2>1. cbOut = << >> /\ cbOut' = cbOut
    BY <1>1, <1>3 DEF Call, OutDrained
  <2> QED BY <1>1, <1>2, <2>1 DEF OutDrained
<1>4. CASE \/ CollectItem \/ CollectError \/ CollectPhrase \/ CollectForced \/ CollectIdle
           \/ Phr \/ Acc
  <2>1. status = "running" /\ procState # "FEED" /\ cbOut' = cbOut
    BY <1>4 DEF CollectItem, CollectError, CollectPhrase, CollectForced, CollectIdle, Phr, Acc
  <2>2. cbOut' = << >>
    BY <1>1, <2>1 DEF FeedIndex, OutDrained
  <2> QED BY <1>1, <1>2, <2>2 DEF OutDrained
<1>5. CASE FeedFirst
  <2>1. /\ cbOut' = << >> \/ cbOut' = << Bound(headx[1].strength, headx[1].btype) >>
        /\ ind' = headxBottom + 1
    BY <1>5, FirstFacts
  <2>2. Len(cbOut') <= 1 /\ Len(cbOut') <= OutCap /\ ind' # 0
    <3>1. Len(<< Bound(headx[1].strength, headx[1].btype) >>) = 1
      OBVIOUS
    <3>2. Len(cbOut') = 0 \/ Len(cbOut') = 1
      BY <1>2, <2>1, <3>1
    <3>3. ind' # 0
      BY <1>1, <2>1
    <3>4. OutCap \in Nat /\ OutCap >= 2
      BY <1>1
    <3>5. CASE Len(cbOut') = 0
      BY <3>3, <3>4, <3>5
    <3>6. CASE Len(cbOut') = 1
      BY <3>3, <3>4, <3>6
    <3> QED BY <3>2, <3>5, <3>6
  <2>3. status = "running" /\ status' = "running"
    BY <1>5 DEF FeedFirst
  <2> QED BY <2>2, <2>3 DEF OutDrained
<1>6. CASE FeedPunc
  <2>1. /\ ind' = headxBottom + 2 /\ status = "running" /\ status' = "running"
    BY <1>6, PuncFacts DEF FeedPunc
  <2>2. ind' # 0 /\ ind' # 1
    BY <1>1, <2>1
  <2>3. Len(cbOut') <= OutCap
    BY <1>6, PuncFacts
  <2> QED BY <2>1, <2>2, <2>3 DEF OutDrained
<1>7. CASE FeedItem
  <2>1. /\ ind = headxBottom + 1 /\ ind' = ind + 1 /\ status = "running" /\ status' = "running"
        /\ Len(cbOut') <= OutCap
    BY <1>7, ItemFacts, AtItemFacts DEF FeedItem
  <2>2. ind' # 0 /\ ind' # 1
    BY <1>1, <2>1
  <2> QED BY <2>1, <2>2 DEF OutDrained
<1>8. CASE FeedItemFull
  <2>1. status' = "OUT_FULL" /\ Len(cbOut') <= OutCap
    BY <1>8, ItemFullFacts
  <2> QED BY <2>1 DEF OutDrained
<1>9. CASE FeedFull
  <2>1. status' = "OUT_FULL" /\ cbOut' = cbOut
    BY <1>9, FullFacts
  <2> QED BY <1>1, <2>1 DEF OutDrained
<1>10. CASE FeedDone
  <2>1. status' = "BUSY" /\ cbOut' = cbOut
    BY <1>10 DEF FeedDone
  <2> QED BY <1>1, <2>1 DEF OutDrained
<1>11. CASE \E x \in Inputs : Arrive(x)
  BY <1>1, <1>11 DEF OutDrained, Arrive, phraseVars
<1>12. CASE Leave
  <2>1. cbOut # << >> /\ cbOut' = Tail(cbOut) /\ status # "running" /\ status' = status
    BY <1>12 DEF Leave
  <2>2. Len(cbOut') <= OutCap
    BY <1>1, <2>1 DEF OutDrained
  <2>3. status \notin {"ATOMIC", "ERROR"}
    BY <1>1, <2>1 DEF OutDrained
  <2> QED BY <2>1, <2>2, <2>3 DEF OutDrained
<1>13. CASE Reset
  <2>1. cbOut' = << >>
    BY <1>13 DEF Reset
  <2> QED BY <1>1, <1>2, <2>1 DEF OutDrained
<1> QED
  BY <1>3, <1>4, <1>5, <1>6, <1>7, <1>8, <1>9, <1>10, <1>11, <1>12, <1>13 DEF Next, Step

\* The info of the PUNC outlives the step.
LEMMA PuncKept ==
  ASSUME AcInv, Next, Phr \/ FeedItemFull \/ headx' = headx, Complete
  PROVE  Punc'.info1 = Punc.info1 /\ Punc'.info2 = Punc.info2 /\ Len(headx) \in 1 .. Len(headx)
<1>1. Len(headx) \in Nat /\ headx # << >> /\ headx \in Seq(Heads)
  BY Types DEF AcInv, OnePhrase
<1>2. Len(headx) \in 1 .. Len(headx)
  BY <1>1
<1> QED BY <1>2, SameHeadsFacts DEF SameHeads, Punc

LEMMA StrengthsStep ==
  ASSUME AcInv, Next
  PROVE  Strengths'
<1> USE DEF Running, Return, GoOn
<1>1. /\ Strengths /\ FeedIndex /\ headx \in Seq(Heads) /\ Len(headx) \in Nat
      /\ headxBottom \in Nat
  BY Types DEF AcInv
<1>2. CASE procState' \notin {"ACC", "FEED"}
  BY <1>2 DEF Strengths
<1>3. CASE Phr
  <2>1. Complete
    BY <1>3, PhrFacts DEF Complete
  <2>2. Punc'.info1 = Punc.info1 /\ Len(headx) \in 1 .. Len(headx)
    BY <1>3, <2>1, PuncKept
  <2>3. headx'[1].strength \in Open /\ headx'[1].strength \notin Sub
    BY <1>3, PhrFacts, KindFacts DEF Open
  <2>4. \A n \in 2 .. Len(headx) : n \in 1 .. Len(headx) /\ n # 1
    BY <1>1
  <2> QED BY <1>3, <2>2, <2>3, <2>4, PhrFacts DEF Strengths
<1>4. CASE FeedItemFull
  <2>1. procState = "FEED" /\ Complete
    BY <1>4 DEF FeedItemFull, Complete
  <2>2. Punc'.info1 = Punc.info1 /\ Len(headx) \in 1 .. Len(headx)
    BY <1>4, <2>1, PuncKept
  <2>3. headxBottom' = headxBottom /\ boundStrengthState' = boundStrengthState
    BY <1>4 DEF FeedItemFull, OutFull
  <2>4. \A n \in 1 .. Len(headx) : headx'[n] = headx[n] \/ headx'[n].strength = "none"
    BY <1>4, ItemFullFacts
  <2>5. "none" \notin Open /\ "none" \notin Sub
    BY DEF Open, Sub
  <2>6. \A n \in 2 .. Len(headx) : n \in 1 .. Len(headx)
    BY <1>1
  <2> QED BY <1>1, <1>4, <2>1, <2>2, <2>3, <2>4, <2>5, <2>6, ItemFullFacts DEF Strengths
<1>5. CASE /\ headx' = headx /\ procState \in {"ACC", "FEED"}
           /\ headxBottom' = headxBottom \/ headxBottom' = headxBottom + 1
           /\ boundStrengthState' = boundStrengthState
  <2>1. headxBottom' = 0 => headxBottom = 0
    BY <1>1, <1>5
  <2> QED BY <1>1, <1>5, <2>1 DEF Strengths, Punc
<1>6. \/ procState' \notin {"ACC", "FEED"} \/ Phr \/ FeedItemFull
      \/ /\ headx' = headx /\ procState \in {"ACC", "FEED"}
         /\ headxBottom' = headxBottom \/ headxBottom' = headxBottom + 1
         /\ boundStrengthState' = boundStrengthState
  BY DEF Next, Step, Call, CollectItem, CollectError, CollectPhrase, CollectForced, CollectIdle,
         Acc, FeedFirst, FeedPunc, FeedItem, FeedFull, OutFull, FeedDone, Arrive, Leave, Reset,
         flagVars, phraseVars
<1> QED BY <1>2, <1>3, <1>4, <1>5, <1>6

-----------------------------------------------------------------------------
(* What follows on what at the output.                                      *)
LEMMA EmptyFacts ==
  ASSUME NEW S, NEW s \in Seq(S)
  PROVE  s # << >> <=> Len(s) >= 1
OBVIOUS

Follows(l, s) == \A n \in 1 .. Len(s) : MayFollow((<< l >> \o s)[n], (<< l >> \o s)[n + 1])

LEMMA FollowsForm ==
  ASSUME NEW l \in Ready, NEW s \in Seq(Ready)
  PROVE  Follows(l, s) <=> /\ s # << >> => MayFollow(l, s[1])
                           /\ \A n \in 1 .. Len(s) - 1 : MayFollow(s[n], s[n + 1])
<1>1. /\ Len(s) \in Nat /\ (<< l >> \o s)[1] = l
      /\ \A n \in 1 .. Len(s) : (<< l >> \o s)[n + 1] = s[n]
      /\ s # << >> <=> Len(s) >= 1
  OBVIOUS
<1> DEFINE t == << l >> \o s
<1>2. t[1] = l /\ \A n \in 1 .. Len(s) : t[n + 1] = s[n]
  BY <1>1
<1> HIDE DEF t
<1>3. ASSUME \A n \in 1 .. Len(s) : MayFollow(t[n], t[n + 1])
      PROVE  /\ s # << >> => MayFollow(l, s[1])
             /\ \A n \in 1 .. Len(s) - 1 : MayFollow(s[n], s[n + 1])
  <2>1. ASSUME s # << >> PROVE MayFollow(l, s[1])
    <3>1. 1 \in 1 .. Len(s)
      BY <1>1, <2>1
    <3>2. MayFollow(t[1], t[1 + 1]) /\ t[1 + 1] = s[1]
      BY <1>2, <1>3, <3>1
    <3> QED BY <1>2, <3>2
  <2>2. ASSUME NEW n \in 1 .. Len(s) - 1 PROVE MayFollow(s[n], s[n + 1])
    <3>1. n + 1 \in 1 .. Len(s) /\ n \in 1 .. Len(s)
      BY <1>1
    <3>2. MayFollow(t[n + 1], t[(n + 1) + 1]) /\ t[n + 1] = s[n] /\ t[(n + 1) + 1] = s[n + 1]
      BY <1>2, <1>3, <3>1
    <3> QED BY <3>2
  <2> QED BY <2>1, <2>2
<1>4. ASSUME /\ s # << >> => MayFollow(l, s[1])
             /\ \A n \in 1 .. Len(s) - 1 : MayFollow(s[n], s[n + 1]),
             NEW n \in 1 .. Len(s)
      PROVE  MayFollow(t[n], t[n + 1])
  <2>1. CASE n = 1
    <3>1. t[n] = l /\ t[n + 1] = s[1] /\ s # << >>
      BY <1>1, <1>2, <2>1
    <3> QED BY <1>4, <3>1
  <2>2. CASE n # 1
    <3>1. n - 1 \in 1 .. Len(s) - 1 /\ n - 1 \in 1 .. Len(s) /\ (n - 1) + 1 = n
      BY <1>1, <2>2
    <3>2. t[n] = s[n - 1] /\ t[n + 1] = s[n]
      BY <1>2, <3>1
    <3>3. MayFollow(s[n - 1], s[(n - 1) + 1])
      BY <1>4, <3>1
    <3> QED BY <3>1, <3>2, <3>3
  <2> QED BY <2>1, <2>2
<1>5. Follows(l, s) <=> \A n \in 1 .. Len(s) : MayFollow(t[n], t[n + 1])
  BY DEF Follows, t
<1> QED BY <1>3, <1>4, <1>5

\* What is put may follow on what was put before it.
LEMMA PutFollows ==
  ASSUME NEW l \in Ready, NEW s \in Seq(Ready), NEW x \in Ready,
         Follows(l, s), MayFollow(EndOf(l, s), x)
  PROVE  Follows(l, Append(s, x)) /\ EndOf(l, Append(s, x)) = x /\ Append(s, x) \in Seq(Ready)
<1> DEFINE t == Append(s, x)
<1>1. /\ Len(s) \in Nat /\ t \in Seq(Ready) /\ Len(t) = Len(s) + 1 /\ t # << >>
      /\ \A n \in 1 .. Len(s) : t[n] = s[n]
      /\ t[Len(s) + 1] = x
  BY AppendFacts
<1>2. s # << >> <=> Len(s) >= 1
  OBVIOUS
<1> HIDE DEF t
<1>3. EndOf(l, t) = x
  BY <1>1 DEF EndOf
<1>4. MayFollow(l, t[1])
  <2>1. CASE s = << >>
    <3>1. t[1] = x
      BY <1>1, <1>2, <2>1
    <3> QED BY <2>1, <3>1 DEF EndOf
  <2>2. CASE s # << >>
    <3>1. t[1] = s[1]
      BY <1>1, <1>2, <2>2
    <3> QED BY <2>2, <3>1, FollowsForm
  <2> QED BY <2>1, <2>2
<1>5. ASSUME NEW n \in 1 .. Len(s) PROVE MayFollow(t[n], t[n + 1])
  <2>1. CASE n = Len(s)
    <3>1. t[n] = s[Len(s)] /\ t[n + 1] = x /\ s # << >>
      BY <1>1, <1>2, <2>1
    <3> QED BY <3>1 DEF EndOf
  <2>2. CASE n # Len(s)
    <3>1. n \in 1 .. Len(s) - 1 /\ n + 1 \in 1 .. Len(s)
      BY <1>1, <2>2
    <3>2. t[n] = s[n] /\ t[n + 1] = s[n + 1]
      BY <1>1, <3>1
    <3> QED BY <3>1, <3>2, FollowsForm
  <2> QED BY <2>1, <2>2
<1>6. Len(t) - 1 = Len(s)
  BY <1>1
<1>7. Follows(l, t)
  BY <1>1, <1>4, <1>5, <1>6, FollowsForm
<1> QED BY <1>1, <1>3, <1>7 DEF t

\* What has left is what the rest follows on.
LEMMA LeaveFollows ==
  ASSUME NEW l \in Ready, NEW s \in Seq(Ready), s # << >>, Follows(l, s)
  PROVE  /\ Follows(Head(s), Tail(s)) /\ EndOf(Head(s), Tail(s)) = EndOf(l, s)
         /\ Head(s) \in Ready /\ Tail(s) \in Seq(Ready)
<1> DEFINE t == Tail(s)
<1>1. /\ Len(s) \in Nat /\ Len(s) >= 1 /\ Head(s) = s[1] /\ s[1] \in Ready
      /\ t \in Seq(Ready) /\ Len(t) = Len(s) - 1
      /\ \A n \in 1 .. Len(s) - 1 : t[n] = s[n + 1]
      /\ t # << >> <=> Len(s) >= 2
  <2>1. Len(s) \in Nat /\ Len(s) >= 1 /\ Head(s) = s[1] /\ s[1] \in Ready
    OBVIOUS
  <2>2. /\ t \in Seq(Ready) /\ Len(t) = Len(s) - 1
        /\ \A n \in 1 .. Len(s) - 1 : t[n] = s[n + 1]
    OBVIOUS
  <2>3. t # << >> <=> Len(t) >= 1
    BY <2>2, EmptyFacts
  <2> QED BY <2>1, <2>2, <2>3
<1> HIDE DEF t
<1>2. \A n \in 1 .. Len(s) - 1 : MayFollow(s[n], s[n + 1])
  BY FollowsForm
<1>3. t # << >> => MayFollow(s[1], t[1])
  <2> SUFFICES ASSUME t # << >> PROVE MayFollow(s[1], t[1])
    OBVIOUS
  <2>1. 1 \in 1 .. Len(s) - 1
    BY <1>1
  <2>2. t[1] = s[1 + 1] /\ MayFollow(s[1], s[1 + 1])
    BY <1>1, <1>2, <2>1
  <2> QED BY <2>2
<1>4. ASSUME NEW n \in 1 .. Len(t) - 1 PROVE MayFollow(t[n], t[n + 1])
  <2>1. n \in 1 .. Len(s) - 1 /\ n + 1 \in 1 .. Len(s) - 1
    BY <1>1
  <2>2. t[n] = s[n + 1] /\ t[n + 1] = s[(n + 1) + 1] /\ MayFollow(s[n + 1], s[(n + 1) + 1])
    BY <1>1, <1>2, <2>1
  <2> QED BY <2>2
<1>5. EndOf(s[1], t) = EndOf(l, s)
  <2>1. CASE t = << >>
    <3>1. Len(s) = 1 /\ s # << >>
      BY <1>1, <2>1
    <3> QED BY <2>1, <3>1 DEF EndOf
  <2>2. CASE t # << >>
    <3>1. Len(s) - 1 \in 1 .. Len(s) - 1 /\ Len(t) = Len(s) - 1 /\ (Len(s) - 1) + 1 = Len(s)
      BY <1>1, <2>2
    <3>2. t[Len(t)] = s[Len(s)]
      BY <1>1, <3>1
    <3> QED BY <2>2, <3>2 DEF EndOf
  <2> QED BY <2>1, <2>2
<1> QED BY <1>1, <1>3, <1>4, <1>5, FollowsForm DEF t

\* The lines of MayFollow, for the BOUNDs and items that FEED puts.
LEMMA MayFollowFacts ==
  ASSUME NEW a, NEW b
  PROVE  /\ b.kind = "SBEG" /\ a.kind \in Closing => MayFollow(a, b)
         /\ b.kind = "PHR1" /\ a.kind \notin Closing \union Sub => MayFollow(a, b)
         /\ b.kind = "SEND" /\ a.kind \notin Closing \union Sub => MayFollow(a, b)
         /\ b.kind = "TERM" /\ a.kind \notin Sub => MayFollow(a, b)
         /\ b.kind \in Sub /\ a.kind \in Kinds => MayFollow(a, b)
         /\ b.kind \in Kinds /\ a.kind \notin Closing => MayFollow(a, b)
<1>1. b.kind = "SBEG" /\ a.kind \in Closing => MayFollow(a, b)
  BY DEF MayFollow
<1>2. b.kind = "PHR1" /\ a.kind \notin Closing \union Sub => MayFollow(a, b)
  BY DEF MayFollow, Closing, Sub
<1>3. b.kind = "SEND" /\ a.kind \notin Closing \union Sub => MayFollow(a, b)
  BY DEF MayFollow, Closing, Sub
<1>4. b.kind = "TERM" /\ a.kind \notin Sub => MayFollow(a, b)
  BY DEF MayFollow, Sub
<1>5. b.kind \in Sub /\ a.kind \in Kinds => MayFollow(a, b)
  BY DEF MayFollow, Sub
<1>6. b.kind \in Kinds /\ a.kind \notin Closing => MayFollow(a, b)
  BY DEF MayFollow, Kinds
<1> QED BY <1>1, <1>2, <1>3, <1>4, <1>5, <1>6

\* What EndOpen says where the loop stands at an item or the PUNC.
LEMMA OpenAt ==
  ASSUME AcInv, procState = "FEED", ind = headxBottom + 1, headxBottom < Len(headx)
  PROVE  /\ headx[ind].kind # "PUNC" =>
              \/ Latest.kind \in Open
              \/ Latest.kind \in Kinds
              \/ Latest.kind \in Sub /\ headx[ind].strength = "none"
         /\ headx[ind].kind = "PUNC" =>
              \/ Latest.kind \in Open
              \/ Latest.kind \in Kinds
              \/ headx[ind].info1 = "f" /\ Latest.kind \notin Sub
         /\ headxBottom > 0 => Latest.kind \notin Open
<1>1. /\ EndOpen /\ headxBottom \in Nat /\ ind \in 1 .. Len(headx)
      /\ HeadSound(headx[ind])
  <2>1. headxBottom \in Nat /\ Len(headx) \in Nat
    BY Types DEF AcInv
  <2>2. ind \in 1 .. Len(headx)
    BY <2>1
  <2> QED BY <2>1, <2>2 DEF AcInv, HeadsSound
<1>2. CASE headxBottom = 0
  <2>1. ind = 1
    BY <1>2
  <2>2. IF headx[1].info1 = "f" THEN Latest.kind \notin Sub ELSE Latest.kind \in Open
    BY <1>1, <1>2, <2>1 DEF EndOpen
  <2>3. headx[1].kind # "PUNC" => headx[1].info1 # "f"
    BY <1>1, <2>1 DEF HeadSound
  <2> QED BY <1>2, <2>1, <2>2, <2>3
<1>3. CASE headxBottom > 0
  <2>1. \/ Latest.kind \in Kinds
        \/ /\ Latest.kind \in Sub /\ headx[ind].strength = "none" /\ headx[ind].kind # "PUNC"
    BY <1>1, <1>3 DEF EndOpen
  <2>2. Latest.kind \notin Open
    BY <2>1, KindFacts DEF Open, Kinds, Sub
  <2> QED BY <2>1, <2>2
<1> QED BY <1>1, <1>2, <1>3

LEMMA PuncOpenStep ==
  ASSUME AcInv, FeedPunc
  PROVE  EndOpen' /\ BoundsFollow'
<1>1. /\ last' = last /\ boundStrengthState' = boundStrengthState /\ procState' = "FEED"
      /\ headxBottom' = headxBottom /\ headx' = headx
  BY DEF FeedPunc, envVars, phraseVars, Running
<1>2. /\ procState = "FEED" /\ ind = headxBottom + 1 /\ ind = Len(headx) /\ ind' = headxBottom + 2
      /\ headx[ind] = Punc /\ Punc.kind = "PUNC"
      /\ headxBottom \in Nat /\ last \in Ready /\ cbOut \in Seq(Ready)
  BY PuncFacts, Types DEF AcInv, TypeOK
<1>3. \/ Latest.kind \in Open
      \/ Latest.kind \in Kinds
      \/ Punc.info1 = "f" /\ Latest.kind \notin Sub
  <2>1. headxBottom < Len(headx)
    BY <1>2
  <2> QED BY <1>2, <2>1, OpenAt
<1>4. Latest.kind \in Open \/ Latest.kind \in Kinds => Latest.kind \notin Closing \union Sub
  BY KindFacts
<1>5. boundStrengthState = IF Punc.info1 = "p" THEN "PPHR" ELSE "SSEP"
  BY <1>2 DEF AcInv, Strengths
<1>6. Follows(last, cbOut)
  BY DEF AcInv, BoundsFollow, Follows, Stream
<1>7. ind' # 0 /\ ind' # 1 /\ ind' # headxBottom' + 1 /\ ind' = headxBottom' + 2
  BY <1>1, <1>2
<1>8. ASSUME Begins(boundStrengthState = "SSEP")', Follows(last', cbOut')
      PROVE  EndOpen' /\ BoundsFollow'
  BY <1>1, <1>7, <1>8 DEF EndOpen, BoundsFollow, Follows, Stream
<1>9. CASE Punc.info1 = "p"
  <2>1. cbOut' = cbOut /\ boundStrengthState = "PPHR"
    BY <1>5, <1>9, PuncFacts
  <2>2. Latest' = Latest /\ Latest.kind \notin Closing \union Sub
    BY <1>1, <1>3, <1>4, <1>9, <2>1 DEF Latest
  <2>3. Begins(boundStrengthState = "SSEP")'
    BY <1>1, <2>1, <2>2 DEF Begins
  <2> QED BY <1>1, <1>6, <1>8, <2>1, <2>3
<1>10. CASE Punc.info1 # "p"
  <2>1. PICK x \in {Bound("SEND", "NA"), Bound("TERM", "NA")} :
          /\ cbOut' = Append(cbOut, x)
          /\ x.kind = "SEND" => Punc.info1 = "s"
    BY <1>10, PuncFacts DEF Bound
  <2>2. x \in Ready /\ x.kind \in Closing /\ (x.kind = "SEND" \/ x.kind = "TERM")
    BY <2>1, BoundTyped DEF Closing
  <2>3. MayFollow(Latest, x)
    <3>1. CASE x.kind = "SEND"
      <4>1. Latest.kind \notin Closing \union Sub
        BY <1>3, <1>4, <2>1, <3>1
      <4> QED BY <3>1, <4>1, MayFollowFacts
    <3>2. CASE x.kind = "TERM"
      <4>1. Latest.kind \notin Sub
        BY <1>3, <1>4
      <4> QED BY <3>2, <4>1, MayFollowFacts
    <3> QED BY <2>2, <3>1, <3>2
  <2>4. Follows(last, cbOut') /\ EndOf(last, cbOut') = x
    BY <1>2, <1>6, <2>1, <2>2, <2>3, PutFollows DEF Latest
  <2>5. Latest' = x /\ boundStrengthState' = "SSEP"
    BY <1>1, <1>5, <1>10, <2>4 DEF Latest
  <2>6. Begins(boundStrengthState = "SSEP")'
    BY <2>2, <2>5 DEF Begins
  <2> QED BY <1>1, <1>8, <2>4, <2>6
<1> QED BY <1>9, <1>10

LEMMA ItemOpenStep ==
  ASSUME AcInv, FeedItem
  PROVE  EndOpen' /\ BoundsFollow'
<1> DEFINE it == AsItem(headx[ind])
           bd == Bound(headx[ind].strength, headx[ind].btype)
<1>1. /\ last' = last /\ procState' = "FEED" /\ procState = "FEED" /\ headx' = headx
  BY DEF FeedItem, envVars, Running
<1>2. /\ Running("FEED") /\ AtItem /\ ind' = ind + 1 /\ headxBottom' = headxBottom + 1
      /\ IF headx[ind].strength \in Sub THEN cbOut' = Append(Append(cbOut, bd), it)
                                        ELSE cbOut' = Append(cbOut, it)
  BY ItemFacts
<1>3. /\ ind = headxBottom + 1 /\ ind < Len(headx) /\ headx[ind] \in Heads
      /\ headx[ind].kind \in {"WORDPHON", "CMD"}
      /\ headx[ind].strength \in Sub => headxBottom > 0
      /\ headxBottom \in Nat /\ last \in Ready /\ cbOut \in Seq(Ready) /\ Len(headx) \in Nat
  BY <1>2, AtItemFacts, Types DEF AcInv, TypeOK
<1>4. /\ it \in Ready /\ it.kind \in Kinds
      /\ headx[ind].strength \in Sub => bd \in Ready /\ bd.kind \in Sub
  <2>1. headx[ind].btype \in PuncTypes \union {"NA"} /\ it \in Ready /\ it.kind \in Kinds
    BY <1>3, HeadTyped
  <2> QED BY <2>1, KindFacts, BoundTyped
<1>5. \/ Latest.kind \in Open
      \/ Latest.kind \in Kinds
      \/ Latest.kind \in Sub /\ headx[ind].strength = "none"
  <2>1. headxBottom < Len(headx) /\ headx[ind].kind # "PUNC"
    BY <1>3
  <2> QED BY <1>1, <1>3, <2>1, OpenAt
<1>6. headxBottom > 0 => Latest.kind \notin Open
  <2>1. headxBottom < Len(headx)
    BY <1>3
  <2> QED BY <1>1, <1>3, <2>1, OpenAt
<1> HIDE DEF it, bd
<1>7. Follows(last, cbOut)
  BY DEF AcInv, BoundsFollow, Follows, Stream
<1>8. Follows(last, cbOut') /\ EndOf(last, cbOut') = it
  <2>1. CASE headx[ind].strength \in Sub
    <3>1. Latest.kind \in Kinds
      BY <1>3, <1>5, <1>6, <2>1 DEF Sub
    <3>2. MayFollow(Latest, bd) /\ bd \in Ready
      BY <1>4, <2>1, <3>1, MayFollowFacts
    <3>3. /\ Follows(last, Append(cbOut, bd)) /\ EndOf(last, Append(cbOut, bd)) = bd
          /\ Append(cbOut, bd) \in Seq(Ready)
      BY <1>3, <1>7, <3>2, PutFollows DEF Latest
    <3>4. MayFollow(bd, it)
      BY <1>4, <2>1, KindFacts, MayFollowFacts
    <3>5. cbOut' = Append(Append(cbOut, bd), it)
      BY <1>2, <2>1
    <3> QED BY <1>3, <1>4, <3>3, <3>4, <3>5, PutFollows
  <2>2. CASE headx[ind].strength \notin Sub
    <3>1. Latest.kind \notin Closing
      BY <1>5, KindFacts
    <3>2. MayFollow(Latest, it)
      BY <1>4, <3>1, MayFollowFacts
    <3>3. cbOut' = Append(cbOut, it)
      BY <1>2, <2>2
    <3> QED BY <1>3, <1>4, <1>7, <3>2, <3>3, PutFollows DEF Latest
  <2> QED BY <2>1, <2>2
<1>9. BoundsFollow'
  BY <1>1, <1>8 DEF BoundsFollow, Follows, Stream
<1>10. EndOpen'
  <2>1. Latest' = it
    BY <1>1, <1>8 DEF Latest
  <2>2. headxBottom' > 0 /\ ind' # headxBottom' + 2 /\ procState' = "FEED" /\ headxBottom' # 0
    BY <1>1, <1>2, <1>3
  <2> QED BY <1>4, <2>1, <2>2 DEF EndOpen
<1> QED BY <1>9, <1>10

LEMMA FirstOpenStep ==
  ASSUME AcInv, FeedFirst
  PROVE  EndOpen' /\ BoundsFollow'
<1> DEFINE bd == Bound(headx[1].strength, headx[1].btype)
<1>1. /\ last' = last /\ procState' = "FEED" /\ procState = "FEED" /\ headx' = headx
      /\ headxBottom' = headxBottom /\ ind = 0
  BY DEF FeedFirst, envVars, phraseVars, Running
<1>2. /\ cbOut = << >> /\ headxBottom < Len(headx) /\ ind' = headxBottom + 1
      /\ headxBottom \in Nat /\ last \in Ready /\ cbOut \in Seq(Ready)
      /\ EndOpen /\ Strengths
  BY FirstFacts, Types DEF AcInv, TypeOK
<1>3. Follows(last, cbOut)
  BY DEF AcInv, BoundsFollow, Follows, Stream
<1>4. /\ ind' # 0 /\ ind' # headxBottom' + 2 /\ ind' = headxBottom' + 1
      /\ headxBottom > 0 => ind' # 1
  BY <1>1, <1>2
<1>5. CASE headxBottom = 0 /\ headx[1].info1 # "f"
  <2>1. /\ headx[1].strength \in Open /\ headx[1].btype \in PuncTypes \union {"NA"}
        /\ cbOut' = << bd >>
    BY <1>5, FirstFacts
  <2>2. bd \in Ready /\ bd.kind = headx[1].strength /\ bd.kind \in Open
    BY <2>1, KindFacts, BoundTyped
  <2> HIDE DEF bd
  <2>3. MayFollow(Latest, bd)
    <3>1. Begins(headx[1].strength = "SBEG")
      BY <1>1, <1>2, <1>5 DEF EndOpen
    <3>2. CASE bd.kind = "SBEG"
      BY <2>2, <3>1, <3>2, MayFollowFacts DEF Begins
    <3>3. CASE bd.kind = "PHR1"
      BY <2>2, <3>1, <3>3, MayFollowFacts DEF Begins
    <3> QED BY <2>2, <3>2, <3>3 DEF Open
  <2>4. cbOut' = Append(cbOut, bd)
    BY <1>2, <2>1
  <2>5. Follows(last, cbOut') /\ EndOf(last, cbOut') = bd
    BY <1>2, <1>3, <2>2, <2>3, <2>4, PutFollows DEF Latest
  <2>6. BoundsFollow'
    BY <1>1, <2>5 DEF BoundsFollow, Follows, Stream
  <2>7. Latest' = bd
    BY <1>1, <2>5 DEF Latest
  <2>8. EndOpen'
    BY <1>1, <1>4, <1>5, <2>2, <2>7 DEF EndOpen
  <2> QED BY <2>6, <2>8
<1>6. CASE ~(headxBottom = 0 /\ headx[1].info1 # "f")
  <2>1. cbOut' = << >>
    BY <1>6, FirstFacts
  <2>2. cbOut' = cbOut /\ Latest' = Latest
    BY <1>1, <1>2, <2>1 DEF Latest
  <2>3. BoundsFollow'
    BY <1>1, <1>3, <2>2 DEF BoundsFollow, Follows, Stream
  <2>4. CASE headxBottom = 0
    <3>1. Begins(headx[1].strength = "SBEG") /\ headx[1].info1 = "f"
      BY <1>1, <1>2, <1>6, <2>4 DEF EndOpen
    <3>2. Latest.kind \notin Sub
      BY <3>1 DEF Begins, Closing, Sub
    <3> QED BY <1>1, <1>4, <2>2, <2>3, <2>4, <3>1, <3>2 DEF EndOpen
  <2>5. CASE headxBottom > 0
    <3>1. /\ headxBottom # 0
          /\ \/ Latest.kind \in Kinds
             \/ /\ Latest.kind \in Sub
                /\ headx[headxBottom + 1].strength = "none"
                /\ headx[headxBottom + 1].kind # "PUNC"
      BY <1>1, <1>2, <2>5 DEF EndOpen
    <3> QED BY <1>1, <1>4, <2>2, <2>3, <2>5, <3>1 DEF EndOpen
  <2> QED BY <1>2, <2>4, <2>5
<1> QED BY <1>5, <1>6

LEMMA ItemFullOpenStep ==
  ASSUME AcInv, FeedItemFull
  PROVE  EndOpen' /\ BoundsFollow'
<1> DEFINE bd == Bound(headx[ind].strength, headx[ind].btype)
<1>1. /\ last' = last /\ procState' = "FEED" /\ procState = "FEED" /\ headxBottom' = headxBottom
  BY DEF FeedItemFull, OutFull, envVars, Running
<1>2. /\ Running("FEED") /\ AtItem /\ headxBottom > 0 /\ ind' = 0
      /\ \A n \in 1 .. Len(headx) : headx'[n].kind = headx[n].kind
      /\ headx'[ind].strength = "none"
      /\ IF headx[ind].strength \in Sub THEN cbOut' = Append(cbOut, bd) ELSE cbOut' = cbOut
  BY ItemFullFacts
<1>3. /\ ind = headxBottom + 1 /\ ind < Len(headx) /\ headx[ind] \in Heads
      /\ ind \in 1 .. Len(headx) /\ headx[ind].kind # "PUNC"
      /\ headxBottom \in Nat /\ last \in Ready /\ cbOut \in Seq(Ready) /\ Len(headx) \in Nat
  BY <1>2, AtItemFacts, Types DEF AcInv, TypeOK
<1>4. \/ Latest.kind \in Kinds
      \/ Latest.kind \in Sub /\ headx[ind].strength = "none"
  <2>1. headxBottom < Len(headx)
    BY <1>3
  <2> QED BY <1>1, <1>2, <1>3, <2>1, OpenAt
<1>5. headx'[ind].strength = "none" /\ headx'[ind].kind # "PUNC"
  BY <1>2, <1>3
<1>6. Follows(last, cbOut)
  BY DEF AcInv, BoundsFollow, Follows, Stream
<1>7. Follows(last, cbOut') /\ (EndOf(last, cbOut').kind \in Kinds \/ EndOf(last, cbOut').kind \in Sub)
  <2>1. CASE headx[ind].strength \in Sub
    <3>1. headx[ind].btype \in PuncTypes \union {"NA"}
      BY <1>3, HeadTyped
    <3>2. bd \in Ready /\ bd.kind \in Sub
      BY <2>1, <3>1, KindFacts, BoundTyped
    <3>3. cbOut' = Append(cbOut, bd)
      BY <1>2, <2>1
    <3> HIDE DEF bd
    <3>4. Latest.kind \in Kinds
      BY <1>4, <2>1 DEF Sub
    <3>5. MayFollow(Latest, bd)
      BY <3>2, <3>4, MayFollowFacts
    <3> QED BY <1>3, <1>6, <3>2, <3>3, <3>5, PutFollows DEF Latest
  <2>2. CASE headx[ind].strength \notin Sub
    <3>1. cbOut' = cbOut
      BY <1>2, <2>2
    <3> QED BY <1>4, <1>6, <3>1 DEF Latest
  <2> QED BY <2>1, <2>2
<1>8. BoundsFollow'
  BY <1>1, <1>7 DEF BoundsFollow, Follows, Stream
<1>9. EndOpen'
  <2>1. Latest'.kind \in Kinds \/ Latest'.kind \in Sub
    BY <1>1, <1>7 DEF Latest
  <2>2. /\ headxBottom' # 0 /\ ind' # headxBottom' + 2 /\ headxBottom' + 1 = ind
        /\ headx'[headxBottom' + 1].strength = "none" /\ headx'[headxBottom' + 1].kind # "PUNC"
    BY <1>1, <1>2, <1>3, <1>5
  <2> QED BY <1>1, <2>1, <2>2 DEF EndOpen
<1> QED BY <1>8, <1>9

LEMMA OpenStep ==
  ASSUME AcInv, Next
  PROVE  EndOpen' /\ BoundsFollow'
<1> USE DEF Running, Return, GoOn
<1>1. /\ EndOpen /\ BoundsFollow /\ FeedIndex /\ headxBottom \in Nat /\ ind \in Nat
      /\ Len(headx) \in Nat /\ last \in Ready /\ cbOut \in Seq(Ready) /\ headx \in Seq(Heads)
  BY Types DEF AcInv, TypeOK
<1>2. ASSUME cbOut' = cbOut, last' = last
      PROVE  /\ BoundsFollow' /\ Latest' = Latest
             /\ \A b \in BOOLEAN : Begins(b)' <=> Begins(b)
  BY <1>1, <1>2 DEF BoundsFollow, Stream, Latest, Begins
<1>3. CASE Call \/ CollectError \/ CollectPhrase \/ CollectIdle \/ \E x \in Inputs : Arrive(x)
  <2>1. /\ cbOut' = cbOut /\ last' = last /\ headx' = headx /\ headxBottom' = headxBottom
        /\ ind' = ind /\ boundStrengthState' = boundStrengthState
        /\ procState' = procState \/ (procState = "COLLECT" /\ procState' = "PHR")
    BY <1>3 DEF Call, CollectError, CollectPhrase, CollectIdle, Arrive, phraseVars, envVars
  <2>2. BoundsFollow' /\ Latest' = Latest
    BY <1>2, <2>1
  <2> QED BY <1>1, <2>1, <2>2 DEF EndOpen, Begins
<1>4. CASE CollectItem \/ CollectForced
  <2>1. /\ cbOut' = cbOut /\ last' = last /\ boundStrengthState' = boundStrengthState
        /\ procState = "COLLECT" /\ procState' \in {"COLLECT", "PHR"}
    BY <1>4 DEF CollectItem, CollectForced, envVars
  <2>2. BoundsFollow' /\ Latest' = Latest
    BY <1>2, <2>1
  <2> QED BY <1>1, <2>1, <2>2 DEF EndOpen, Begins
<1>5. CASE Phr
  <2>1. /\ cbOut' = cbOut /\ last' = last /\ procState = "PHR" /\ procState' = "ACC"
    BY <1>5 DEF Phr, envVars
  <2>2. BoundsFollow' /\ Latest' = Latest
    BY <1>2, <2>1
  <2>3. headx'[1].strength = "SBEG" <=> boundStrengthState = "SSEP"
    BY <1>5, PhrFacts
  <2> QED BY <1>1, <2>1, <2>2, <2>3 DEF EndOpen, Begins
<1>6. CASE Acc
  <2>1. /\ cbOut' = cbOut /\ last' = last /\ procState = "ACC" /\ procState' = "FEED" /\ ind' = 0
        /\ headx' = headx /\ headxBottom' = headxBottom /\ headxBottom = 0
    BY <1>1, <1>6 DEF Acc, phraseVars, envVars, FeedIndex
  <2>2. BoundsFollow' /\ Latest' = Latest
    BY <1>2, <2>1
  <2>3. ind' # 1 /\ ind' # headxBottom' + 2 /\ ~(headxBottom' > 0)
    BY <2>1
  <2> QED BY <1>1, <2>1, <2>2, <2>3 DEF EndOpen, Begins
<1>7. CASE FeedFull
  <2>1. /\ cbOut' = cbOut /\ headx' = headx /\ headxBottom > 0 /\ ind = headxBottom + 1
        /\ ind' = 0 /\ last' = last /\ headxBottom' = headxBottom
        /\ procState = "FEED" /\ procState' = "FEED"
    BY <1>7, FullFacts DEF FeedFull, OutFull, envVars
  <2>2. BoundsFollow' /\ Latest' = Latest
    BY <1>2, <2>1
  <2>3. ind' # headxBottom' + 2 /\ headxBottom' # 0
    BY <1>1, <2>1
  <2> QED BY <1>1, <2>1, <2>2, <2>3 DEF EndOpen, Begins
<1>8. CASE FeedDone
  <2>1. /\ cbOut' = cbOut /\ last' = last /\ procState = "FEED" /\ procState' = "COLLECT"
        /\ boundStrengthState' = boundStrengthState /\ ind > Len(headx)
    BY <1>8 DEF FeedDone, envVars
  <2>2. BoundsFollow' /\ Latest' = Latest
    BY <1>2, <2>1
  <2>3. ind = headxBottom + 2
    <3>1. /\ headxBottom < Len(headx)
          /\ \/ ind = 0
             \/ ind = headxBottom + 1
             \/ ind = Len(headx) + 1 /\ headxBottom = Len(headx) - 1
      BY <1>1, <2>1 DEF FeedIndex
    <3> QED BY <1>1, <2>1, <3>1
  <2> QED BY <1>1, <2>1, <2>2, <2>3 DEF EndOpen, Begins
<1>9. CASE Leave
  <2>1. /\ cbOut # << >> /\ cbOut' = Tail(cbOut) /\ last' = Head(cbOut)
        /\ headx' = headx /\ headxBottom' = headxBottom /\ ind' = ind
        /\ boundStrengthState' = boundStrengthState /\ procState' = procState
    BY <1>9 DEF Leave, phraseVars
  <2>2. Follows(last, cbOut)
    BY <1>1 DEF BoundsFollow, Follows, Stream
  <2>3. Follows(last', cbOut') /\ EndOf(last', cbOut') = EndOf(last, cbOut)
    BY <1>1, <2>1, <2>2, LeaveFollows
  <2>4. BoundsFollow' /\ Latest' = Latest
    BY <2>3 DEF BoundsFollow, Follows, Stream, Latest
  <2> QED BY <1>1, <2>1, <2>4 DEF EndOpen, Begins
<1>10. CASE Reset
  <2>1. /\ cbOut' = << >> /\ last' = Start /\ procState' = "COLLECT" /\ boundStrengthState' = "SSEP"
    BY <1>10 DEF Reset
  <2>2. Len(cbOut') = 0 /\ Latest'.kind \in Closing
    BY <2>1 DEF Latest, EndOf, Start, Closing
  <2> QED BY <2>1, <2>2 DEF EndOpen, Begins, BoundsFollow
<1> QED
  BY <1>3, <1>4, <1>5, <1>6, <1>7, <1>8, <1>9, <1>10, FirstOpenStep, PuncOpenStep, ItemOpenStep,
     ItemFullOpenStep DEF Next, Step

-----------------------------------------------------------------------------
(* The BOUND with the type of the phrase is still to come, or it was the    *)
(* last one.                                                                *)
LEMMA ToneStep ==
  ASSUME AcInv, Next
  PROVE  ToneComing'
<1> USE DEF Running, Return, GoOn
<1>1. /\ ToneComing /\ FeedIndex /\ headxBottom \in Nat /\ ind \in Nat /\ Len(headx) \in Nat
  BY Types DEF AcInv
<1>2. CASE procState' \notin {"ACC", "FEED"}
  BY <1>2 DEF ToneComing
<1>3. CASE Phr
  <2>1. /\ Complete /\ procState # "FEED" /\ headxBottom' = headxBottom /\ ind' = ind
    BY <1>3 DEF Phr, Complete
  <2>2. headxBottom' = 0 /\ ind' = 0
    BY <1>1, <2>1 DEF FeedIndex
  <2>3. Punc'.info2 = Punc.info2 /\ Len(headx) \in 1 .. Len(headx) /\ Len(headx') = Len(headx)
    BY <1>3, <2>1, PuncKept, PhrFacts
  <2>4. \A n \in 1 .. Len(headx) :
          n = 1 \/ headx'[n].strength \in Sub =>
            headx'[n].btype = Punc'.info2 \/ SubFrom(n + 1)'
    BY <1>3, <2>3, PhrFacts DEF SubFrom
  <2>5. headx'[1].btype = Punc'.info2 \/ SubFrom(2)'
    BY <1>1, <2>3, <2>4
  <2> QED BY <2>2, <2>3, <2>4, <2>5 DEF ToneComing
<1>4. CASE /\ procState \in {"ACC", "FEED"} /\ headx' = headx /\ headxBottom' = headxBottom
           /\ tone' = tone /\ ind' = ind
  BY <1>1, <1>4 DEF ToneComing, SubFrom, Punc
<1>5. CASE FeedFirst
  <2>1. /\ procState = "FEED" /\ ind = 0 /\ headx' = headx /\ headxBottom' = headxBottom
        /\ ind' = headxBottom + 1 /\ headxBottom < Len(headx)
        /\ \/ headxBottom = 0 /\ headx[1].info1 # "f" /\ tone' = headx[1].btype
           \/ (headxBottom # 0 \/ headx[1].info1 = "f") /\ tone' = tone
    BY <1>5, FirstFacts DEF FeedFirst, phraseVars
  <2>2. \A k : SubFrom(k)' <=> SubFrom(k)
    BY <2>1 DEF SubFrom
  <2>3. SubFrom(2) => SubFrom(1)
    BY <1>1 DEF SubFrom
  <2>4. ind' # 0 /\ Punc' = Punc
    BY <1>1, <2>1 DEF Punc
  <2> QED BY <1>1, <2>1, <2>2, <2>3, <2>4 DEF ToneComing
<1>6. CASE FeedPunc
  <2>1. /\ procState = "FEED" /\ headx' = headx /\ headxBottom' = headxBottom /\ tone' = tone
        /\ ind' # 0 /\ ind' # 1
    BY <1>1, <1>6, PuncFacts DEF FeedPunc, phraseVars
  <2>2. Punc' = Punc /\ \A k : SubFrom(k)' <=> SubFrom(k)
    BY <2>1 DEF SubFrom, Punc
  <2> QED BY <1>1, <2>1, <2>2 DEF ToneComing
<1>7. CASE FeedItem
  <2>1. /\ procState = "FEED" /\ headx' = headx /\ headxBottom' = headxBottom + 1
        /\ ind = headxBottom + 1 /\ ind < Len(headx) /\ ind' # 0
        /\ IF headx[ind].strength \in Sub THEN tone' = headx[ind].btype /\ headxBottom > 0
                                         ELSE tone' = tone
    BY <1>1, <1>7, ItemFacts, AtItemFacts DEF FeedItem
  <2>2. Punc' = Punc /\ \A k : SubFrom(k)' <=> SubFrom(k)
    BY <2>1 DEF SubFrom, Punc
  <2>3. \A n \in headxBottom' + 1 .. Len(headx) : n \in headxBottom + 1 .. Len(headx)
    BY <1>1, <2>1
  <2>4. headxBottom' > 0 /\ headxBottom' + 1 = ind + 1 /\ ind \in headxBottom + 1 .. Len(headx)
    BY <1>1, <2>1
  <2>5. headx[1].info1 # "f" => tone' = Punc.info2 \/ SubFrom(ind + 1)
    <3>1. CASE headx[ind].strength \in Sub
      <4>1. headx[ind].btype = Punc.info2 \/ SubFrom(ind + 1)
        BY <1>1, <2>1, <2>4, <3>1 DEF ToneComing
      <4> QED BY <2>1, <3>1, <4>1
    <3>2. CASE headx[ind].strength \notin Sub
      <4>1. headxBottom > 0 \/ ind = 1
        BY <1>1, <2>1
      <4>2. headx[1].info1 # "f" => tone = Punc.info2 \/ SubFrom(ind)
        BY <1>1, <2>1, <4>1 DEF ToneComing
      <4>3. SubFrom(ind) => SubFrom(ind + 1)
        BY <1>1, <3>2 DEF SubFrom
      <4> QED BY <2>1, <3>2, <4>2, <4>3
    <3> QED BY <3>1, <3>2
  <2> QED BY <1>1, <2>1, <2>2, <2>3, <2>4, <2>5 DEF ToneComing
<1>8. CASE FeedItemFull
  <2>1. /\ procState = "FEED" /\ Complete /\ headxBottom' = headxBottom /\ headxBottom > 0
        /\ ind = headxBottom + 1 /\ ind \in 1 .. Len(headx)
        /\ IF headx[ind].strength \in Sub THEN tone' = headx[ind].btype ELSE tone' = tone
    BY <1>8, ItemFullFacts, AtItemFacts DEF FeedItemFull, OutFull, Complete
  <2>2. /\ Punc'.info2 = Punc.info2 /\ Punc'.info1 = Punc.info1 /\ Len(headx') = Len(headx)
        /\ headx'[ind].strength \notin Sub
        /\ \A n \in 1 .. Len(headx) :
             /\ n # ind => headx'[n] = headx[n]
             /\ headx'[n].info1 = headx[n].info1 /\ headx'[n].btype = headx[n].btype
    BY <1>8, <2>1, PuncKept, ItemFullFacts DEF Sub
  <2>3. \A k \in Nat : k > ind => (SubFrom(k)' <=> SubFrom(k))
    <3> SUFFICES ASSUME NEW k \in Nat, k > ind PROVE SubFrom(k)' <=> SubFrom(k)
      OBVIOUS
    <3>1. \A m \in k .. Len(headx) : headx'[m] = headx[m]
      BY <1>1, <2>1, <2>2
    <3> QED BY <2>2, <3>1 DEF SubFrom
  <2>4. SubFrom(ind + 1) => SubFrom(headxBottom + 1)'
    <3>1. ASSUME NEW m \in ind + 1 .. Len(headx), headx[m].strength \in Sub
          PROVE  \E k \in headxBottom + 1 .. Len(headx') : headx'[k].strength \in Sub
      <4>1. m \in headxBottom + 1 .. Len(headx') /\ headx'[m] = headx[m]
        BY <1>1, <2>1, <2>2
      <4> QED BY <3>1, <4>1
    <3> QED BY <2>1, <3>1 DEF SubFrom
  <2>5. \A n \in headxBottom + 1 .. Len(headx) :
          headx'[n].strength \in Sub => headx'[n].btype = Punc'.info2 \/ SubFrom(n + 1)'
    <3> SUFFICES ASSUME NEW n \in headxBottom + 1 .. Len(headx), headx'[n].strength \in Sub
                 PROVE  headx'[n].btype = Punc'.info2 \/ SubFrom(n + 1)'
      OBVIOUS
    <3>1. n # ind /\ n \in 1 .. Len(headx) /\ n + 1 \in Nat /\ n + 1 > ind
      BY <1>1, <2>1, <2>2
    <3>2. headx'[n] = headx[n]
      BY <2>2, <3>1
    <3>3. headx[n].btype = Punc.info2 \/ SubFrom(n + 1)
      BY <1>1, <2>1, <3>2 DEF ToneComing
    <3> QED BY <2>2, <2>3, <3>1, <3>2, <3>3
  <2>6. headx[1].info1 # "f" => tone' = Punc.info2 \/ SubFrom(headxBottom + 1)'
    <3>1. CASE headx[ind].strength \in Sub
      <4>1. ind \in headxBottom + 1 .. Len(headx)
        BY <1>1, <2>1
      <4>2. headx[ind].btype = Punc.info2 \/ SubFrom(ind + 1)
        BY <1>1, <2>1, <3>1, <4>1 DEF ToneComing
      <4> QED BY <2>1, <2>4, <3>1, <4>2
    <3>2. CASE headx[ind].strength \notin Sub
      <4>1. headx[1].info1 # "f" => tone = Punc.info2 \/ SubFrom(ind)
        BY <1>1, <2>1 DEF ToneComing
      <4>2. SubFrom(ind) => SubFrom(ind + 1)
        BY <1>1, <2>1, <3>2 DEF SubFrom
      <4> QED BY <2>1, <2>4, <3>2, <4>1, <4>2
    <3> QED BY <3>1, <3>2
  <2>7. headxBottom' # 0 /\ 1 \in 1 .. Len(headx) /\ headxBottom' + 1 = ind
    BY <1>1, <2>1
  <2>8. headx'[1].info1 = headx[1].info1
    BY <2>2, <2>7
  <2>9. \A n \in headxBottom' + 1 .. Len(headx') :
          headx'[n].strength \in Sub => headx'[n].btype = Punc'.info2 \/ SubFrom(n + 1)'
    BY <2>1, <2>2, <2>5
  <2>10. headx'[1].info1 # "f" => tone' = Punc'.info2 \/ SubFrom(headxBottom + 1)'
    BY <2>2, <2>6, <2>7, <2>8
  <2> QED BY <2>7, <2>9, <2>10 DEF ToneComing
<1>9. CASE FeedFull
  <2>1. /\ procState = "FEED" /\ headx' = headx /\ headxBottom' = headxBottom /\ tone' = tone
        /\ headxBottom > 0
    BY <1>9, FullFacts DEF FeedFull, OutFull
  <2>2. Punc' = Punc /\ (\A k : SubFrom(k)' <=> SubFrom(k)) /\ headxBottom' # 0
    BY <1>1, <2>1 DEF SubFrom, Punc
  <2> QED BY <1>1, <2>1, <2>2 DEF ToneComing
<1>10. \/ procState' \notin {"ACC", "FEED"} \/ Phr
       \/ /\ procState \in {"ACC", "FEED"} /\ headx' = headx /\ headxBottom' = headxBottom
          /\ tone' = tone /\ ind' = ind
       \/ FeedFirst \/ FeedPunc \/ FeedItem \/ FeedItemFull \/ FeedFull
  <2>1. CASE Acc
    <3>1. ind = 0
      BY <1>1, <2>1 DEF FeedIndex, Acc
    <3> QED BY <2>1, <3>1 DEF Acc, phraseVars
  <2>2. CASE \/ Call \/ CollectItem \/ CollectError \/ CollectPhrase \/ CollectForced
             \/ CollectIdle \/ FeedDone \/ Leave \/ Reset \/ \E x \in Inputs : Arrive(x)
    BY <2>2 DEF Call, CollectItem, CollectError, CollectPhrase, CollectForced, CollectIdle,
                FeedDone, Arrive, Leave, Reset, phraseVars
  <2> QED BY <2>1, <2>2 DEF Next, Step
<1> QED BY <1>2, <1>3, <1>4, <1>5, <1>6, <1>7, <1>8, <1>9, <1>10

-----------------------------------------------------------------------------
(* The inductive invariant.                                                 *)
LEMMA InitInv == Init => AcInv
<1> SUFFICES ASSUME Init PROVE AcInv
  OBVIOUS
<1>1. /\ cbIn = << >> /\ cbOut = << >> /\ procState = "COLLECT" /\ status = "IDLE"
      /\ boundStrengthState = "SSEP" /\ inspaceok = TRUE /\ needsmoreitems = TRUE
      /\ headx = << >> /\ headxBottom = 0 /\ cbufLen = 0 /\ ind = 0
      /\ last = Start /\ tone = "NA" /\ fed = 0 /\ resets = 0
  BY DEF Init
<1>2. << >> \in Seq(Arrived) /\ << >> \in Seq(Ready) /\ << >> \in Seq(Heads) /\ Len(<< >>) = 0
  OBVIOUS
<1>3. Start \in Ready /\ Start.kind \in Closing
  BY DEF Start, Ready, Made, Closing, Opening
<1>4. TypeOK
  BY <1>1, <1>2, <1>3, AcphAssumption DEF TypeOK, Phases, Results
<1>5. InputSound /\ HeadsSound /\ OnePhrase /\ FeedIndex /\ Strengths /\ ToneComing
  BY <1>1, <1>2 DEF InputSound, HeadsSound, OnePhrase, Complete, FeedIndex, Strengths, ToneComing
<1>6. SpareSlot /\ OutDrained
  <2>1. 0 < MaxHeadx /\ 0 < MaxHeadx - 1 /\ 0 <= OutCap
    BY AcphAssumption
  <2> QED BY <1>1, <1>2, <2>1 DEF SpareSlot, OutDrained
<1>7. EndOpen
  <2>1. Latest.kind \in Closing
    BY <1>1, <1>3 DEF Latest, EndOf
  <2> QED BY <1>1, <2>1 DEF EndOpen, Begins
<1>8. BoundsFollow
  BY <1>1, <1>2 DEF BoundsFollow
<1> QED BY <1>4, <1>5, <1>6, <1>7, <1>8 DEF AcInv

LEMMA InvStep ==
  ASSUME AcInv, [Next]_acphVars
  PROVE  AcInv'
<1>1. CASE Next
  BY <1>1, TypedStep, InputStep, HeadsStep, SpareStep, PhraseStep, IndexStep, DrainedStep,
     StrengthsStep, OpenStep, ToneStep DEF AcInv
<1>2. CASE UNCHANGED acphVars
  BY <1>2 DEF acphVars, flagVars, phraseVars, envVars, AcInv, TypeOK, InputSound, HeadsSound,
     SpareSlot, OnePhrase, Complete, FeedIndex, OutDrained, Strengths, Punc, EndOpen, Begins,
     Latest, ToneComing, SubFrom, BoundsFollow, Stream
<1> QED BY <1>1, <1>2

\* The invariant of acphStep between its steps: what has to hold of the headers,
\* the loop index and the end of the output so that the unit can be interrupted by
\* a full output buffer at any point of FEED.
THEOREM AcInvariant == Spec => []AcInv
  BY InitInv, InvStep, PTL DEF Spec

\* No phrase ever outgrows headx, the forced PUNC included, and no BOUND without a
\* strength is put (acphStep, COLLECT and FEED).
THEOREM AcTyped == Spec => []TypeOK
<1>1. AcInv => TypeOK
  BY DEF AcInv
<1> QED BY <1>1, AcInvariant, PTL

\* Whatever the trees answer, however often the output is full or the unit is reset:
\* the BOUNDs follow one another as the table of bound states has it, so that every
\* sentence is opened and closed once.
THEOREM AcBoundsFollow == Spec => []BoundsFollow
<1>1. AcInv => BoundsFollow
  BY DEF AcInv
<1> QED BY <1>1, AcInvariant, PTL

\* What a step may add to the output.
LEMMA PutCases ==
  ASSUME AcInv, Next
  PROVE  \/ cbOut' = cbOut \/ Len(cbOut') <= Len(cbOut)
         \/ FeedFirst \/ FeedPunc \/ FeedItem \/ FeedItemFull
<1>1. /\ cbOut \in Seq(Ready) /\ Len(cbOut) \in Nat /\ Len(<< >>) = 0
  BY Types DEF AcInv
<1>2. CASE Leave
  <2>1. cbOut # << >> /\ cbOut' = Tail(cbOut)
    BY <1>2 DEF Leave
  <2>2. Len(cbOut') = Len(cbOut) - 1
    BY <1>1, <2>1
  <2> QED BY <1>1, <2>2
<1>3. CASE Reset
  <2>1. cbOut' = << >>
    BY <1>3 DEF Reset
  <2> QED BY <1>1, <2>1
<1>4. CASE FeedFull
  BY <1>4, FullFacts
<1> QED
  BY <1>2, <1>3, <1>4 DEF Next, Step, Call, CollectItem, CollectError, CollectPhrase,
     CollectForced, CollectIdle, Phr, Acc, FeedDone, Arrive

\* What is new at the output is a BOUND of the phrase, or the item.
LEMMA SendIsPunc ==
  ASSUME AcInv, Next, NEW n \in DOMAIN cbOut', n > Len(cbOut), cbOut'[n].kind = "SEND"
  PROVE  FeedPunc /\ Punc.info1 = "s"
<1>1. /\ cbOut \in Seq(Ready) /\ Len(cbOut) \in Nat /\ DOMAIN cbOut = 1 .. Len(cbOut)
      /\ \A k \in 1 .. Len(headx) : headx[k] \in Heads
  BY Types DEF AcInv
<1>2. DOMAIN cbOut' = 1 .. Len(cbOut') /\ Len(cbOut') \in Nat
  BY TypedStep DEF TypeOK
<1>3. "SEND" \notin Opening /\ "SEND" \notin Kinds /\ "SEND" # "TERM"
  BY DEF Opening, Kinds
<1>4. ~(cbOut' = cbOut) /\ ~(Len(cbOut') <= Len(cbOut))
  BY <1>1, <1>2
<1>5. /\ Len(cbOut') = Len(cbOut) + 1 => n = Len(cbOut) + 1
      /\ Len(cbOut') = Len(cbOut) + 2 => n = Len(cbOut) + 1 \/ n = Len(cbOut) + 2
  <2> DEFINE k == Len(cbOut)
             j == Len(cbOut')
  <2>1. n \in Nat /\ n > k /\ n <= j /\ k \in Nat /\ j \in Nat
    BY <1>1, <1>2
  <2> HIDE DEF k, j
  <2>2. (j = k + 1 => n = k + 1) /\ (j = k + 2 => n = k + 1 \/ n = k + 2)
    BY <2>1
  <2> QED BY <2>2 DEF k, j
<1>6. CASE FeedFirst
  <2>1. /\ cbOut = << >> /\ cbOut' = << Bound(headx[1].strength, headx[1].btype) >>
        /\ headx[1].strength \in Opening /\ headx[1].btype \in PuncTypes \union {"NA"}
    BY <1>4, <1>6, FirstFacts, KindFacts
  <2>2. n = 1
    BY <2>1
  <2>3. cbOut'[n].kind \in Opening
    BY <2>1, <2>2, BoundTyped
  <2> QED BY <1>3, <2>3
<1>7. CASE FeedItem \/ FeedItemFull
  <2> DEFINE bd == Bound(headx[ind].strength, headx[ind].btype)
             it == AsItem(headx[ind])
  <2>1. /\ headx[ind] \in Heads /\ it \in Ready /\ it.kind \in Kinds
    BY <1>7, AtItemFacts, ItemFacts, ItemFullFacts, HeadTyped
  <2>2. headx[ind].strength \in Sub => bd \in Ready /\ bd.kind \in Opening
    BY <2>1, HeadTyped, KindFacts, BoundTyped
  <2>3. \/ headx[ind].strength \in Sub /\ cbOut' = Append(Append(cbOut, bd), it)
        \/ cbOut' = Append(cbOut, it)
        \/ headx[ind].strength \in Sub /\ cbOut' = Append(cbOut, bd)
    BY <1>4, <1>7, ItemFacts, ItemFullFacts
  <2> HIDE DEF bd, it
  <2>4. \/ cbOut'[n] = it
        \/ headx[ind].strength \in Sub /\ cbOut'[n] = bd
    <3>1. CASE headx[ind].strength \in Sub /\ cbOut' = Append(Append(cbOut, bd), it)
      <4> DEFINE s == Append(cbOut, bd)
      <4>1. s \in Seq(Ready) /\ Len(s) = Len(cbOut) + 1 /\ s[Len(cbOut) + 1] = bd
        BY <1>1, <2>2, <3>1, AppendFacts
      <4>2. cbOut' = Append(s, it)
        BY <3>1
      <4> HIDE DEF s
      <4>3. /\ Len(cbOut') = Len(cbOut) + 2 /\ cbOut'[Len(cbOut) + 2] = it
            /\ cbOut'[Len(cbOut) + 1] = s[Len(cbOut) + 1]
        BY <1>1, <2>1, <4>1, <4>2, AppendFacts
      <4>4. n = Len(cbOut) + 1 \/ n = Len(cbOut) + 2
        BY <1>5, <4>3
      <4> QED BY <1>1, <3>1, <4>1, <4>3, <4>4
    <3>2. CASE cbOut' = Append(cbOut, it)
      <4>1. Len(cbOut') = Len(cbOut) + 1 /\ cbOut'[Len(cbOut) + 1] = it
        BY <1>1, <2>1, <3>2, AppendFacts
      <4>2. n = Len(cbOut) + 1
        BY <1>5, <4>1
      <4> QED BY <1>1, <4>1, <4>2
    <3>3. CASE headx[ind].strength \in Sub /\ cbOut' = Append(cbOut, bd)
      <4>1. n = Len(cbOut) + 1
        BY <1>1, <1>2, <2>2, <3>3
      <4> QED BY <1>1, <2>2, <3>3, <4>1
    <3> QED BY <2>3, <3>1, <3>2, <3>3
  <2> QED BY <1>3, <2>1, <2>2, <2>4
<1>8. CASE FeedPunc
  <2>1. \/ Punc.info1 = "s"
        \/ Punc.info1 = "f" /\ cbOut' = Append(cbOut, Bound("TERM", "NA"))
    BY <1>4, <1>8, PuncFacts
  <2>2. CASE cbOut' = Append(cbOut, Bound("TERM", "NA"))
    <3>1. Bound("TERM", "NA") \in Ready /\ Bound("TERM", "NA").kind = "TERM"
      BY BoundTyped DEF Closing
    <3>2. n = Len(cbOut) + 1 /\ cbOut'[n] = Bound("TERM", "NA")
      BY <1>1, <1>2, <2>2, <3>1
    <3> QED BY <1>3, <3>1, <3>2
  <2> QED BY <1>8, <2>1, <2>2
<1> QED BY <1>4, <1>6, <1>7, <1>8, PutCases

\* The end of a sentence is put only when the last BOUND before it carries the type
\* of the sentence: no full output, no cut by the tree makes the question lose its
\* tone (acphSubPhrasing from right to left, acphStep FEED).
THEOREM AcRightTone == Spec => RightTone
<1> DEFINE Toned == \A n \in DOMAIN cbOut' :
                      n > Len(cbOut) /\ cbOut'[n].kind = "SEND" /\ status = "running" =>
                        tone = Punc.info2
<1>1. AcInv /\ [Next]_acphVars => [Toned]_acphVars
  <2> SUFFICES ASSUME AcInv, Next, NEW n \in DOMAIN cbOut', n > Len(cbOut),
                      cbOut'[n].kind = "SEND"
               PROVE  tone = Punc.info2
    OBVIOUS
  <2>1. FeedPunc /\ Punc.info1 = "s"
    BY SendIsPunc
  <2>2. /\ procState = "FEED" /\ ind = Len(headx) /\ ind = headxBottom + 1
        /\ headxBottom \in Nat /\ Len(headx) \in Nat /\ ToneComing /\ Strengths
        /\ HeadsSound /\ OnePhrase
    BY <2>1, PuncFacts, Types DEF AcInv
  <2>3. 1 \in 1 .. Len(headx) /\ (headxBottom > 0 \/ ind = 1)
    BY <2>2
  <2>4. headx[1].info1 # "f"
    <3>1. CASE Len(headx) = 1
      BY <2>1, <3>1 DEF Punc
    <3>2. CASE Len(headx) # 1
      BY <2>2, <2>3, <3>2 DEF OnePhrase, HeadsSound, HeadSound
    <3> QED BY <3>1, <3>2
  <2>5. Punc.strength \notin Sub
    <3>1. CASE Len(headx) = 1
      BY <2>2, <3>1 DEF Strengths, Punc
    <3>2. CASE Len(headx) # 1
      <4>1. Len(headx) \in 2 .. Len(headx) /\ Punc.kind = "PUNC"
        BY <2>1, <2>2, <2>3, <3>2, PuncFacts
      <4> QED BY <2>2, <4>1 DEF Strengths, Punc
    <3> QED BY <3>1, <3>2
  <2>6. ~SubFrom(headxBottom + 1)
    BY <2>2, <2>5 DEF SubFrom, Punc
  <2> QED BY <2>2, <2>3, <2>4, <2>6 DEF ToneComing
<1> QED BY <1>1, AcInvariant, PTL DEF Spec, RightTone

-----------------------------------------------------------------------------
(* The unit is a pipe.                                                      *)
Held == SubSeq(Ids(headx), headxBottom + 1, Len(headx))

LEMMA IdsFacts ==
  ASSUME NEW S, NEW s \in Seq(S), \A x \in S : IdOf(x) \in Int
  PROVE  /\ Ids(s) \in Seq(Int) /\ Len(Ids(s)) = Len(s) /\ Ids(<< >>) = << >>
         /\ \A n \in 1 .. Len(s) : Ids(s)[n] = IdOf(s[n])
         /\ \A x \in S : Ids(Append(s, x)) = Append(Ids(s), IdOf(x))
         /\ s # << >> => Ids(s) # << >> /\ Ids(Tail(s)) = Tail(Ids(s))
<1>1. Ids(s) = [n \in 1 .. Len(s) |-> IdOf(s[n])] /\ \A n \in 1 .. Len(s) : s[n] \in S
  BY DEF Ids
<1>2. Ids(s) \in Seq(Int) /\ Len(Ids(s)) = Len(s)
  BY <1>1
<1>3. \A n \in 1 .. Len(s) : Ids(s)[n] = IdOf(s[n])
  BY <1>1
<1>4. ASSUME NEW x \in S PROVE Ids(Append(s, x)) = Append(Ids(s), IdOf(x))
  BY <1>1, <1>2 DEF Ids
<1>5. ASSUME s # << >> PROVE Ids(s) # << >> /\ Ids(Tail(s)) = Tail(Ids(s))
  BY <1>1, <1>2, <1>5 DEF Ids
<1>6. Ids(<< >>) = << >>
  BY DEF Ids
<1> QED BY <1>2, <1>3, <1>4, <1>5, <1>6

LEMMA SameElements ==
  ASSUME NEW S, NEW s \in Seq(S), NEW t \in Seq(S), Len(s) = Len(t),
         \A n \in 1 .. Len(s) : s[n] = t[n]
  PROVE  s = t
<1>1. s = [n \in 1 .. Len(s) |-> s[n]] /\ t = [n \in 1 .. Len(t) |-> t[n]]
  OBVIOUS
<1> QED BY <1>1

LEMMA SubSeqFacts ==
  ASSUME NEW s \in Seq(Int), NEW b \in Nat, b <= Len(s)
  PROVE  /\ SubSeq(s, b + 1, Len(s)) \in Seq(Int)
         /\ b = 0 => SubSeq(s, b + 1, Len(s)) = s
         /\ b < Len(s) => /\ SubSeq(s, b + 1, Len(s)) # << >>
                          /\ Head(SubSeq(s, b + 1, Len(s))) = s[b + 1]
                          /\ Tail(SubSeq(s, b + 1, Len(s))) = SubSeq(s, b + 2, Len(s))
         /\ SubSeq(s, Len(s) + 1, Len(s)) = << >>
<1> DEFINE t == SubSeq(s, b + 1, Len(s))
<1>1. /\ t \in Seq(Int) /\ Len(t) = Len(s) - b
      /\ \A n \in 1 .. Len(s) - b : t[n] = s[n + b]
  OBVIOUS
<1>2. b = 0 => t = s
  OBVIOUS
<1>3. SubSeq(s, Len(s) + 1, Len(s)) = << >>
  OBVIOUS
<1>4. ASSUME b < Len(s)
      PROVE  t # << >> /\ Head(t) = s[b + 1] /\ Tail(t) = SubSeq(s, b + 2, Len(s))
  <2> DEFINE u == SubSeq(s, b + 2, Len(s))
             k == Len(s) - b
  <2>1. k \in Nat /\ k >= 1 /\ b + 1 + 1 = b + 2 /\ b + 1 \in Nat /\ b + 1 <= Len(s)
    BY <1>4
  <2>2. /\ u \in Seq(Int) /\ Len(u) = k - 1
        /\ \A n \in 1 .. k - 1 : u[n] = s[n + (b + 1)]
    BY <2>1
  <2>3. t \in Seq(Int) /\ Len(t) = k /\ \A n \in 1 .. k : t[n] = s[n + b]
    BY <1>1
  <2> HIDE DEF t, u, k
  <2>4. t # << >> /\ Head(t) = t[1] /\ 1 \in 1 .. k
    BY <2>1, <2>3
  <2>5. Head(t) = s[b + 1]
    <3>1. t[1] = s[1 + b] /\ 1 + b = b + 1
      BY <2>3, <2>4
    <3> QED BY <2>4, <3>1
  <2>6. /\ Tail(t) \in Seq(Int) /\ Len(Tail(t)) = k - 1
        /\ \A n \in 1 .. k - 1 : Tail(t)[n] = t[n + 1] /\ n + 1 \in 1 .. k
    BY <2>1, <2>3, <2>4
  <2>7. \A n \in 1 .. k - 1 : Tail(t)[n] = u[n]
    <3> SUFFICES ASSUME NEW n \in 1 .. k - 1 PROVE Tail(t)[n] = u[n]
      OBVIOUS
    <3>1. n + 1 + b = n + (b + 1)
      BY <2>1
    <3>2. t[n + 1] = s[n + 1 + b]
      BY <2>3, <2>6
    <3> QED BY <2>2, <2>6, <3>1, <3>2
  <2>8. Tail(t) = u
    <3>1. /\ Len(Tail(t)) = Len(u)
          /\ \A n \in 1 .. Len(Tail(t)) : Tail(t)[n] = u[n]
      BY <2>2, <2>6, <2>7
    <3> QED BY <2>2, <2>6, <3>1, SameElements
  <2> QED BY <2>4, <2>5, <2>8 DEF u
<1> QED BY <1>1, <1>2, <1>3, <1>4

\* The items that wait, as the pipe sees them.
Queue(s) == [n \in DOMAIN s |-> IdOf(Header(s[n]))]

LEMMA QueueFacts ==
  ASSUME NEW s \in Seq(Arrived)
  PROVE  /\ Queue(s) \in Seq(Int)
         /\ \A x \in Arrived : Queue(Append(s, x)) = Append(Queue(s), IdOf(Header(x)))
         /\ s # << >> => /\ Queue(s) # << >> /\ Head(Queue(s)) = IdOf(Header(Head(s)))
                        /\ Queue(Tail(s)) = Tail(Queue(s))
         /\ Queue(<< >>) = << >>
<1>1. Queue(s) = [n \in 1 .. Len(s) |-> IdOf(Header(s[n]))] /\ \A n \in 1 .. Len(s) : s[n] \in Arrived
  BY DEF Queue
<1>2. \A x \in Arrived : IdOf(Header(x)) \in Int
  BY DEF IdOf, Header, Arrived, Mark
<1>3. Queue(s) \in Seq(Int) /\ Len(Queue(s)) = Len(s)
  BY <1>1, <1>2
<1>4. ASSUME NEW x \in Arrived PROVE Queue(Append(s, x)) = Append(Queue(s), IdOf(Header(x)))
  BY <1>1, <1>2, <1>3 DEF Queue
<1>5. ASSUME s # << >>
      PROVE  /\ Queue(s) # << >> /\ Head(Queue(s)) = IdOf(Header(Head(s)))
             /\ Queue(Tail(s)) = Tail(Queue(s))
  BY <1>1, <1>3, <1>5 DEF Queue
<1>6. Queue(<< >>) = << >>
  BY DEF Queue
<1> QED BY <1>3, <1>4, <1>5, <1>6

LEMMA IdFacts ==
  /\ \A h \in Heads : IdOf(h) \in Int /\ (h.kind = "PUNC" => IdOf(h) = Mark)
                     /\ (h.kind # "PUNC" => IdOf(AsItem(h)) = IdOf(h))
  /\ \A r \in Ready : IdOf(r) \in Int
  /\ \A k \in Opening \union Closing : \A t : IdOf(Bound(k, t)) = Made
  /\ Made \in Int /\ Mark \in Int
<1>1. \A h \in Heads : h.id \in Int
  BY DEF Heads
<1>2. \A r \in Ready : r.id \in Int
  BY DEF Ready
<1>3. \A k \in Opening \union Closing : k # "PUNC"
  BY DEF Opening, Closing
<1> QED BY <1>1, <1>2, <1>3 DEF IdOf, AsItem, Bound, Mark, Made

\* What is held, when the headers are as they were and when the first is taken.
LEMMA HeldFacts ==
  ASSUME AcInv
  PROVE  /\ Held \in Seq(Int) /\ Ids(headx) \in Seq(Int) /\ Len(Ids(headx)) = Len(headx)
         /\ headxBottom = 0 => Held = Ids(headx)
         /\ headxBottom < Len(headx) =>
              /\ Held # << >> /\ Head(Held) = IdOf(headx[headxBottom + 1])
              /\ Tail(Held) = SubSeq(Ids(headx), headxBottom + 2, Len(headx))
         /\ Ids(cbOut) \in Seq(Int)
<1>1. /\ headx \in Seq(Heads) /\ headxBottom \in Nat /\ headxBottom <= Len(headx)
      /\ cbOut \in Seq(Ready) /\ Len(headx) \in Nat
  BY Types DEF AcInv
<1>2. /\ Ids(headx) \in Seq(Int) /\ Len(Ids(headx)) = Len(headx) /\ Ids(cbOut) \in Seq(Int)
      /\ \A n \in 1 .. Len(headx) : Ids(headx)[n] = IdOf(headx[n])
  BY <1>1, IdsFacts, IdFacts
<1>3. headxBottom < Len(headx) => headxBottom + 1 \in 1 .. Len(headx)
  BY <1>1
<1> QED BY <1>1, <1>2, <1>3, SubSeqFacts, SMTT(60) DEF Held

LEMMA HeldKept ==
  ASSUME AcInv, AcInv', SameHeads, headxBottom' = headxBottom
  PROVE  Held' = Held
<1>1. /\ headx \in Seq(Heads) /\ headx' \in Seq(Heads) /\ Len(headx') = Len(headx)
      /\ \A n \in 1 .. Len(headx) : IdOf(headx'[n]) = IdOf(headx[n])
  <2>1. headx \in Seq(Heads) /\ headx' \in Seq(Heads)
    BY DEF AcInv, TypeOK
  <2> QED BY <2>1 DEF SameHeads, IdOf
<1>2. Ids(headx') = Ids(headx)
  BY <1>1 DEF Ids
<1> QED BY <1>1, <1>2 DEF Held

LEMMA ConcatFacts ==
  ASSUME NEW S, NEW s \in Seq(S), NEW m \in S, NEW x \in S
  PROVE  /\ s \o Append(<< >>, x) = Append(s, x)
         /\ s \o Append(<< m >>, x) = Append(Append(s, m), x)
         /\ Append(<< >>, x) = << x >>
<1>1. /\ << m >> \in Seq(S) /\ << x >> \in Seq(S) /\ << >> \in Seq(S)
      /\ Append(s, m) \in Seq(S)
  OBVIOUS
<1>2. Append(<< >>, x) = << x >> /\ s \o << x >> = Append(s, x) /\ s \o << m >> = Append(s, m)
  OBVIOUS
<1>3. Append(<< m >>, x) = << m >> \o << x >>
      /\ Append(Append(s, m), x) = Append(s, m) \o << x >>
  BY <1>1, AppendIsConcat
<1>4. (s \o << m >>) \o << x >> = s \o (<< m >> \o << x >>)
  BY <1>1, ConcatAssociative
<1> QED BY <1>2, <1>3, <1>4

\* What is fetched, forced, put or taken is one step of the pipe; the trees and the
\* returns move nothing.
LEMMA PipeStep ==
  ASSUME AcInv, AcInv', Next
  PROVE  [P!Next]_(P!pipeVars)
<1> DEFINE queue == Queue(cbIn)
           out == Ids(cbOut)
           failed == (status = "ERROR")
<1> USE DEF Running, Return, GoOn
<1>1. /\ cbIn \in Seq(Arrived) /\ cbOut \in Seq(Ready) /\ headx \in Seq(Heads) /\ FeedIndex
      /\ headxBottom \in Nat /\ Len(headx) \in Nat /\ out \in Seq(Int) /\ Held \in Seq(Int)
      /\ Ids(headx) \in Seq(Int) /\ Len(Ids(headx)) = Len(headx)
  BY Types, HeldFacts DEF AcInv
<1>2. /\ queue = Waiting /\ queue' = Waiting'
      /\ Held = SubSeq(Ids(headx), headxBottom + 1, Len(headx))
      /\ Held' = SubSeq(Ids(headx)', headxBottom' + 1, Len(headx'))
  BY DEF Queue, Waiting, Held
<1>3. headxBottom' = 0 => Held' = Ids(headx')
  <2>1. headx' \in Seq(Heads)
    BY DEF AcInv, TypeOK
  <2>2. Ids(headx') \in Seq(Int) /\ Len(Ids(headx')) = Len(headx') /\ 0 \in Nat /\ 0 <= Len(headx')
    BY <2>1, IdsFacts, IdFacts
  <2>3. SubSeq(Ids(headx'), 0 + 1, Len(Ids(headx'))) = Ids(headx')
    BY <2>2, SubSeqFacts
  <2> QED BY <2>2, <2>3 DEF Held
<1>4. ASSUME headx' = headx \/ Phr \/ FeedItemFull, headxBottom' = headxBottom
      PROVE  Held' = Held
  <2>1. SameHeads
    BY <1>4, SameHeadsFacts DEF SameHeads
  <2> QED BY <1>4, <2>1, HeldKept
<1>P. /\ P!Accept <=> /\ queue # << >> /\ queue' = Tail(queue)
                      /\ Held' = Append(Held, Head(queue)) /\ out' = out /\ failed' = failed
      /\ P!Refuse <=> /\ queue # << >> /\ queue' = Tail(queue) /\ failed' = TRUE
                      /\ Held' = Held /\ out' = out
      /\ P!Make(Mark) <=> /\ Held' = Append(Held, Mark) /\ queue' = queue /\ out' = out
                          /\ failed' = failed
      /\ P!Add(Made) <=> /\ out' = Append(out, Made) /\ queue' = queue /\ Held' = Held
                         /\ failed' = failed
      /\ \A b : P!Deliver(b) <=> /\ Held # << >> /\ Held' = Tail(Held)
                                 /\ out' = out \o Append(b, Head(Held))
                                 /\ queue' = queue /\ failed' = failed
      /\ P!Consume <=> /\ Held # << >> /\ Head(Held) \in {Mark} /\ Held' = Tail(Held)
                       /\ queue' = queue /\ out' = out /\ failed' = failed
      /\ P!Leave <=> /\ out # << >> /\ out' = Tail(out) /\ queue' = queue /\ Held' = Held
                     /\ failed' = failed
      /\ P!Clear <=> /\ queue' = << >> /\ Held' = << >> /\ out' = << >> /\ failed' = failed
      /\ \A i : P!Arrive(i) <=> /\ queue' = Append(queue, i) /\ Held' = Held /\ out' = out
                                /\ failed' = failed
  BY <1>2 DEF P!Accept, P!Refuse, P!Make, P!Add, P!Deliver, P!Consume, P!Leave, P!Clear, P!Arrive
\* Nothing moves, and no call fails.
<1>S. ASSUME queue' = queue, Held' = Held, out' = out, failed' = FALSE \/ failed' = failed
      PROVE  [P!Next]_(P!pipeVars)
  BY <1>2, <1>S DEF P!Next, P!Begin, P!pipeVars
<1>5. CASE Call \/ CollectPhrase \/ CollectIdle \/ Acc \/ Phr
  <2>1. /\ cbIn' = cbIn /\ cbOut' = cbOut /\ status' # "ERROR" /\ headxBottom' = headxBottom
        /\ headx' = headx \/ Phr
    BY <1>5 DEF Call, CollectPhrase, CollectIdle, Acc, Phr, phraseVars
  <2> QED BY <2>1, <1>4, <1>S DEF Queue, Ids
<1>6. CASE FeedFull
  <2>1. /\ cbIn' = cbIn /\ cbOut' = cbOut /\ status' # "ERROR" /\ headxBottom' = headxBottom
        /\ headx' = headx
    BY <1>6 DEF FeedFull, OutFull
  <2> QED BY <2>1, <1>4, <1>S DEF Queue, Ids
<1>7. CASE CollectItem
  <2>1. /\ cbIn # << >> /\ cbIn' = Tail(cbIn) /\ cbOut' = cbOut /\ status' = status
        /\ headx' = Append(headx, Header(Head(cbIn))) /\ Header(Head(cbIn)) \in Heads
        /\ headxBottom' = headxBottom /\ headxBottom = 0
    BY <1>1, <1>7, CollectFacts DEF CollectItem, FeedIndex
  <2>2. /\ queue # << >> /\ Head(queue) = IdOf(Header(Head(cbIn))) /\ queue' = Tail(queue)
    BY <1>1, <2>1, QueueFacts
  <2>3. Ids(headx') = Append(Ids(headx), IdOf(Header(Head(cbIn))))
    BY <1>1, <2>1, IdsFacts, IdFacts, ZenonT(60)
  <2>4. Held' = Append(Held, Head(queue))
    BY <1>3, <2>1, <2>2, <2>3, HeldFacts
  <2>5. out' = out /\ failed' = failed
    BY <2>1
  <2>6. P!Accept
    BY <1>P, <2>2, <2>4, <2>5
  <2> QED BY <2>6 DEF P!Next
<1>8. CASE CollectError
  <2>1. /\ cbIn # << >> /\ cbIn' = Tail(cbIn) /\ cbOut' = cbOut /\ status' = "ERROR"
        /\ headx' = headx /\ headxBottom' = headxBottom
    BY <1>8 DEF CollectError, phraseVars
  <2>2. queue # << >> /\ queue' = Tail(queue) /\ Held' = Held /\ out' = out /\ failed' = TRUE
    BY <1>1, <1>4, <2>1, QueueFacts
  <2>3. P!Refuse
    BY <1>P, <2>2
  <2> QED BY <2>3 DEF P!Next
<1>9. CASE CollectForced
  <2>1. /\ cbIn' = cbIn /\ cbOut' = cbOut /\ status # "ERROR" /\ status' # "ERROR"
        /\ headx' = Append(headx, ForcedPunc) /\ ForcedPunc \in Heads
        /\ headxBottom' = headxBottom /\ headxBottom = 0 /\ IdOf(ForcedPunc) = Mark
    BY <1>1, <1>9, ForcedFacts DEF CollectForced, FeedIndex, ForcedPunc, IdOf
  <2>2. Ids(headx') = Append(Ids(headx), Mark)
    BY <1>1, <2>1, IdsFacts, IdFacts
  <2>3. Held' = Append(Held, Mark) /\ queue' = queue /\ out' = out /\ failed' = failed
    BY <1>3, <2>1, <2>2, HeldFacts
  <2>4. P!Make(Mark)
    BY <1>P, <2>3
  <2> QED BY <2>4 DEF P!Next
\* A BOUND is put, and nothing else moves.
<1>10. ASSUME NEW k \in Opening \union Closing, NEW t \in PuncTypes \union {"NA"},
              cbOut' = Append(cbOut, Bound(k, t)), queue' = queue, Held' = Held,
              status # "ERROR", status' # "ERROR"
       PROVE  [P!Next]_(P!pipeVars)
  <2>1. out' = Append(out, Made)
    <3>1. Bound(k, t) \in Ready /\ IdOf(Bound(k, t)) = Made
      BY BoundTyped, IdFacts
    <3>2. Ids(Append(cbOut, Bound(k, t))) = Append(Ids(cbOut), Made)
      BY <1>1, <3>1, IdsFacts, IdFacts, ZenonT(60)
    <3> QED BY <1>10, <3>2
  <2>2. P!Add(Made)
    BY <1>P, <1>10, <2>1
  <2> QED BY <2>2 DEF P!Next
<1>11. CASE FeedFirst
  <2>1. /\ cbIn' = cbIn /\ headx' = headx /\ headxBottom' = headxBottom
        /\ status' = status /\ status = "running" /\ cbOut = << >>
        /\ \/ /\ headx[1].strength \in Open /\ headx[1].btype \in PuncTypes \union {"NA"}
              /\ cbOut' = << Bound(headx[1].strength, headx[1].btype) >>
           \/ cbOut' = << >>
    BY <1>11, FirstFacts DEF FeedFirst, phraseVars
  <2>2. queue' = queue /\ Held' = Held
    BY <1>4, <2>1
  <2>3. CASE cbOut' = << >>
    BY <2>1, <2>2, <2>3, <1>S
  <2>4. CASE /\ headx[1].strength \in Open /\ headx[1].btype \in PuncTypes \union {"NA"}
             /\ cbOut' = << Bound(headx[1].strength, headx[1].btype) >>
    <3>1. Bound(headx[1].strength, headx[1].btype) \in Ready
      BY <2>4, BoundTyped, KindFacts
    <3>2. cbOut' = Append(cbOut, Bound(headx[1].strength, headx[1].btype))
      BY <2>1, <2>4, <3>1
    <3> QED BY <1>10, <2>1, <2>2, <2>4, <3>2, KindFacts
  <2> QED BY <2>1, <2>3, <2>4
<1>12. CASE FeedPunc
  <2>1. /\ cbIn' = cbIn /\ headx' = headx /\ headxBottom' = headxBottom
        /\ status' = status /\ status = "running"
        /\ \/ cbOut' = cbOut
           \/ cbOut' = Append(cbOut, Bound("SEND", "NA"))
           \/ cbOut' = Append(cbOut, Bound("TERM", "NA"))
    BY <1>12, PuncFacts DEF FeedPunc, phraseVars
  <2>2. queue' = queue /\ Held' = Held
    BY <1>4, <2>1
  <2>3. "SEND" \in Closing /\ "TERM" \in Closing
    BY DEF Closing
  <2> QED BY <1>10, <1>S, <2>1, <2>2, <2>3
<1>13. CASE FeedItemFull
  <2>1. /\ cbIn' = cbIn /\ headxBottom' = headxBottom /\ status' # "ERROR" /\ status = "running"
        /\ headx[ind] \in Heads
        /\ \/ cbOut' = cbOut
           \/ /\ headx[ind].strength \in Sub
              /\ cbOut' = Append(cbOut, Bound(headx[ind].strength, headx[ind].btype))
    BY <1>13, ItemFullFacts, AtItemFacts DEF FeedItemFull, OutFull
  <2>2. queue' = queue /\ Held' = Held
    BY <1>4, <1>13, <2>1
  <2> QED BY <1>10, <1>S, <2>1, <2>2, HeadTyped, KindFacts
<1>14. CASE FeedItem
  <2> DEFINE h == headx[ind]
             bd == Bound(h.strength, h.btype)
             it == AsItem(h)
             i == IdOf(h)
  <2>1. /\ cbIn' = cbIn /\ headx' = headx /\ headxBottom' = headxBottom + 1
        /\ status' = status /\ h \in Heads /\ h.kind # "PUNC" /\ ind = headxBottom + 1
        /\ headxBottom < Len(headx)
        /\ IF h.strength \in Sub THEN cbOut' = Append(Append(cbOut, bd), it)
                                 ELSE cbOut' = Append(cbOut, it)
    <3>1. headxBottom + 1 < Len(headx) => headxBottom < Len(headx)
      BY <1>1
    <3> QED BY <1>14, <3>1, ItemFacts, AtItemFacts DEF FeedItem
  <2>2. /\ it \in Ready /\ IdOf(it) = i /\ i \in Int
        /\ h.strength \in Sub => bd \in Ready /\ IdOf(bd) = Made
    BY <2>1, HeadTyped, IdFacts, BoundTyped, KindFacts
  <2>3. /\ Held # << >> /\ Head(Held) = i
        /\ Tail(Held) = SubSeq(Ids(headx), headxBottom + 2, Len(headx))
    BY <2>1, HeldFacts
  <2>4. Held' = Tail(Held)
    <3>1. headxBottom' + 1 = headxBottom + 2
      BY <1>1, <2>1
    <3> QED BY <2>1, <2>3, <3>1 DEF Held
  <2>5. \A s \in Seq(Ready) : \A x \in Ready : Ids(Append(s, x)) = Append(Ids(s), IdOf(x))
    BY IdsFacts, IdFacts
  <2>6. CASE h.strength \in Sub
    <3>1. cbOut' = Append(Append(cbOut, bd), it) /\ bd \in Ready /\ IdOf(bd) = Made
      BY <2>1, <2>2, <2>6
    <3> HIDE DEF bd, it, i
    <3>2. Append(cbOut, bd) \in Seq(Ready)
      BY <1>1, <3>1, AppendFacts
    <3>3. out' = Append(Append(out, Made), i)
      BY <1>1, <2>2, <2>5, <3>1, <3>2
    <3>4. out \o Append(<< Made >>, i) = Append(Append(out, Made), i)
      <4>1. Made \in Int /\ i \in Int /\ out \in Seq(Int)
        BY <1>1, <2>2, IdFacts
      <4> HIDE DEF out
      <4> QED BY <4>1, ConcatFacts
    <3>5. P!Deliver(<< Made >>)
      BY <1>P, <2>1, <2>3, <2>4, <3>3, <3>4
    <3> QED BY <3>5 DEF P!Next
  <2>7. CASE h.strength \notin Sub
    <3>1. cbOut' = Append(cbOut, it)
      BY <2>1, <2>7
    <3> HIDE DEF bd, it, i
    <3>2. out' = Append(out, i)
      BY <1>1, <2>2, <2>5, <3>1
    <3>3. out \o Append(<< >>, i) = Append(out, i)
      BY <1>1, <2>2, ConcatFacts
    <3>4. P!Deliver(<< >>)
      BY <1>P, <2>1, <2>3, <2>4, <3>2, <3>3
    <3> QED BY <3>4 DEF P!Next
  <2> QED BY <2>6, <2>7
<1>15. CASE FeedDone
  <2>1. /\ cbIn' = cbIn /\ cbOut' = cbOut /\ headx' = << >> /\ headxBottom' = 0
        /\ status = "running" /\ status' = "BUSY" /\ procState = "FEED" /\ ind > Len(headx)
    BY <1>15 DEF FeedDone
  <2>2. headxBottom = Len(headx) - 1
    <3>1. /\ headxBottom < Len(headx)
          /\ \/ ind = 0
             \/ ind = headxBottom + 1
             \/ ind = Len(headx) + 1 /\ headxBottom = Len(headx) - 1
      BY <1>1, <2>1 DEF FeedIndex
    <3> QED BY <1>1, <2>1, <3>1
  <2>3. headxBottom < Len(headx) /\ headxBottom + 1 = Len(headx) /\ headxBottom + 2 = Len(headx) + 1
    BY <1>1, <2>2
  <2>4. headx[Len(headx)] \in Heads /\ headx[Len(headx)].kind = "PUNC"
    <3>1. headx[Len(headx)].kind = "PUNC" /\ Len(headx) \in 1 .. Len(headx)
      BY <1>1, <2>1, <2>3 DEF AcInv, OnePhrase, Complete
    <3> QED BY <1>1, <3>1
  <2>5. Held # << >> /\ Head(Held) = Mark
        /\ Tail(Held) = SubSeq(Ids(headx), Len(headx) + 1, Len(headx))
    BY <2>3, <2>4, HeldFacts, IdFacts
  <2>6. SubSeq(Ids(headx), Len(headx) + 1, Len(headx)) = << >>
    <3>1. 0 \in Nat /\ 0 <= Len(Ids(headx))
      BY <1>1
    <3> QED BY <1>1, <3>1, SubSeqFacts
  <2>7. Held' = << >>
    <3>1. Ids(<< >>) = << >>
      BY <1>1, IdsFacts, IdFacts
    <3> QED BY <1>3, <2>1, <3>1
  <2>8. queue' = queue /\ out' = out /\ failed' = failed
    BY <2>1
  <2>9. P!Consume
    BY <1>P, <2>5, <2>6, <2>7, <2>8
  <2> QED BY <2>9 DEF P!Next
<1>16. CASE \E x \in Inputs : Arrive(x)
  <2>1. PICK x \in Inputs : Arrive(x)
    BY <1>16
  <2> DEFINE it == [id |-> fed + 1, kind |-> x.kind, info1 |-> x.info1, info2 |-> x.info2,
                    len |-> x.len]
  <2>2. /\ cbIn' = Append(cbIn, it) /\ cbOut' = cbOut /\ status' = status
        /\ headx' = headx /\ headxBottom' = headxBottom /\ fed < MaxItems /\ fed \in Nat
    BY <2>1 DEF Arrive, phraseVars, AcInv, TypeOK
  <2>3. it \in Arrived
    BY <2>2, AcphAssumption DEF Arrived
  <2>4. IdOf(Header(it)) \in (1 .. MaxItems) \union {Mark}
    <3>1. fed + 1 \in 1 .. MaxItems
      BY <2>2, AcphAssumption
    <3>2. Header(it).id = fed + 1
      BY DEF Header
    <3> QED BY <3>1, <3>2 DEF IdOf
  <2> HIDE DEF it
  <2>5. queue' = Append(queue, IdOf(Header(it)))
    BY <1>1, <2>2, <2>3, QueueFacts
  <2>6. Held' = Held /\ out' = out /\ failed' = failed
    BY <1>4, <2>2
  <2>7. P!Arrive(IdOf(Header(it)))
    BY <1>P, <2>5, <2>6
  <2> QED BY <2>4, <2>7 DEF P!Next
<1>17. CASE Leave
  <2>1. /\ cbIn' = cbIn /\ cbOut # << >> /\ cbOut' = Tail(cbOut) /\ status' = status
        /\ headx' = headx /\ headxBottom' = headxBottom
    BY <1>17 DEF Leave, phraseVars
  <2>2. out # << >> /\ out' = Tail(out)
    BY <1>1, <2>1, IdsFacts, IdFacts
  <2>3. queue' = queue /\ Held' = Held /\ failed' = failed
    BY <1>4, <2>1
  <2>4. P!Leave
    BY <1>P, <2>2, <2>3
  <2> QED BY <2>4 DEF P!Next
<1>18. CASE Reset
  <2>1. /\ cbIn' = << >> /\ cbOut' = << >> /\ headx' = << >> /\ headxBottom' = 0
        /\ status' = status
    BY <1>18 DEF Reset
  <2>2. queue' = << >> /\ out' = << >> /\ Ids(headx') = << >>
    BY <1>1, <2>1, QueueFacts, IdsFacts, IdFacts
  <2>3. P!Clear
    BY <1>3, <1>P, <2>1, <2>2
  <2> QED BY <2>3 DEF P!Next
<1> QED
  BY <1>5, <1>6, <1>7, <1>8, <1>9, <1>11, <1>12, <1>13, <1>14, <1>15, <1>16, <1>17, <1>18
     DEF Next, Step

\* Words and commands pass in order, once each, with the BOUNDs between them, and a
\* PUNC is taken only when all before it has left: only a call that answers with an
\* error, or a reset, loses something (picoacph.c as a whole).
THEOREM AcRefinesPipe == Spec => RefinesPipe
<1>1. Init => P!Init
  <2> SUFFICES ASSUME Init PROVE P!Init
    OBVIOUS
  <2>1. AcInv /\ cbIn = << >> /\ cbOut = << >> /\ headx = << >> /\ headxBottom = 0
        /\ status = "IDLE"
    BY InitInv DEF Init
  <2>2. Waiting = << >> /\ Ids(cbOut) = << >> /\ Ids(headx) = << >>
    BY <2>1 DEF Waiting, Ids
  <2>3. Held = << >>
    BY <2>1, <2>2, HeldFacts
  <2> QED BY <2>1, <2>2, <2>3 DEF P!Init, Held
<1>2. AcInv /\ AcInv' /\ [Next]_acphVars => [P!Next]_(P!pipeVars)
  <2> SUFFICES ASSUME AcInv, AcInv', [Next]_acphVars PROVE [P!Next]_(P!pipeVars)
    OBVIOUS
  <2>1. CASE Next
    BY <2>1, PipeStep
  <2>2. CASE UNCHANGED acphVars
    BY <2>2 DEF acphVars, flagVars, phraseVars, P!pipeVars, Ids, Waiting
  <2> QED BY <2>1, <2>2
<1> QED BY <1>1, <1>2, AcInvariant, PTL DEF Spec, RefinesPipe, P!Spec
=============================================================================
