--------------------------- MODULE SentAnaProofs ----------------------------
(***************************************************************************)
(* Sentence analysis, for all sizes of its buffers, all inputs and any     *)
(* number of transducers: a phrase never outgrows its slots, headers only  *)
(* ever point at their own content, and the items pass through in order.   *)
(***************************************************************************)
EXTENDS SentAna, TLAPS

\* While a phrase is collected there is a slot for a forced PUNC, and as long as
\* inspaceok is set one more, for the next item.
SpareSlot ==
  procState = "COLLECT" /\ needsmoreitems =>
    /\ Len(headx) < MaxHeadx
    /\ inspaceok => Len(headx) < MaxHeadx - 1

SaInv == TypeOK /\ SpareSlot /\ OnePhrase /\ SlicesOwned

-----------------------------------------------------------------------------
LEMMA InitInv == Init => SaInv
<1> SUFFICES ASSUME Init PROVE SaInv
  OBVIOUS
<1>1. TypeOK
  <2>1. << >> \in Seq(Nat) /\ << >> \in Seq(Arrived) /\ << >> \in Seq(Ready)
        /\ << >> \in Seq(Header) /\ Len(<< >>) = 0
    OBVIOUS
  <2>2. NoItem \in Ready
    BY <2>1 DEF NoItem, Forced, Ready, HeldKinds
  <2>3. /\ cbIn \in Seq(Arrived) /\ cbOut \in Seq(Ready)
        /\ headx \in Seq(Header) /\ Len(headx) <= MaxHeadx
        /\ cbuf1 \in Seq(Nat) /\ Len(cbuf1) <= CbufSize
        /\ cbuf2 \in Seq(Nat) /\ Len(cbuf2) <= CbufSize
        /\ tmpbuf \in Ready /\ fsts \in Seq(Nat)
    BY <2>1, <2>2, SaAssumption DEF Init
  <2>4. /\ procState \in Phases /\ status \in Results
        /\ inspaceok \in BOOLEAN /\ needsmoreitems \in BOOLEAN /\ phonesTransduced \in BOOLEAN
        /\ ind \in Nat \ {0} /\ curFst \in 0 .. NumFsts /\ fed \in Nat /\ resets \in Nat
    <3>1. procState \in Phases /\ status \in Results /\ ind \in Nat \ {0}
      BY DEF Init, Phases, Results
    <3>2. inspaceok \in BOOLEAN /\ needsmoreitems \in BOOLEAN /\ phonesTransduced \in BOOLEAN
      BY DEF Init
    <3>3. curFst \in 0 .. NumFsts /\ fed \in Nat /\ resets \in Nat
      BY SaAssumption DEF Init
    <3> QED BY <3>1, <3>2, <3>3
  <2> QED
    BY <2>3, <2>4 DEF TypeOK
<1>2. SpareSlot /\ OnePhrase /\ SlicesOwned
  BY SaAssumption DEF Init, SpareSlot, OnePhrase, SlicesOwned
<1> QED BY <1>1, <1>2 DEF SaInv

\* What is read for a header is a sequence of its length, of the item's own
\* bytes if the header owns them.
LEMMA SliceFacts ==
  ASSUME NEW buf \in Seq(Nat), NEW h \in Header
  PROVE  /\ Slice(buf, h) \in Seq(Nat) /\ Len(Slice(buf, h)) = h.len
         /\ Owns(buf, h) => \A k \in 1 .. h.len : Slice(buf, h)[k] = h.id
<1>1. h.len \in Nat /\ h.cind \in Nat /\ h.id \in Nat /\ Len(buf) \in Nat
  BY DEF Header
<1>2. \A k \in 1 .. h.len :
        (IF h.cind + k \in DOMAIN buf THEN buf[h.cind + k] ELSE Forced) \in Nat
  BY <1>1 DEF Forced
<1>3. Slice(buf, h) \in [1 .. h.len -> Nat]
  BY <1>2 DEF Slice
<1>4. Slice(buf, h) \in Seq(Nat) /\ Len(Slice(buf, h)) = h.len
  BY <1>1, <1>3, SMTT(60)
<1>5. ASSUME Owns(buf, h), NEW k \in 1 .. h.len PROVE Slice(buf, h)[k] = h.id
  <2>1. h.cind + k \in 1 .. Len(buf) /\ buf[h.cind + k] = h.id
    BY <1>1, <1>5 DEF Owns
  <2> QED BY <2>1 DEF Slice
<1> QED BY <1>4, <1>5

LEMMA ConcatFacts ==
  ASSUME NEW S, NEW s \in Seq(S), NEW t \in Seq(S)
  PROVE  /\ s \o t \in Seq(S) /\ Len(s \o t) = Len(s) + Len(t)
         /\ \A j \in 1 .. Len(s) : (s \o t)[j] = s[j]
         /\ \A j \in 1 .. Len(t) : (s \o t)[Len(s) + j] = t[j]
OBVIOUS

LEMMA BytesFacts ==
  ASSUME NEW id \in Nat, NEW n \in Nat
  PROVE  /\ Bytes(id, n) \in Seq(Nat) /\ Len(Bytes(id, n)) = n
         /\ \A k \in 1 .. n : Bytes(id, n)[k] = id
BY DEF Bytes

\* The header of an item that is taken is no longer than the item.
LEMMA HeadersFacts ==
  ASSUME NEW it \in Arrived, NEW h \in Headers(it)
  PROVE  h.kind \in HeldKinds /\ h.len \in Nat /\ h.len <= it.len
<1>1. it.kind \in InKinds /\ it.len \in Nat
  BY DEF Arrived
<1>2. CASE it.kind = "CMD_FLUSH"
  <2>1. h = [kind |-> "PUNC", len |-> 0]
    BY <1>2 DEF Headers
  <2> QED BY <1>1, <2>1 DEF HeldKinds
<1>3. CASE it.kind = "CMD_PHONEME"
  <2>1. PICK n \in 0 .. it.len : h = [kind |-> "WORDPHON", len |-> n]
    BY <1>3 DEF Headers
  <2> QED BY <1>1, <2>1 DEF HeldKinds
<1>4. CASE it.kind # "CMD_FLUSH" /\ it.kind # "CMD_PHONEME"
  <2>1. h = [kind |-> it.kind, len |-> it.len]
    BY <1>4 DEF Headers
  <2> QED BY <1>1, <1>4, <2>1 DEF HeldKinds, InKinds
<1> QED BY <1>2, <1>3, <1>4

\* A selected entry is a part of the item's content.
LEMMA SelectedFacts ==
  ASSUME NEW h \in Header, NEW s \in Selected(h)
  PROVE  /\ s \in Header /\ s.id = h.id /\ s.kind = h.kind
         /\ s.cind >= h.cind /\ s.cind + s.len <= h.cind + h.len
<1>1. h.len \in Nat /\ h.cind \in Nat /\ EntrySize \in Nat
  BY SaAssumption DEF Header
<1>2. CASE s = h
  BY <1>1, <1>2
<1>3. CASE s # h
  <2>1. PICK i \in Entries(h) : s = [h EXCEPT !.cind = h.cind + i, !.len = EntrySize]
    BY <1>3 DEF Selected
  <2>2. i \in 0 .. h.len - EntrySize
    BY <2>1 DEF Entries
  <2>3. /\ s = [id |-> h.id, kind |-> h.kind, len |-> EntrySize, cind |-> h.cind + i]
        /\ h.id \in Nat /\ h.kind \in HeldKinds
    BY <2>1 DEF Header
  <2>4. i \in Nat /\ i + EntrySize <= h.len
    BY <1>1, <2>2
  <2> QED BY <1>1, <2>3, <2>4 DEF Header
<1> QED BY <1>2, <1>3

-----------------------------------------------------------------------------
(* The type invariant.                                                      *)
LEMMA Types ==
  ASSUME TypeOK
  PROVE  /\ Len(headx) \in Nat /\ Len(cbuf1) \in Nat /\ Len(cbuf2) \in Nat
         /\ Len(cbIn) \in Nat /\ Len(cbOut) \in Nat
         /\ cbIn # << >> => Head(cbIn) \in Arrived /\ Tail(cbIn) \in Seq(Arrived)
         /\ headx # << >> => Head(headx) \in Header /\ Tail(headx) \in Seq(Header)
                             /\ Len(Tail(headx)) = Len(headx) - 1
         /\ \A n \in 1 .. Len(headx) : headx[n] \in Header
         /\ MaxHeadx \in Nat /\ CbufSize \in Nat
BY SaAssumption DEF TypeOK

LEMMA CollectTyped ==
  ASSUME SaInv, CollectItem
  PROVE  TypeOK'
<1>1. /\ TypeOK /\ SpareSlot /\ procState = "COLLECT" /\ inspaceok /\ needsmoreitems
      /\ cbIn # << >> /\ Head(cbIn).len <= CbufSize - Len(cbuf1)
  BY DEF SaInv, CollectItem, Running
<1>2. PICK h \in Headers(Head(cbIn)) :
        /\ headx' = Append(headx, [id |-> Head(cbIn).id, kind |-> h.kind, len |-> h.len,
                                   cind |-> IF Head(cbIn).len > 0 THEN Len(cbuf1) ELSE 0])
        /\ needsmoreitems' = (h.kind # "PUNC")
  BY DEF CollectItem
<1>3. /\ Head(cbIn) \in Arrived /\ Head(cbIn).id \in Nat /\ Head(cbIn).len \in Nat
      /\ Len(cbuf1) \in Nat /\ Len(headx) \in Nat
  BY <1>1, Types DEF Arrived
<1>4. h.kind \in HeldKinds /\ h.len \in Nat
  BY <1>3, HeadersFacts
<1>5. headx' \in Seq(Header) /\ Len(headx') <= MaxHeadx
  <2>1. [id |-> Head(cbIn).id, kind |-> h.kind, len |-> h.len,
         cind |-> IF Head(cbIn).len > 0 THEN Len(cbuf1) ELSE 0] \in Header
    BY <1>3, <1>4 DEF Header
  <2>2. headx \in Seq(Header) /\ Len(headx) < MaxHeadx /\ MaxHeadx \in Nat
    BY <1>1, Types DEF TypeOK, SpareSlot
  <2> QED BY <1>2, <1>3, <2>1, <2>2
<1>6. cbuf1' \in Seq(Nat) /\ Len(cbuf1') <= CbufSize
  <2>1. /\ Bytes(Head(cbIn).id, Head(cbIn).len) \in Seq(Nat)
        /\ Len(Bytes(Head(cbIn).id, Head(cbIn).len)) = Head(cbIn).len
    BY <1>3, BytesFacts
  <2>2. cbuf1 \in Seq(Nat) /\ CbufSize \in Nat
    BY <1>1, Types DEF TypeOK
  <2>3. cbuf1' = cbuf1 \o Bytes(Head(cbIn).id, Head(cbIn).len)
    BY DEF CollectItem
  <2> QED BY <1>1, <1>3, <2>1, <2>2, <2>3
<1>7. cbIn' \in Seq(Arrived)
  BY <1>1, Types DEF CollectItem
<1>8. inspaceok' \in BOOLEAN /\ needsmoreitems' \in BOOLEAN
  BY <1>2 DEF CollectItem, SpaceLeft
<1> QED
  BY <1>1, <1>5, <1>6, <1>7, <1>8 DEF TypeOK, CollectItem, GoOn, wordVars

\* What an item is left with in cbuf2 fits, and is its own if c is.
LEMMA MovedFacts ==
  ASSUME TypeOK, ind \in 1 .. Len(headx), NEW k \in HeldKinds, NEW c \in Seq(Nat), Moved(k, c)
  PROVE  /\ headx' \in Seq(Header) /\ Len(headx') = Len(headx)
         /\ cbuf2' \in Seq(Nat) /\ Len(cbuf2') <= CbufSize
         /\ Len(cbuf2') >= Len(cbuf2)
         /\ \A j \in 1 .. Len(cbuf2) : cbuf2'[j] = cbuf2[j]
         /\ \A n \in 1 .. Len(headx) : n # ind => headx'[n] = headx[n]
         /\ headx'[ind].kind = k /\ headx'[ind].id = headx[ind].id
         /\ (\A j \in 1 .. Len(c) : c[j] = headx[ind].id) => Owns(cbuf2', headx'[ind])
<1> DEFINE n == Least(Len(c), Room2)
           d == [j \in 1 .. n |-> c[j]]
<1>1. /\ Len(headx) \in Nat /\ Len(cbuf2) \in Nat /\ CbufSize \in Nat /\ headx \in Seq(Header)
      /\ cbuf2 \in Seq(Nat) /\ Len(cbuf2) <= CbufSize /\ Len(c) \in Nat
      /\ headx[ind] \in Header /\ ind \in 1 .. Len(headx)
  BY Types DEF TypeOK
<1>2. n \in Nat /\ n <= Len(c) /\ n <= CbufSize - Len(cbuf2)
  BY <1>1 DEF Least, Room2
<1>3. /\ headx' = [headx EXCEPT ![ind] =
                   [id |-> headx[ind].id, kind |-> k, len |-> n, cind |-> Len(cbuf2)]]
      /\ cbuf2' = cbuf2 \o d
  BY DEF Moved
<1> HIDE DEF n
<1>4. d \in Seq(Nat) /\ Len(d) = n /\ \A j \in 1 .. n : d[j] = c[j]
  BY <1>1, <1>2
<1> HIDE DEF d
<1>5. /\ cbuf2' \in Seq(Nat) /\ Len(cbuf2') = Len(cbuf2) + n
      /\ \A j \in 1 .. Len(cbuf2) : cbuf2'[j] = cbuf2[j]
      /\ \A j \in 1 .. n : cbuf2'[Len(cbuf2) + j] = d[j]
  <2>1. /\ cbuf2 \o d \in Seq(Nat) /\ Len(cbuf2 \o d) = Len(cbuf2) + Len(d)
        /\ \A j \in 1 .. Len(cbuf2) : (cbuf2 \o d)[j] = cbuf2[j]
        /\ \A j \in 1 .. Len(d) : (cbuf2 \o d)[Len(cbuf2) + j] = d[j]
    <3>1. cbuf2 \in Seq(Nat) /\ d \in Seq(Nat)
      BY <1>1, <1>4
    <3> QED BY <3>1, ConcatFacts
  <2> QED BY <1>3, <1>4, <2>1
<1>6. headx[ind].id \in Nat
  BY <1>1 DEF Header
<1>7. [id |-> headx[ind].id, kind |-> k, len |-> n, cind |-> Len(cbuf2)] \in Header
  BY <1>1, <1>2, <1>6 DEF Header
<1>8. /\ headx' \in Seq(Header) /\ Len(headx') = Len(headx)
      /\ \A m \in 1 .. Len(headx) : m # ind => headx'[m] = headx[m]
      /\ headx'[ind] = [id |-> headx[ind].id, kind |-> k, len |-> n, cind |-> Len(cbuf2)]
  <2> DEFINE g == [id |-> headx[ind].id, kind |-> k, len |-> n, cind |-> Len(cbuf2)]
  <2>1. headx' = [headx EXCEPT ![ind] = g] /\ g \in Header
    BY <1>3, <1>6, <1>7
  <2> HIDE DEF g
  <2>2. /\ headx' \in Seq(Header) /\ Len(headx') = Len(headx)
        /\ \A m \in 1 .. Len(headx) : m # ind => headx'[m] = headx[m]
        /\ headx'[ind] = g
    BY <1>1, <2>1
  <2> QED BY <2>2 DEF g
<1>9. ASSUME \A j \in 1 .. Len(c) : c[j] = headx[ind].id
      PROVE  Owns(cbuf2', headx'[ind])
  <2>1. headx'[ind].len = n /\ headx'[ind].cind = Len(cbuf2) /\ headx'[ind].id = headx[ind].id
    BY <1>8
  <2>2. \A j \in 1 .. n : cbuf2'[Len(cbuf2) + j] = headx[ind].id
    <3>1. \A j \in 1 .. n : j \in 1 .. Len(c) /\ d[j] = c[j]
      BY <1>1, <1>2, <1>4
    <3> QED BY <1>5, <1>9, <3>1
  <2>3. Len(cbuf2) + n <= Len(cbuf2')
    BY <1>1, <1>2, <1>5
  <2> QED BY <2>1, <2>2, <2>3 DEF Owns
<1> QED
  BY <1>1, <1>2, <1>5, <1>8, <1>9

LEMMA PosdFacts ==
  ASSUME TypeOK, Posd
  PROVE  /\ ind \in 1 .. Len(headx)
         /\ headx' \in Seq(Header) /\ Len(headx') = Len(headx)
         /\ \A n \in 1 .. Len(headx) : n # ind => headx'[n] = headx[n]
         /\ headx'[ind].kind = headx[ind].kind /\ headx'[ind].id = headx[ind].id
         /\ headx'[ind].cind >= headx[ind].cind
         /\ headx'[ind].cind + headx'[ind].len <= headx[ind].cind + headx[ind].len
<1>1. headx \in Seq(Header) /\ ind \in 1 .. Len(headx) /\ headx[ind] \in Header
  BY Types DEF Posd, TypeOK
<1>2. PICK h \in Selected(headx[ind]) : headx' = [headx EXCEPT ![ind] = h]
  BY DEF Posd
<1>3. /\ h \in Header /\ h.id = headx[ind].id /\ h.kind = headx[ind].kind
      /\ h.cind >= headx[ind].cind /\ h.cind + h.len <= headx[ind].cind + headx[ind].len
  BY <1>1, <1>2, SelectedFacts
<1>4. /\ headx' \in Seq(Header) /\ Len(headx') = Len(headx) /\ headx'[ind] = h
      /\ \A n \in 1 .. Len(headx) : n # ind => headx'[n] = headx[n]
  BY <1>1, <1>2, <1>3
<1> QED BY <1>1, <1>3, <1>4

\* A word becomes phones or stays as it is; anything else is copied.
LEMMA WphoFacts ==
  ASSUME TypeOK, Wpho
  PROVE  /\ ind \in 1 .. Len(headx)
         /\ headx' \in Seq(Header) /\ Len(headx') = Len(headx)
         /\ cbuf2' \in Seq(Nat) /\ Len(cbuf2') <= CbufSize
         /\ Len(cbuf2') >= Len(cbuf2)
         /\ \A j \in 1 .. Len(cbuf2) : cbuf2'[j] = cbuf2[j]
         /\ \A n \in 1 .. Len(headx) : n # ind => headx'[n] = headx[n]
         /\ headx'[ind].id = headx[ind].id
         /\ headx'[ind].kind = "PUNC" <=> headx[ind].kind = "PUNC"
         /\ Owns(cbuf1, headx[ind]) => Owns(cbuf2', headx'[ind]) \/ IsWord(headx'[ind])
<1>1. /\ headx \in Seq(Header) /\ ind \in 1 .. Len(headx) /\ headx[ind] \in Header
      /\ cbuf1 \in Seq(Nat) /\ cbuf2 \in Seq(Nat) /\ Len(cbuf2) <= CbufSize
      /\ Len(cbuf2) \in Nat
  BY Types DEF Wpho, TypeOK
<1>2. headx[ind].id \in Nat /\ headx[ind].kind \in HeldKinds /\ headx[ind].len \in Nat
  BY <1>1 DEF Header
<1>3. CASE WphoWord
  <2>1. IsWord(headx[ind])
    BY <1>3 DEF WphoWord
  <2>2. PICK n \in PhoneLens : Moved("WORDPHON", Bytes(headx[ind].id, n))
    BY <1>3 DEF WphoWord
  <2> DEFINE c == Bytes(headx[ind].id, n)
  <2>3. n \in Nat
    BY SaAssumption
  <2>4. /\ c \in Seq(Nat) /\ Len(c) = n /\ \A j \in 1 .. n : c[j] = headx[ind].id
    BY <1>2, <2>3, BytesFacts
  <2>5. Moved("WORDPHON", c) /\ "WORDPHON" \in HeldKinds
    BY <2>2 DEF HeldKinds
  <2> HIDE DEF c
  <2>6. headx[ind].kind # "PUNC"
    BY <2>1 DEF IsWord
  <2> QED BY <1>1, <2>4, <2>5, <2>6, MovedFacts
<1>4. CASE WphoIrregular
  BY <1>1, <1>4 DEF WphoIrregular
<1>5. CASE WphoCopy
  <2> DEFINE c == Slice(cbuf1, headx[ind])
  <2>1. ~IsWord(headx[ind]) /\ Moved(headx[ind].kind, c)
    BY <1>5 DEF WphoCopy
  <2>2. /\ c \in Seq(Nat) /\ Len(c) = headx[ind].len
        /\ Owns(cbuf1, headx[ind]) => \A k \in 1 .. headx[ind].len : c[k] = headx[ind].id
    BY <1>1, SliceFacts
  <2> HIDE DEF c
  <2> QED BY <1>1, <1>2, <2>1, <2>2, MovedFacts
<1> QED BY <1>3, <1>4, <1>5 DEF Wpho

LEMMA ParseTyped ==
  ASSUME TypeOK, Parse
  PROVE  TypeOK'
<1>1. /\ headx # << >> /\ Head(headx) \in Header /\ Tail(headx) \in Seq(Header)
      /\ Len(Tail(headx)) <= MaxHeadx /\ cbuf2 \in Seq(Nat)
  BY Types DEF Parse, TypeOK
<1>2. Slice(cbuf2, Head(headx)) \in Seq(Nat)
  BY <1>1, SliceFacts
<1>3. tmpbuf' \in Ready
  <2>1. /\ tmpbuf' = [id |-> Head(headx).id, kind |-> Head(headx).kind,
                      body |-> Slice(cbuf2, Head(headx)), fsts |-> << >>]
        /\ Head(headx).id \in Nat /\ Head(headx).kind \in HeldKinds
    BY <1>1 DEF Parse, Header
  <2>2. << >> \in Seq(Nat)
    OBVIOUS
  <2> QED BY <1>2, <2>1, <2>2 DEF Ready
<1>4. procState' \in Phases /\ fsts' \in Seq(Nat) /\ headx' = Tail(headx)
  BY DEF Parse, Phases
<1> QED BY <1>1, <1>3, <1>4 DEF TypeOK, Parse, GoOn

LEMMA TransducedFacts ==
  ASSUME TypeOK
  PROVE  Transduced \in Ready /\ Transduced.id = tmpbuf.id
<1>1. tmpbuf \in Ready /\ fsts \in Seq(Nat)
  BY DEF TypeOK
<1>2. tmpbuf = [id |-> tmpbuf.id, kind |-> tmpbuf.kind, body |-> tmpbuf.body, fsts |-> tmpbuf.fsts]
  BY <1>1 DEF Ready
<1>3. tmpbuf.id \in Nat /\ tmpbuf.kind \in HeldKinds /\ tmpbuf.body \in Seq(Nat)
  BY <1>1 DEF Ready
<1>4. [tmpbuf EXCEPT !.fsts = fsts] \in Ready /\ [tmpbuf EXCEPT !.fsts = fsts].id = tmpbuf.id
  BY <1>1, <1>2, <1>3 DEF Ready
<1> QED BY <1>1, <1>4 DEF Transduced

LEMMA TypedStep ==
  ASSUME SaInv, Next
  PROVE  TypeOK'
<1>1. TypeOK /\ SpareSlot
  BY DEF SaInv
<1> USE DEF ctrlVars, phraseVars, wordVars, Running, Return, GoOn
<1>2. CASE Call
  BY <1>1, <1>2 DEF TypeOK, Call, Results
<1>3. CASE CollectItem
  BY <1>3, CollectTyped
<1>4. CASE CollectError
  BY <1>1, <1>4, Types DEF TypeOK, CollectError, Results
<1>5. CASE CollectPhrase
  BY <1>1, <1>5 DEF TypeOK, CollectPhrase, Phases, Results
<1>6. CASE CollectForced
  <2>1. [id |-> Forced, kind |-> "PUNC", len |-> 0, cind |-> 0] \in Header
    BY DEF Header, HeldKinds, Forced
  <2>2. headx' \in Seq(Header) /\ Len(headx') <= MaxHeadx
    <3>1. headx \in Seq(Header) /\ Len(headx) < MaxHeadx
      BY <1>1, <1>6 DEF TypeOK, SpareSlot, CollectForced
    <3>2. MaxHeadx \in Nat
      BY SaAssumption
    <3> QED BY <1>6, <2>1, <3>1, <3>2 DEF CollectForced
  <2>3. needsmoreitems' \in BOOLEAN
    BY <1>6 DEF CollectForced
  <2>4. procState' \in Phases /\ status' \in Results /\ ind' \in Nat \ {0}
    BY <1>6 DEF CollectForced, Phases, Results
  <2>5. UNCHANGED << cbIn, cbOut, inspaceok, cbuf1, cbuf2, wordVars, fed, resets >>
    BY <1>6 DEF CollectForced
  <2> QED BY <1>1, <2>2, <2>3, <2>4, <2>5 DEF TypeOK
<1>7. CASE CollectIdle
  BY <1>1, <1>7 DEF TypeOK, CollectIdle, Results
<1>8. CASE Posd
  <2>1. headx' \in Seq(Header) /\ Len(headx') = Len(headx)
    BY <1>1, <1>8, PosdFacts
  <2> QED BY <1>1, <1>8, <2>1 DEF TypeOK, Posd
<1>9. CASE PosdDone
  BY <1>1, <1>9 DEF TypeOK, PosdDone, Phases
<1>10. CASE Wpho
  <2>1. /\ headx' \in Seq(Header) /\ Len(headx') = Len(headx)
        /\ cbuf2' \in Seq(Nat) /\ Len(cbuf2') <= CbufSize
    BY <1>1, <1>10, WphoFacts
  <2>2. /\ ind' = ind + 1 /\ status' = status
        /\ UNCHANGED << cbIn, cbOut, procState, inspaceok, needsmoreitems, cbuf1, wordVars,
                        fed, resets >>
    BY <1>10 DEF Wpho
  <2> QED BY <1>1, <2>1, <2>2 DEF TypeOK
<1>11. CASE WphoDone
  <2>1. cbuf1' \in Seq(Nat) /\ Len(cbuf1') <= CbufSize
    BY <1>11, SaAssumption DEF WphoDone
  <2> QED BY <1>1, <1>11, <2>1 DEF TypeOK, WphoDone, Phases
<1>12. CASE ParseDone
  <2>1. cbuf2' \in Seq(Nat) /\ Len(cbuf2') <= CbufSize
    BY <1>12, SaAssumption DEF ParseDone
  <2> QED BY <1>1, <1>12, <2>1 DEF TypeOK, ParseDone, Phases, Results
<1>13. CASE Parse
  BY <1>1, <1>13, ParseTyped
<1>14. CASE Fst
  <2>1. curFst \in 0 .. NumFsts /\ fsts \in Seq(Nat) /\ curFst < NumFsts /\ NumFsts \in Nat
    BY <1>1, <1>14, SaAssumption DEF TypeOK, Fst
  <2>2. curFst' \in 0 .. NumFsts /\ fsts' \in Seq(Nat)
    BY <1>14, <2>1 DEF Fst
  <2> QED BY <1>1, <1>14, <2>2 DEF TypeOK, Fst, Results
<1>15. CASE FstDone
  <2>1. curFst' \in 0 .. NumFsts
    BY <1>15, SaAssumption DEF FstDone
  <2> QED BY <1>1, <1>15, <2>1 DEF TypeOK, FstDone, Phases
<1>16. CASE Feed
  <2>1. cbOut' \in Seq(Ready) /\ tmpbuf' \in Ready
    BY <1>1, <1>16, TransducedFacts DEF Feed, TypeOK
  <2> QED BY <1>1, <1>16, <2>1 DEF TypeOK, Feed, Phases
<1>17. CASE FeedFull
  <2>1. tmpbuf' \in Ready
    BY <1>1, <1>17, TransducedFacts DEF FeedFull
  <2> QED BY <1>1, <1>17, <2>1 DEF TypeOK, FeedFull, Results
<1>18. CASE \E in \in Inputs : Arrive(in)
  <2>1. PICK in \in Inputs : Arrive(in)
    BY <1>18
  <2>2. [id |-> fed + 1, kind |-> in.kind, len |-> in.len] \in Arrived /\ fed + 1 \in Nat
    BY <1>1, SaAssumption DEF Arrived, TypeOK
  <2> QED BY <1>1, <2>1, <2>2 DEF TypeOK, Arrive
<1>19. CASE Leave
  <2>1. cbOut' \in Seq(Ready)
    BY <1>1, <1>19 DEF Leave, TypeOK
  <2> QED BY <1>1, <1>19, <2>1 DEF TypeOK, Leave
<1>20. CASE \E mode \in ResetModes : Reset(mode)
  <2>1. PICK mode \in ResetModes : Reset(mode)
    BY <1>20
  <2>2. /\ cbIn' \in Seq(Arrived) /\ cbOut' \in Seq(Ready)
        /\ headx' \in Seq(Header) /\ Len(headx') <= MaxHeadx
        /\ cbuf1' \in Seq(Nat) /\ Len(cbuf1') <= CbufSize
        /\ cbuf2' \in Seq(Nat) /\ Len(cbuf2') <= CbufSize /\ fsts' \in Seq(Nat)
    BY <2>1, SaAssumption DEF Reset
  <2>3. curFst' \in 0 .. NumFsts
    BY <1>1, <2>1, SaAssumption DEF Reset, TypeOK
  <2>4. /\ procState' \in Phases /\ status' \in Results
        /\ inspaceok' \in BOOLEAN /\ needsmoreitems' \in BOOLEAN /\ phonesTransduced' \in BOOLEAN
        /\ ind' \in Nat \ {0} /\ tmpbuf' \in Ready /\ fed' \in Nat /\ resets' \in Nat
    <3>1. procState' \in Phases /\ ind' \in Nat \ {0}
      BY <1>1, <2>1 DEF Reset, TypeOK, Phases
    <3>2. inspaceok' \in BOOLEAN /\ needsmoreitems' \in BOOLEAN /\ phonesTransduced' \in BOOLEAN
      BY <2>1 DEF Reset
    <3>3. status' \in Results /\ tmpbuf' \in Ready /\ fed' \in Nat
      BY <1>1, <2>1 DEF Reset, TypeOK
    <3>4. resets' \in Nat
      BY <1>1, <2>1 DEF Reset, TypeOK
    <3> QED BY <3>1, <3>2, <3>3, <3>4
  <2> QED BY <2>2, <2>3, <2>4 DEF TypeOK
<1> QED
  BY <1>2, <1>3, <1>4, <1>5, <1>6, <1>7, <1>8, <1>9, <1>10, <1>11, <1>12, <1>13, <1>14, <1>15,
     <1>16, <1>17, <1>18, <1>19, <1>20 DEF Next, Step

-----------------------------------------------------------------------------
(* The phrase.                                                              *)
\* Most of what happens leaves the phrase alone.
PhraseKept == UNCHANGED << procState, inspaceok, needsmoreitems, ind, headx, cbuf1, cbuf2 >>
WordDone ==
  /\ procState \in {"FST", "FEED"} /\ procState' \in {"PARSE", "FEED"}
  /\ UNCHANGED << inspaceok, needsmoreitems, ind, headx, cbuf1, cbuf2 >>
Emptied ==
  /\ procState' = "COLLECT" /\ inspaceok' = TRUE /\ needsmoreitems' = TRUE
  /\ headx' = << >>

LEMMA NextCases ==
  ASSUME Next
  PROVE  \/ PhraseKept \/ WordDone \/ Emptied
         \/ CollectItem \/ CollectPhrase \/ CollectForced
         \/ Posd \/ PosdDone \/ Wpho \/ WphoDone \/ Parse
<1> USE DEF ctrlVars, phraseVars
<1>1. Call \/ CollectError \/ CollectIdle \/ Fst \/ FeedFull => PhraseKept
  BY DEF Call, CollectError, CollectIdle, Fst, FeedFull, PhraseKept
<1>2. (\E in \in Inputs : Arrive(in)) \/ Leave => PhraseKept
  BY DEF Arrive, Leave, PhraseKept
<1>3. FstDone \/ Feed => WordDone
  BY DEF FstDone, Feed, WordDone, Running
<1>4. ParseDone => Emptied
  BY DEF ParseDone, Emptied
<1>5. (\E mode \in ResetModes : Reset(mode)) => Emptied
  BY DEF Reset, Emptied
<1> QED BY <1>1, <1>2, <1>3, <1>4, <1>5 DEF Next, Step

LEMMA SpareStep ==
  ASSUME SaInv, Next
  PROVE  SpareSlot'
<1>1. TypeOK /\ SpareSlot /\ MaxHeadx \in Nat \ {0, 1}
  BY SaAssumption DEF SaInv
<1>2. CASE PhraseKept
  BY <1>1, <1>2 DEF PhraseKept, SpareSlot
<1>3. CASE Emptied
  BY <1>1, <1>3 DEF Emptied, SpareSlot
<1>4. CASE CollectItem
  <2>1. Len(headx) \in Nat /\ Len(headx') = Len(headx) + 1
    BY <1>1, <1>4, Types DEF CollectItem, TypeOK
  <2>2. Len(headx) < MaxHeadx - 1 /\ (inspaceok' => Len(headx) < MaxHeadx - 2)
    BY <1>1, <1>4 DEF SpareSlot, CollectItem, SpaceLeft, Running
  <2> QED BY <1>1, <2>1, <2>2 DEF SpareSlot
<1>5. CASE CollectPhrase \/ CollectForced \/ Posd \/ PosdDone \/ Wpho \/ WphoDone \/ Parse \/ WordDone
  <2>1. procState' # "COLLECT"
    BY <1>5 DEF CollectPhrase, CollectForced, Posd, PosdDone, Wpho, WphoDone, Parse, WordDone, Running
  <2> QED BY <2>1 DEF SpareSlot
<1> QED BY <1>2, <1>3, <1>4, <1>5, NextCases

\* The kinds of the headers decide over OnePhrase.
LEMMA SameKinds ==
  ASSUME TypeOK, OnePhrase, headx' \in Seq(Header), Len(headx') = Len(headx),
         procState \in {"POSD", "WPHO"}, procState' = procState,
         \A n \in 1 .. Len(headx) : headx'[n].kind = "PUNC" <=> headx[n].kind = "PUNC"
  PROVE  OnePhrase'
<1>1. /\ Len(headx) \in Nat /\ DOMAIN headx = 1 .. Len(headx) /\ DOMAIN headx' = 1 .. Len(headx)
      /\ headx # << >> /\ headx' # << >> /\ Len(headx) \in 1 .. Len(headx)
  BY DEF TypeOK, OnePhrase
<1>2. /\ \A n \in 1 .. Len(headx) : headx[n].kind = "PUNC" => n = Len(headx)
      /\ headx[Len(headx)].kind = "PUNC"
  BY <1>1 DEF OnePhrase
<1>3. /\ \A n \in 1 .. Len(headx) : headx'[n].kind = "PUNC" => n = Len(headx')
      /\ headx'[Len(headx')].kind = "PUNC"
  BY <1>1, <1>2
<1>4. procState' # "COLLECT"
  OBVIOUS
<1> QED BY <1>1, <1>3, <1>4 DEF OnePhrase

LEMMA PhraseStep ==
  ASSUME SaInv, Next
  PROVE  OnePhrase'
<1>1. TypeOK /\ OnePhrase
  BY DEF SaInv
<1>2. headx \in Seq(Header) /\ Len(headx) \in Nat /\ DOMAIN headx = 1 .. Len(headx)
  BY <1>1, Types DEF TypeOK
<1>3. CASE PhraseKept
  BY <1>1, <1>3 DEF PhraseKept, OnePhrase
<1>4. CASE WordDone
  BY <1>1, <1>4 DEF WordDone, OnePhrase
<1>5. CASE Emptied
  BY <1>5 DEF Emptied, OnePhrase
<1>6. CASE CollectItem \/ CollectForced
  <2>1. /\ procState = "COLLECT" /\ needsmoreitems
        /\ procState' \in {"COLLECT", "POSD"}
        /\ procState' = "POSD" => ~needsmoreitems'
    BY <1>6 DEF CollectItem, CollectForced, Running
  <2>2. \A n \in 1 .. Len(headx) : headx[n].kind # "PUNC"
    BY <1>1, <1>2, <2>1 DEF OnePhrase
  <2>3. PICK h : headx' = Append(headx, h) /\ needsmoreitems' = (h.kind # "PUNC")
    <3>1. CASE CollectForced
      <4>1. headx' = Append(headx, [id |-> Forced, kind |-> "PUNC", len |-> 0, cind |-> 0])
            /\ needsmoreitems' = FALSE
        BY <3>1 DEF CollectForced
      <4>2. needsmoreitems' = ([id |-> Forced, kind |-> "PUNC", len |-> 0, cind |-> 0].kind # "PUNC")
        BY <4>1
      <4> QED BY <4>1, <4>2
    <3>2. CASE CollectItem
      <4>1. PICK h \in Headers(Head(cbIn)) :
              /\ headx' = Append(headx,
                   [id |-> Head(cbIn).id, kind |-> h.kind, len |-> h.len,
                    cind |-> IF Head(cbIn).len > 0 THEN Len(cbuf1) ELSE 0])
              /\ needsmoreitems' = (h.kind # "PUNC")
        BY <3>2 DEF CollectItem
      <4> DEFINE g == [id |-> Head(cbIn).id, kind |-> h.kind, len |-> h.len,
                       cind |-> IF Head(cbIn).len > 0 THEN Len(cbuf1) ELSE 0]
      <4>2. g.kind = h.kind
        OBVIOUS
      <4>3. headx' = Append(headx, g) /\ needsmoreitems' = (g.kind # "PUNC")
        BY <4>1, <4>2
      <4> QED BY <4>3
    <3> QED BY <1>6, <3>1, <3>2
  <2>4. /\ Len(headx') = Len(headx) + 1 /\ DOMAIN headx' = 1 .. Len(headx) + 1 /\ headx' # << >>
        /\ \A n \in 1 .. Len(headx) : headx'[n] = headx[n]
        /\ headx'[Len(headx) + 1] = h
    BY <1>2, <2>3
  <2>5. \A n \in DOMAIN headx' : headx'[n].kind = "PUNC" => n = Len(headx')
    BY <1>2, <2>2, <2>4
  <2>6. headx'[Len(headx')].kind = h.kind
    BY <2>4
  <2>7. needsmoreitems' <=> headx'[Len(headx')].kind # "PUNC"
    BY <2>3, <2>6
  <2>8. procState' \in {"POSD", "WPHO"} => headx' # << >>
    BY <2>4
  <2>9. procState' # "COLLECT" => headx'[Len(headx')].kind = "PUNC"
    BY <2>1, <2>7
  <2> QED BY <2>4, <2>5, <2>7, <2>8, <2>9 DEF OnePhrase
<1>7. CASE CollectPhrase
  <2>1. /\ procState = "COLLECT" /\ ~needsmoreitems /\ procState' = "POSD" /\ headx' = headx
    BY <1>7 DEF CollectPhrase, Running, phraseVars
  <2> QED BY <1>1, <2>1 DEF OnePhrase
<1>8. CASE Posd
  <2>1. procState = "POSD" /\ procState' = procState
    BY <1>8 DEF Posd, Running
  <2>2. /\ headx' \in Seq(Header) /\ Len(headx') = Len(headx)
        /\ \A n \in 1 .. Len(headx) : headx'[n].kind = headx[n].kind
    BY <1>1, <1>8, PosdFacts
  <2> QED BY <1>1, <2>1, <2>2, SameKinds
<1>9. CASE Wpho
  <2>1. procState = "WPHO" /\ procState' = procState
    BY <1>9 DEF Wpho, Running
  <2>2. /\ headx' \in Seq(Header) /\ Len(headx') = Len(headx)
        /\ \A n \in 1 .. Len(headx) : headx'[n].kind = "PUNC" <=> headx[n].kind = "PUNC"
    BY <1>1, <1>9, WphoFacts
  <2> QED BY <1>1, <2>1, <2>2, SameKinds
<1>10. CASE PosdDone \/ WphoDone
  <2>1. /\ procState \in {"POSD", "WPHO"} /\ procState' \in {"WPHO", "PARSE"}
        /\ headx' = headx
    BY <1>10 DEF PosdDone, WphoDone, Running, phraseVars
  <2> QED BY <1>1, <2>1 DEF OnePhrase
<1>11. CASE Parse
  <2>1. /\ procState = "PARSE" /\ procState' \in {"FST", "FEED"} /\ headx # << >>
        /\ headx' = Tail(headx)
    BY <1>11 DEF Parse, Running
  <2>2. /\ Len(headx') = Len(headx) - 1 /\ DOMAIN headx' = 1 .. Len(headx) - 1
        /\ \A n \in 1 .. Len(headx) - 1 : headx'[n] = headx[n + 1]
        /\ headx' # << >> => Len(headx) - 1 \in 1 .. Len(headx) - 1
    BY <1>2, <2>1
  <2>3. /\ \A n \in 1 .. Len(headx) : headx[n].kind = "PUNC" => n = Len(headx)
        /\ headx[Len(headx)].kind = "PUNC"
    BY <1>1, <1>2, <2>1 DEF OnePhrase
  <2>4. ASSUME NEW n \in DOMAIN headx', headx'[n].kind = "PUNC"
        PROVE  n = Len(headx')
    <3>1. n \in 1 .. Len(headx) - 1 /\ n + 1 \in 1 .. Len(headx) /\ n \in Int
      BY <1>2, <2>2
    <3>2. headx[n + 1].kind = "PUNC"
      BY <2>2, <2>4, <3>1
    <3>3. n + 1 = Len(headx)
      BY <2>3, <3>1, <3>2
    <3> QED BY <1>2, <2>2, <3>1, <3>3
  <2>5. ASSUME headx' # << >>
        PROVE  headx'[Len(headx')].kind = "PUNC"
    <3>1. Len(headx) - 1 \in 1 .. Len(headx) - 1
      BY <2>2, <2>5
    <3>2. headx'[Len(headx) - 1] = headx[Len(headx) - 1 + 1]
      BY <2>2, <3>1
    <3>3. Len(headx) - 1 + 1 = Len(headx)
      BY <1>2
    <3> QED BY <2>2, <2>3, <3>2, <3>3
  <2> QED BY <2>1, <2>4, <2>5 DEF OnePhrase
<1> QED
  BY <1>3, <1>4, <1>5, <1>6, <1>7, <1>8, <1>9, <1>10, <1>11, NextCases

-----------------------------------------------------------------------------
(* Whose content it is.                                                     *)
LEMMA OwnsGrown ==
  ASSUME NEW b \in Seq(Nat), NEW c \in Seq(Nat), Len(b) <= Len(c),
         \A j \in 1 .. Len(b) : c[j] = b[j],
         NEW h \in Header, Owns(b, h)
  PROVE  Owns(c, h)
<1>1. h.len \in Nat /\ h.cind \in Nat /\ Len(b) \in Nat /\ Len(c) \in Nat
  BY DEF Header
<1>2. h.cind + h.len <= Len(b) /\ \A k \in 1 .. h.len : b[h.cind + k] = h.id
  BY DEF Owns
<1>3. ASSUME NEW k \in 1 .. h.len PROVE c[h.cind + k] = h.id
  <2>1. PICK i \in Int : i = h.cind + k
    BY <1>1
  <2>2. h.cind + h.len <= Len(b) /\ b[i] = h.id
    BY <1>2, <2>1
  <2>3. i \in 1 .. Len(b)
    <3>1. PICK m \in Nat : m = Len(b)
      BY <1>1
    <3>2. PICK l \in Nat : l = h.len
      BY <1>1
    <3>3. PICK s \in Nat : s = h.cind
      BY <1>1
    <3>4. s + l <= m /\ k \in 1 .. l /\ i = s + k
      BY <2>1, <2>2, <3>1, <3>2, <3>3
    <3>5. i \in 1 .. m
      BY <3>4
    <3> QED BY <3>1, <3>5
  <2>4. c[i] = h.id
    BY <2>2, <2>3
  <2> QED BY <2>1, <2>4
<1>4. h.cind + h.len <= Len(c)
  BY <1>1, <1>2
<1> QED BY <1>3, <1>4 DEF Owns

\* Shortening a header, or moving it within its content, keeps it in there.
LEMMA OwnsPart ==
  ASSUME NEW b \in Seq(Nat), NEW h \in Header, NEW g \in Header, Owns(b, h),
         g.id = h.id, g.cind >= h.cind, g.cind + g.len <= h.cind + h.len
  PROVE  Owns(b, g)
<1>1. /\ h.len \in Nat /\ h.cind \in Nat /\ g.len \in Nat /\ g.cind \in Nat /\ Len(b) \in Nat
  BY DEF Header
<1>2. h.cind + h.len <= Len(b) /\ \A k \in 1 .. h.len : b[h.cind + k] = h.id
  BY DEF Owns
<1>3. ASSUME NEW k \in 1 .. g.len PROVE b[g.cind + k] = g.id
  <2>1. g.cind - h.cind + k \in 1 .. h.len
    BY <1>1
  <2>2. b[h.cind + (g.cind - h.cind + k)] = h.id
    BY <1>2, <2>1
  <2>3. h.cind + (g.cind - h.cind + k) = g.cind + k
    BY <1>1
  <2> QED BY <2>2, <2>3
<1> QED BY <1>1, <1>2, <1>3, SMTT(60) DEF Owns

LEMMA SlicesStep ==
  ASSUME SaInv, Next
  PROVE  SlicesOwned'
<1>1. TypeOK /\ SlicesOwned
  BY DEF SaInv
<1>2. /\ headx \in Seq(Header) /\ Len(headx) \in Nat /\ DOMAIN headx = 1 .. Len(headx)
      /\ cbuf1 \in Seq(Nat) /\ cbuf2 \in Seq(Nat) /\ ind \in Nat
      /\ \A n \in 1 .. Len(headx) : headx[n] \in Header
  BY <1>1, Types DEF TypeOK
<1>3. CASE PhraseKept
  BY <1>1, <1>3 DEF PhraseKept, SlicesOwned, InCbuf1
<1>4. CASE WordDone
  BY <1>1, <1>4 DEF WordDone, SlicesOwned, InCbuf1
<1>5. CASE Emptied
  BY <1>5 DEF Emptied, SlicesOwned
<1>6. CASE CollectItem
  <2>1. PICK h \in Headers(Head(cbIn)) :
          headx' = Append(headx, [id |-> Head(cbIn).id, kind |-> h.kind, len |-> h.len,
                                  cind |-> IF Head(cbIn).len > 0 THEN Len(cbuf1) ELSE 0])
    BY <1>6 DEF CollectItem
  <2> DEFINE it == Head(cbIn)
             g == [id |-> it.id, kind |-> h.kind, len |-> h.len,
                   cind |-> IF it.len > 0 THEN Len(cbuf1) ELSE 0]
  <2>2. it \in Arrived
    BY <1>1, <1>6, Types DEF CollectItem
  <2>3. it.id \in Nat /\ it.len \in Nat /\ Len(cbuf1) \in Nat
    BY <1>2, <2>2 DEF Arrived
  <2>4. h.len \in Nat /\ h.len <= it.len
    BY <2>1, <2>2, HeadersFacts
  <2>5. /\ g.id = it.id /\ g.len = h.len /\ g.cind = IF it.len > 0 THEN Len(cbuf1) ELSE 0
    OBVIOUS
  <2>6. headx' = Append(headx, g) /\ cbuf1' = cbuf1 \o Bytes(it.id, it.len)
    BY <1>6, <2>1 DEF CollectItem
  <2> HIDE DEF g, it
  <2>7. /\ Bytes(it.id, it.len) \in Seq(Nat) /\ Len(Bytes(it.id, it.len)) = it.len
        /\ \A k \in 1 .. it.len : Bytes(it.id, it.len)[k] = it.id
    BY <2>3, BytesFacts
  <2>8. /\ cbuf1' \in Seq(Nat) /\ Len(cbuf1') = Len(cbuf1) + it.len
        /\ \A j \in 1 .. Len(cbuf1) : cbuf1'[j] = cbuf1[j]
        /\ \A j \in 1 .. it.len : cbuf1'[Len(cbuf1) + j] = it.id
    <3> DEFINE t == Bytes(it.id, it.len)
    <3>1. t \in Seq(Nat) /\ Len(t) = it.len /\ cbuf1 \in Seq(Nat)
      BY <1>2, <2>7
    <3> HIDE DEF t
    <3>2. /\ cbuf1 \o t \in Seq(Nat) /\ Len(cbuf1 \o t) = Len(cbuf1) + Len(t)
          /\ \A j \in 1 .. Len(cbuf1) : (cbuf1 \o t)[j] = cbuf1[j]
          /\ \A j \in 1 .. Len(t) : (cbuf1 \o t)[Len(cbuf1) + j] = t[j]
      <4>1. cbuf1 \in Seq(Nat) /\ t \in Seq(Nat)
        BY <3>1
      <4> QED BY <4>1, ConcatFacts
    <3>3. cbuf1' = cbuf1 \o t /\ \A k \in 1 .. it.len : t[k] = it.id
      BY <2>6, <2>7 DEF t
    <3> QED BY <3>1, <3>2, <3>3
  <2>9. Owns(cbuf1', g)
    <3>1. CASE it.len > 0
      BY <2>3, <2>4, <2>5, <2>8, <3>1 DEF Owns
    <3>2. CASE it.len = 0
      BY <2>3, <2>4, <2>5, <2>8, <3>2 DEF Owns
    <3> QED BY <2>3, <3>1, <3>2
  <2>10. procState = "COLLECT" /\ procState' = "COLLECT"
    BY <1>6 DEF CollectItem, Running
  <2>11. \A n \in 1 .. Len(headx) : Owns(cbuf1, headx[n])
    BY <1>1, <1>2, <2>10 DEF SlicesOwned, InCbuf1
  <2>12. \A n \in 1 .. Len(headx) : Owns(cbuf1', headx[n])
    <3>1. Len(cbuf1) <= Len(cbuf1')
      BY <2>3, <2>8
    <3> QED BY <1>2, <2>8, <2>11, <3>1, OwnsGrown
  <2>13. \A n \in DOMAIN headx' : Owns(cbuf1', headx'[n])
    <3>1. DOMAIN headx' = 1 .. Len(headx) + 1 /\ headx'[Len(headx) + 1] = g
          /\ \A n \in 1 .. Len(headx) : headx'[n] = headx[n]
      BY <1>2, <2>6
    <3> QED BY <1>2, <2>9, <2>12, <3>1
  <2>14. \A n \in DOMAIN headx' : InCbuf1(n)'
    BY <2>10 DEF InCbuf1
  <2> QED BY <2>13, <2>14 DEF SlicesOwned
<1>7. CASE CollectForced
  <2>1. /\ procState = "COLLECT" /\ procState' = "POSD" /\ cbuf1' = cbuf1
        /\ headx' = Append(headx, [id |-> Forced, kind |-> "PUNC", len |-> 0, cind |-> 0])
    BY <1>7 DEF CollectForced, Running
  <2>2. \A n \in 1 .. Len(headx) : Owns(cbuf1, headx[n])
    BY <1>1, <1>2, <2>1 DEF SlicesOwned, InCbuf1
  <2>3. Owns(cbuf1, [id |-> Forced, kind |-> "PUNC", len |-> 0, cind |-> 0])
    BY <1>2 DEF Owns
  <2>4. \A n \in DOMAIN headx' : Owns(cbuf1', headx'[n])
    <3>1. /\ DOMAIN headx' = 1 .. Len(headx) + 1
          /\ headx'[Len(headx) + 1] = [id |-> Forced, kind |-> "PUNC", len |-> 0, cind |-> 0]
          /\ \A n \in 1 .. Len(headx) : headx'[n] = headx[n]
      BY <1>2, <2>1
    <3> QED BY <1>2, <2>1, <2>2, <2>3, <3>1
  <2>5. \A n \in DOMAIN headx' : InCbuf1(n)'
    BY <2>1 DEF InCbuf1
  <2> QED BY <2>4, <2>5 DEF SlicesOwned
<1>8. CASE CollectPhrase \/ PosdDone
  <2>1. /\ procState \in {"COLLECT", "POSD"}
        /\ procState' = "POSD" \/ (procState' = "WPHO" /\ ind' = 1)
        /\ headx' = headx /\ cbuf1' = cbuf1
    BY <1>8 DEF CollectPhrase, PosdDone, Running, phraseVars
  <2>2. \A n \in 1 .. Len(headx) : Owns(cbuf1, headx[n])
    BY <1>1, <1>2, <2>1 DEF SlicesOwned, InCbuf1
  <2>3. \A n \in 1 .. Len(headx) : InCbuf1(n)'
    BY <2>1 DEF InCbuf1
  <2> QED BY <1>2, <2>1, <2>2, <2>3 DEF SlicesOwned
<1>9. CASE Posd
  <2>1. procState = "POSD" /\ procState' = "POSD" /\ cbuf1' = cbuf1
    BY <1>9 DEF Posd, Running
  <2>2. \A n \in 1 .. Len(headx) : Owns(cbuf1, headx[n])
    BY <1>1, <1>2, <2>1 DEF SlicesOwned, InCbuf1
  <2>3. /\ ind \in 1 .. Len(headx) /\ headx' \in Seq(Header) /\ Len(headx') = Len(headx)
        /\ \A n \in 1 .. Len(headx) : n # ind => headx'[n] = headx[n]
        /\ headx'[ind].id = headx[ind].id
        /\ headx'[ind].cind >= headx[ind].cind
        /\ headx'[ind].cind + headx'[ind].len <= headx[ind].cind + headx[ind].len
    BY <1>1, <1>9, PosdFacts
  <2>4. Owns(cbuf1, headx'[ind])
    <3>1. headx'[ind] \in Header /\ headx[ind] \in Header /\ Owns(cbuf1, headx[ind])
      BY <1>2, <2>2, <2>3
    <3> QED BY <1>2, <2>3, <3>1, OwnsPart
  <2>5. \A n \in 1 .. Len(headx) : Owns(cbuf1', headx'[n])
    BY <2>1, <2>2, <2>3, <2>4
  <2>6. DOMAIN headx' = 1 .. Len(headx) /\ \A n \in 1 .. Len(headx) : InCbuf1(n)'
    BY <1>2, <2>1, <2>3 DEF InCbuf1
  <2> QED BY <2>5, <2>6 DEF SlicesOwned
<1>10. CASE Wpho
  <2>1. procState = "WPHO" /\ procState' = "WPHO" /\ cbuf1' = cbuf1 /\ ind' = ind + 1
    BY <1>10 DEF Wpho, Running
  <2>2. /\ ind \in 1 .. Len(headx) /\ headx' \in Seq(Header) /\ Len(headx') = Len(headx)
        /\ cbuf2' \in Seq(Nat) /\ Len(cbuf2) <= Len(cbuf2')
        /\ \A j \in 1 .. Len(cbuf2) : cbuf2'[j] = cbuf2[j]
        /\ \A n \in 1 .. Len(headx) : n # ind => headx'[n] = headx[n]
        /\ Owns(cbuf1, headx[ind]) => Owns(cbuf2', headx'[ind]) \/ IsWord(headx'[ind])
    <3>1. Len(cbuf2') >= Len(cbuf2) /\ cbuf2' \in Seq(Nat)
      BY <1>1, <1>10, WphoFacts
    <3>2. Len(cbuf2) \in Nat /\ Len(cbuf2') \in Nat
      BY <1>2, <3>1
    <3>3. Len(cbuf2) <= Len(cbuf2')
      BY <3>1, <3>2
    <3> QED BY <1>1, <1>10, <3>3, WphoFacts
  <2>3. \A n \in 1 .. Len(headx) :
          IF n >= ind THEN Owns(cbuf1, headx[n]) ELSE Owns(cbuf2, headx[n]) \/ IsWord(headx[n])
    BY <1>1, <1>2, <2>1 DEF SlicesOwned, InCbuf1
  <2>4. ASSUME NEW n \in 1 .. Len(headx)
        PROVE  IF n >= ind + 1 THEN Owns(cbuf1, headx'[n])
                               ELSE Owns(cbuf2', headx'[n]) \/ IsWord(headx'[n])
    <3>1. CASE n >= ind + 1
      <4>1. n # ind /\ n >= ind
        BY <1>2, <3>1
      <4> QED BY <2>2, <2>3, <3>1, <4>1
    <3>2. CASE n = ind
      <4>1. Owns(cbuf1, headx[ind]) /\ ~(n >= ind + 1)
        BY <1>2, <2>3, <3>2
      <4> QED BY <2>2, <3>2, <4>1
    <3>3. CASE n < ind
      <4>1. n # ind /\ ~(n >= ind) /\ ~(n >= ind + 1)
        BY <1>2, <3>3
      <4>2. Owns(cbuf2, headx[n]) \/ IsWord(headx[n])
        BY <2>3, <4>1
      <4>3. Owns(cbuf2, headx[n]) => Owns(cbuf2', headx[n])
        BY <1>2, <2>2, OwnsGrown
      <4> QED BY <2>2, <4>1, <4>2, <4>3
    <3> QED BY <1>2, <3>1, <3>2, <3>3
  <2>5. DOMAIN headx' = 1 .. Len(headx)
    BY <1>2, <2>2
  <2>6. \A n \in 1 .. Len(headx) : InCbuf1(n)' <=> n >= ind + 1
    BY <2>1 DEF InCbuf1
  <2> QED BY <2>1, <2>4, <2>5, <2>6 DEF SlicesOwned
<1>11. CASE WphoDone
  <2>1. /\ procState = "WPHO" /\ procState' = "PARSE" /\ ind > Len(headx)
        /\ headx' = headx /\ cbuf2' = cbuf2
    BY <1>11 DEF WphoDone, Running
  <2>2. \A n \in 1 .. Len(headx) : ~(n >= ind)
    BY <1>2, <2>1
  <2>3. \A n \in 1 .. Len(headx) : Owns(cbuf2, headx[n]) \/ IsWord(headx[n])
    BY <1>1, <1>2, <2>1, <2>2 DEF SlicesOwned, InCbuf1
  <2>4. \A n \in 1 .. Len(headx) : ~InCbuf1(n)'
    BY <2>1 DEF InCbuf1
  <2> QED BY <1>2, <2>1, <2>3, <2>4 DEF SlicesOwned
<1>12. CASE Parse
  <2>1. /\ procState = "PARSE" /\ procState' \in {"FST", "FEED"} /\ headx # << >>
        /\ headx' = Tail(headx) /\ cbuf2' = cbuf2
    BY <1>12 DEF Parse, Running
  <2>2. \A n \in 1 .. Len(headx) : Owns(cbuf2, headx[n]) \/ IsWord(headx[n])
    BY <1>1, <1>2, <2>1 DEF SlicesOwned, InCbuf1
  <2>3. /\ DOMAIN headx' = 1 .. Len(headx) - 1
        /\ \A n \in 1 .. Len(headx) - 1 : headx'[n] = headx[n + 1] /\ n + 1 \in 1 .. Len(headx)
    BY <1>2, <2>1
  <2>4. \A n \in DOMAIN headx' : Owns(cbuf2', headx'[n]) \/ IsWord(headx'[n])
    BY <2>1, <2>2, <2>3
  <2>5. \A n \in DOMAIN headx' : ~InCbuf1(n)'
    BY <2>1 DEF InCbuf1
  <2> QED BY <2>4, <2>5 DEF SlicesOwned
<1> QED
  BY <1>3, <1>4, <1>5, <1>6, <1>7, <1>8, <1>9, <1>10, <1>11, <1>12, NextCases

-----------------------------------------------------------------------------
LEMMA InvStep == SaInv /\ [Next]_saVars => SaInv'
<1> SUFFICES ASSUME SaInv, [Next]_saVars PROVE SaInv'
  OBVIOUS
<1>1. CASE Next
  BY <1>1, TypedStep, SpareStep, PhraseStep, SlicesStep DEF SaInv
<1>2. CASE UNCHANGED saVars
  BY <1>2 DEF SaInv, saVars, ctrlVars, phraseVars, wordVars, TypeOK, SpareSlot, OnePhrase,
              SlicesOwned, InCbuf1
<1> QED BY <1>1, <1>2

THEOREM SaInvariant == Spec => []SaInv
BY InitInv, InvStep, PTL DEF Spec

\* The phrase fits its slots and the content its buffers, for all sizes: the
\* slot that COLLECT keeps spare is always there when a PUNC is forced.
THEOREM SaTyped == Spec => []TypeOK
<1>1. SaInv => TypeOK
  BY DEF SaInv
<1> QED BY <1>1, SaInvariant, PTL

\* No header ever points at the content of another item (saDisambPos and the
\* three ways from cbuf1 to cbuf2).
THEOREM SaOwned == Spec => []SlicesOwned
<1>1. SaInv => SlicesOwned
  BY DEF SaInv
<1> QED BY <1>1, SaInvariant, PTL

\* POSD and WPHO never run without a phrase, and every phrase ends with its only
\* PUNC (saStep, COLLECT).
THEOREM SaOnePhrase == Spec => []OnePhrase
<1>1. SaInv => OnePhrase
  BY DEF SaInv
<1> QED BY <1>1, SaInvariant, PTL

-----------------------------------------------------------------------------
(* The items pass through in order.                                         *)
LEMMA IdsFacts ==
  ASSUME NEW S, NEW s \in Seq(S)
  PROVE  /\ Ids(s) = << >> <=> s = << >>
         /\ Len(Ids(s)) = Len(s)
         /\ \A x : Ids(Append(s, x)) = Append(Ids(s), x.id)
         /\ s # << >> => Head(Ids(s)) = Head(s).id /\ Ids(Tail(s)) = Tail(Ids(s))
<1>1. Len(s) \in Nat /\ DOMAIN s = 1 .. Len(s) /\ DOMAIN Ids(s) = 1 .. Len(s)
  BY DEF Ids
<1>2. Ids(s) \in Seq({s[n].id : n \in 1 .. Len(s)}) /\ Len(Ids(s)) = Len(s)
  BY <1>1 DEF Ids
<1>3. Ids(s) = << >> <=> s = << >>
  BY <1>1, <1>2
<1>4. ASSUME NEW x PROVE Ids(Append(s, x)) = Append(Ids(s), x.id)
  BY <1>1, <1>2 DEF Ids
<1>5. ASSUME s # << >> PROVE Head(Ids(s)) = Head(s).id /\ Ids(Tail(s)) = Tail(Ids(s))
  BY <1>1, <1>2, <1>5 DEF Ids
<1> QED BY <1>2, <1>3, <1>4, <1>5

LEMMA HeldFacts ==
  ASSUME NEW S, NEW s \in Seq(S), NEW a \in S
  PROVE  /\ << >> \o s = s
         /\ << a >> \o s # << >> /\ Head(<< a >> \o s) = a /\ Tail(<< a >> \o s) = s
         /\ s # << >> => << Head(s) >> \o Tail(s) = s
OBVIOUS

\* The ids of a sequence of records are a sequence of numbers.
LEMMA IdsTyped ==
  ASSUME TypeOK
  PROVE  Ids(headx) \in Seq(Nat) /\ tmpbuf.id \in Nat /\ Ids(cbOut) \in Seq(Nat)
<1>1. headx \in Seq(Header) /\ tmpbuf.id \in Nat /\ cbOut \in Seq(Ready)
  BY DEF TypeOK, Ready
<1>2. \A n \in 1 .. Len(headx) : headx[n].id \in Nat
  <2>1. \A n \in 1 .. Len(headx) : headx[n] \in Header
    BY <1>1
  <2> QED BY <2>1 DEF Header
<1>3. \A n \in 1 .. Len(cbOut) : cbOut[n].id \in Nat
  <2>1. \A n \in 1 .. Len(cbOut) : cbOut[n] \in Ready
    BY <1>1
  <2> QED BY <2>1 DEF Ready
<1>4. Ids(headx) \in Seq(Nat)
  BY <1>1, <1>2 DEF Ids
<1>5. Ids(cbOut) \in Seq(Nat)
  BY <1>1, <1>3 DEF Ids
<1> QED BY <1>1, <1>4, <1>5

LEMMA AppendIsConcat ==
  ASSUME NEW S, NEW s \in Seq(S), NEW x \in S
  PROVE  s \o Append(<< >>, x) = Append(s, x)
<1>1. Append(<< >>, x) = << x >>
  OBVIOUS
<1> QED BY <1>1

\* What is fetched, forced or left is one step of the pipe; the phases between
\* move nothing.
LEMMA PipeStep ==
  ASSUME SaInv, TypeOK', Next
  PROVE  [P!Next]_(P!pipeVars)
<1> DEFINE in == Ids(cbIn)
           held == Pending \o Ids(headx)
           out == Ids(cbOut)
           failed == (status = "ERROR")
<1>1. /\ TypeOK /\ cbIn \in Seq(Arrived) /\ cbOut \in Seq(Ready) /\ headx \in Seq(Header)
      /\ Ids(headx) \in Seq(Nat) /\ tmpbuf.id \in Nat /\ Ids(cbOut) \in Seq(Nat)
  BY IdsTyped DEF SaInv, TypeOK
<1>2. Ids(headx)' \in Seq(Nat) /\ tmpbuf'.id \in Nat /\ headx' \in Seq(Header)
  <2>1. headx' \in Seq(Header) /\ tmpbuf' \in Ready
    BY DEF TypeOK
  <2>2. \A n \in 1 .. Len(headx') : headx'[n] \in Header
    BY <2>1
  <2>3. \A n \in 1 .. Len(headx') : headx'[n].id \in Nat
    BY <2>2 DEF Header
  <2> QED BY <2>1, <2>3 DEF Ids, Ready
<1> USE DEF Running, Return, GoOn
<1>E. << >> \o Ids(headx) = Ids(headx) /\ << >> \o Ids(headx)' = Ids(headx)'
  BY <1>1, <1>2, HeldFacts
\* Nothing moves, and no call fails.
<1>S. ASSUME in' = in, held' = held, out' = out, failed' = FALSE \/ failed' = failed
      PROVE  [P!Next]_(P!pipeVars)
  BY <1>S DEF P!Next, P!Begin, P!pipeVars
<1>3. CASE Call \/ CollectPhrase \/ CollectIdle \/ PosdDone \/ WphoDone \/ Fst \/ FstDone
  <2>1. /\ cbIn' = cbIn /\ cbOut' = cbOut /\ headx' = headx /\ tmpbuf' = tmpbuf
        /\ procState' \in {"FST", "FEED"} <=> procState \in {"FST", "FEED"}
        /\ status' # "ERROR"
    BY <1>3 DEF Call, CollectPhrase, CollectIdle, PosdDone, WphoDone, Fst, FstDone, phraseVars,
                wordVars
  <2> QED BY <2>1, <1>S DEF Ids, Pending
<1>4. CASE Posd \/ Wpho
  <2>1. /\ cbIn' = cbIn /\ cbOut' = cbOut /\ procState' = procState /\ status' = status
        /\ tmpbuf' = tmpbuf
    BY <1>4 DEF Posd, Wpho, wordVars
  <2>2. /\ Len(headx') = Len(headx)
        /\ \A n \in 1 .. Len(headx) : headx'[n].id = headx[n].id
    BY <1>1, <1>4, PosdFacts, WphoFacts
  <2>3. Ids(headx)' = Ids(headx)
    <3>1. DOMAIN headx' = DOMAIN headx /\ DOMAIN headx = 1 .. Len(headx)
      BY <1>1, <1>2, <2>2
    <3> QED BY <2>2, <3>1 DEF Ids
  <2> QED BY <2>1, <2>3, <1>S DEF Pending
<1>5. CASE FeedFull
  <2>1. /\ cbIn' = cbIn /\ cbOut' = cbOut /\ headx' = headx /\ procState' = procState
        /\ status' # "ERROR" /\ tmpbuf' = Transduced
    BY <1>5 DEF FeedFull, phraseVars
  <2>2. tmpbuf'.id = tmpbuf.id
    BY <1>1, <2>1, TransducedFacts
  <2> QED BY <2>1, <2>2, <1>S DEF Ids, Pending
<1>6. CASE ParseDone
  <2>1. /\ cbIn' = cbIn /\ cbOut' = cbOut /\ headx' = headx /\ procState = "PARSE"
        /\ procState' = "COLLECT" /\ status' # "ERROR"
    BY <1>6 DEF ParseDone
  <2> QED BY <2>1, <1>S DEF Ids, Pending
<1>7. CASE Parse
  <2>1. /\ cbIn' = cbIn /\ cbOut' = cbOut /\ procState = "PARSE" /\ headx # << >>
        /\ procState' \in {"FST", "FEED"} /\ status' = status
        /\ headx' = Tail(headx) /\ tmpbuf'.id = Head(headx).id
    BY <1>7 DEF Parse
  <2>2. Pending = << >> /\ Pending' = << tmpbuf'.id >>
    BY <2>1 DEF Pending
  <2>3. /\ Ids(headx) # << >> /\ Head(Ids(headx)) = Head(headx).id
        /\ Ids(Tail(headx)) = Tail(Ids(headx))
    BY <1>1, <2>1, IdsFacts
  <2>4. << Head(Ids(headx)) >> \o Tail(Ids(headx)) = Ids(headx)
    BY <1>1, <2>3, HeldFacts
  <2>5. Ids(headx)' = Ids(Tail(headx))
    BY <2>1 DEF Ids
  <2>6. held' = held
    BY <1>E, <2>1, <2>2, <2>3, <2>4, <2>5
  <2> QED BY <2>1, <2>6, <1>S DEF Ids
<1>8. CASE CollectItem
  <2>1. /\ cbIn # << >> /\ cbIn' = Tail(cbIn) /\ cbOut' = cbOut /\ status' = status
        /\ procState = "COLLECT" /\ procState' = "COLLECT"
    BY <1>8 DEF CollectItem
  <2>2. PICK h : headx' = Append(headx, h) /\ h.id = Head(cbIn).id
    <3>1. PICK h \in Headers(Head(cbIn)) :
            headx' = Append(headx, [id |-> Head(cbIn).id, kind |-> h.kind, len |-> h.len,
                                    cind |-> IF Head(cbIn).len > 0 THEN Len(cbuf1) ELSE 0])
      BY <1>8 DEF CollectItem
    <3> DEFINE g == [id |-> Head(cbIn).id, kind |-> h.kind, len |-> h.len,
                     cind |-> IF Head(cbIn).len > 0 THEN Len(cbuf1) ELSE 0]
    <3>2. headx' = Append(headx, g) /\ g.id = Head(cbIn).id
      BY <3>1
    <3> QED BY <3>2
  <2>3. in # << >> /\ Head(in) = Head(cbIn).id /\ Ids(Tail(cbIn)) = Tail(in)
    BY <1>1, <2>1, IdsFacts
  <2>4. Ids(Append(headx, h)) = Append(Ids(headx), h.id)
    BY <1>1, IdsFacts
  <2>5. in' = Tail(in) /\ out' = out /\ failed' = failed
    BY <2>1, <2>3 DEF Ids
  <2>6. held' = Append(held, Head(in))
    <3>1. held = Ids(headx) /\ held' = Ids(headx)'
      BY <1>E, <2>1 DEF Pending
    <3>2. Ids(headx)' = Ids(Append(headx, h))
      BY <2>2 DEF Ids
    <3> QED BY <2>2, <2>3, <2>4, <3>1, <3>2
  <2>7. P!Accept
    BY <2>3, <2>5, <2>6 DEF P!Accept
  <2> QED BY <2>7 DEF P!Next
<1>9. CASE CollectError
  <2>1. /\ cbIn # << >> /\ cbIn' = Tail(cbIn) /\ cbOut' = cbOut /\ status' = "ERROR"
        /\ procState' = procState /\ headx' = headx /\ tmpbuf' = tmpbuf
    BY <1>9 DEF CollectError, phraseVars, wordVars
  <2>2. in # << >> /\ Ids(Tail(cbIn)) = Tail(in)
    BY <1>1, <2>1, IdsFacts
  <2>3. in' = Tail(in) /\ out' = out /\ held' = held /\ failed' = TRUE
    BY <2>1, <2>2 DEF Ids, Pending
  <2>4. P!Refuse
    BY <2>2, <2>3 DEF P!Refuse
  <2> QED BY <2>4 DEF P!Next
<1>10. CASE CollectForced
  <2> DEFINE g == [id |-> Forced, kind |-> "PUNC", len |-> 0, cind |-> 0]
  <2>1. /\ cbIn' = cbIn /\ cbOut' = cbOut /\ status # "ERROR" /\ status' # "ERROR"
        /\ procState = "COLLECT" /\ procState' = "POSD" /\ headx' = Append(headx, g)
    BY <1>10 DEF CollectForced
  <2>2. Ids(Append(headx, g)) = Append(Ids(headx), g.id) /\ g.id = Forced
    BY <1>1, IdsFacts
  <2> HIDE DEF g
  <2>3. held = Ids(headx) /\ held' = Ids(headx)'
    BY <1>E, <2>1 DEF Pending
  <2>4. Ids(headx)' = Ids(Append(headx, g))
    BY <2>1 DEF Ids
  <2>5. held' = Append(held, Forced)
    BY <2>2, <2>3, <2>4
  <2>6. in' = in /\ out' = out /\ failed' = failed
    BY <2>1 DEF Ids
  <2>7. P!Make(Forced)
    BY <2>5, <2>6 DEF P!Make
  <2> QED BY <2>7 DEF P!Next
<1>11. CASE Feed
  <2>1. /\ cbIn' = cbIn /\ cbOut' = Append(cbOut, Transduced) /\ status' = status
        /\ procState = "FEED" /\ procState' = "PARSE" /\ headx' = headx
    BY <1>11 DEF Feed, phraseVars
  <2>2. Transduced.id = tmpbuf.id
    BY <1>1, TransducedFacts
  <2>3. Ids(Append(cbOut, Transduced)) = Append(Ids(cbOut), Transduced.id)
    BY <1>1, IdsFacts
  <2>4. held = << tmpbuf.id >> \o Ids(headx) /\ held' = Ids(headx)
    <3>1. Ids(headx)' = Ids(headx)
      BY <2>1 DEF Ids
    <3> QED BY <1>E, <2>1, <3>1 DEF Pending
  <2>5. held # << >> /\ Head(held) = tmpbuf.id /\ Tail(held) = Ids(headx)
    <3>1. Ids(headx) \in Seq(Nat) /\ tmpbuf.id \in Nat
      BY <1>1
    <3>2. LET s == << tmpbuf.id >> \o Ids(headx)
          IN s # << >> /\ Head(s) = tmpbuf.id /\ Tail(s) = Ids(headx)
      BY <3>1, HeldFacts
    <3> QED BY <2>4, <3>2
  <2>6. out' = Append(out, Head(held))
    <3>1. out' = Ids(Append(cbOut, Transduced))
      BY <2>1 DEF Ids
    <3> QED BY <2>2, <2>3, <2>5, <3>1
  <2>7. in' = in /\ failed' = failed /\ held' = Tail(held)
    BY <2>1, <2>4, <2>5 DEF Ids
  <2>8. out' = out \o Append(<< >>, Head(held))
    <3>1. out \in Seq(Nat) /\ Head(held) \in Nat
      BY <1>1, <2>5
    <3> HIDE DEF out, held
    <3> QED BY <2>6, <3>1, AppendIsConcat
  <2>9. P!Deliver(<< >>)
    BY <2>5, <2>7, <2>8 DEF P!Deliver
  <2> QED BY <2>9 DEF P!Next
<1>12. CASE \E x \in Inputs : Arrive(x)
  <2>1. PICK x \in Inputs : Arrive(x)
    BY <1>12
  <2> DEFINE g == [id |-> fed + 1, kind |-> x.kind, len |-> x.len]
  <2>2. /\ cbIn' = Append(cbIn, g) /\ cbOut' = cbOut /\ status' = status
        /\ procState' = procState /\ headx' = headx /\ tmpbuf' = tmpbuf /\ fed < MaxItems
    BY <2>1 DEF Arrive, ctrlVars, phraseVars, wordVars
  <2>3. Ids(Append(cbIn, g)) = Append(Ids(cbIn), g.id) /\ g.id = fed + 1
    BY <1>1, IdsFacts
  <2> HIDE DEF g
  <2>4. in' = Append(in, fed + 1)
    <3>1. in' = Ids(Append(cbIn, g))
      BY <2>2 DEF Ids
    <3> QED BY <2>3, <3>1
  <2>5. held' = held /\ out' = out /\ failed' = failed
    BY <2>2 DEF Ids, Pending
  <2>6. fed + 1 \in 1 .. MaxItems
    BY <1>1, <2>2, SaAssumption DEF TypeOK
  <2>7. P!Arrive(fed + 1)
    BY <2>4, <2>5 DEF P!Arrive
  <2> QED BY <2>6, <2>7 DEF P!Next
<1>13. CASE Leave
  <2>1. /\ cbIn' = cbIn /\ cbOut # << >> /\ cbOut' = Tail(cbOut) /\ status' = status
        /\ procState' = procState /\ headx' = headx /\ tmpbuf' = tmpbuf
    BY <1>13 DEF Leave, ctrlVars, phraseVars, wordVars
  <2>2. out # << >> /\ Ids(Tail(cbOut)) = Tail(out)
    BY <1>1, <2>1, IdsFacts
  <2>3. out' = Tail(out) /\ in' = in /\ held' = held /\ failed' = failed
    BY <2>1, <2>2 DEF Ids, Pending
  <2>4. P!Leave
    BY <2>2, <2>3 DEF P!Leave
  <2> QED BY <2>4 DEF P!Next
<1>14. CASE \E mode \in ResetModes : Reset(mode)
  <2>1. PICK mode \in ResetModes : Reset(mode)
    BY <1>14
  <2>2. /\ cbIn' = << >> /\ cbOut' = << >> /\ headx' = << >> /\ procState' = "COLLECT"
        /\ status' = status
    BY <2>1 DEF Reset
  <2>3. in' = << >> /\ out' = << >> /\ held' = << >> /\ failed' = failed
    BY <2>2, <1>E DEF Ids, Pending
  <2>4. P!Clear
    BY <2>3 DEF P!Clear
  <2> QED BY <2>4 DEF P!Next
<1> QED
  BY <1>3, <1>4, <1>5, <1>6, <1>7, <1>8, <1>9, <1>10, <1>11, <1>12, <1>13, <1>14 DEF Next, Step

\* No item is lost, doubled or overtaken on its way through the phases, but by
\* a call that answers with an error or by a reset (picosa.c as a whole).
THEOREM SaRefinesPipe == Spec => RefinesPipe
<1>1. Init => P!Init
  BY DEF Init, P!Init, Ids, Pending
<1>2. SaInv /\ SaInv' /\ [Next]_saVars => [P!Next]_(P!pipeVars)
  <2> SUFFICES ASSUME SaInv, SaInv', [Next]_saVars PROVE [P!Next]_(P!pipeVars)
    OBVIOUS
  <2>1. CASE Next
    BY <2>1, PipeStep DEF SaInv
  <2>2. CASE UNCHANGED saVars
    BY <2>2 DEF saVars, ctrlVars, phraseVars, wordVars, P!pipeVars, Ids, Pending
  <2> QED BY <2>1, <2>2
<1> QED
  BY <1>1, <1>2, SaInvariant, PTL DEF Spec, RefinesPipe, P!Spec

-----------------------------------------------------------------------------
(* The transducers, when no reset is soft.                                  *)
UpToFst(n) == [k \in 1 .. n |-> k - 1]
WellDone(item) == Transducible(item.kind, Len(item.body)) => item.fsts = UpToFst(NumFsts)

\* Between words the loop over the transducers stands at the first; within a word
\* it has run the ones before curFst. What waits in FEED is done.
TransducersInv ==
  /\ procState # "FST" => curFst = 0
  /\ procState \notin {"FST", "FEED"} => ~phonesTransduced
  /\ procState = "FST" => fsts = UpToFst(curFst)
  /\ procState = "FEED" => WellDone(Transduced)
  /\ \A n \in DOMAIN cbOut : WellDone(cbOut[n])

LEMMA ItemAdded ==
  ASSUME NEW S, NEW s \in Seq(S), NEW e \in S
  PROVE  /\ DOMAIN Append(s, e) = 1 .. Len(s) + 1 /\ DOMAIN s = 1 .. Len(s) /\ Len(s) \in Nat
         /\ Append(s, e)[Len(s) + 1] = e
         /\ \A n \in 1 .. Len(s) : Append(s, e)[n] = s[n]
OBVIOUS

LEMMA ItemTaken ==
  ASSUME NEW S, NEW s \in Seq(S), s # << >>
  PROVE  /\ DOMAIN s = 1 .. Len(s) /\ DOMAIN Tail(s) = 1 .. Len(s) - 1 /\ Len(s) \in Nat
         /\ \A n \in 1 .. Len(s) - 1 : Tail(s)[n] = s[n + 1]
OBVIOUS

LEMMA OneMoreFst ==
  ASSUME NEW n \in Nat
  PROVE  Append(UpToFst(n), n) = UpToFst(n + 1)
<1>1. UpToFst(n) \in Seq(Int) /\ Len(UpToFst(n)) = n
  BY DEF UpToFst
<1>2. UpToFst(n + 1) \in Seq(Int) /\ Len(UpToFst(n + 1)) = n + 1
  BY DEF UpToFst
<1>3. Append(UpToFst(n), n) \in Seq(Int) /\ Len(Append(UpToFst(n), n)) = n + 1
  BY <1>1
<1>4. ASSUME NEW k \in 1 .. n + 1 PROVE Append(UpToFst(n), n)[k] = UpToFst(n + 1)[k]
  <2>1. UpToFst(n + 1)[k] = k - 1
    BY DEF UpToFst
  <2>2. CASE k = n + 1
    BY <1>1, <2>1, <2>2
  <2>3. CASE k # n + 1
    <3>1. k \in 1 .. n
      BY <2>3
    <3>2. UpToFst(n)[k] = k - 1
      BY <3>1 DEF UpToFst
    <3> QED  BY <1>1, <2>1, <3>1, <3>2
  <2> QED  BY <2>2, <2>3
<1> HIDE DEF UpToFst
<1> QED  BY <1>2, <1>3, <1>4

LEMMA TransducersStep ==
  ASSUME SaInv, TransducersInv, [Next]_saVars, "soft" \notin ResetModes
  PROVE  TransducersInv'
<1> USE DEF TransducersInv, ctrlVars, phraseVars, wordVars, Running
<1>0. TypeOK /\ NumFsts \in Nat
  BY SaAssumption DEF SaInv
\* Steps that change neither a word nor the output.
<1>1. ASSUME UNCHANGED << cbOut, tmpbuf, phonesTransduced, curFst, fsts >>,
             procState' = procState \/ {procState, procState'} \cap {"FST", "FEED"} = {}
      PROVE  TransducersInv'
  BY <1>1 DEF Transduced
<1>2. CASE CollectItem \/ CollectError \/ CollectPhrase \/ CollectForced \/ CollectIdle
  BY <1>1, <1>2 DEF CollectItem, CollectError, CollectPhrase, CollectForced, CollectIdle
<1>3. CASE Posd \/ PosdDone \/ Wpho \/ WphoDone \/ ParseDone \/ Call
  BY <1>1, <1>3 DEF Posd, PosdDone, Wpho, WphoDone, ParseDone, Call
<1>4. CASE (\E in \in Inputs : Arrive(in)) \/ UNCHANGED saVars
  BY <1>1, <1>4 DEF Arrive, saVars
<1>5. CASE Leave
  <2>1. /\ cbOut # << >> /\ cbOut' = Tail(cbOut)
        /\ UNCHANGED << procState, tmpbuf, phonesTransduced, curFst, fsts >>
    BY <1>5 DEF Leave
  <2>2. \A n \in DOMAIN cbOut' : WellDone(cbOut'[n])
    <3>1. \A n \in DOMAIN cbOut' : n + 1 \in DOMAIN cbOut /\ cbOut'[n] = cbOut[n + 1]
      BY <1>0, <2>1, ItemTaken DEF TypeOK
    <3> QED  BY <3>1
  <2> QED  BY <2>1, <2>2 DEF Transduced
<1>6. CASE Parse
  <2> DEFINE h == Head(headx)
             body == Slice(cbuf2, h)
  <2>1. /\ procState = "PARSE" /\ UNCHANGED << cbOut, phonesTransduced, curFst >>
        /\ tmpbuf' = [id |-> h.id, kind |-> h.kind, body |-> body, fsts |-> << >>]
        /\ procState' = IF Transducible(h.kind, h.len) THEN "FST" ELSE "FEED"
        /\ fsts' = << >>
    BY <1>6 DEF Parse
  <2>2. Len(body) = h.len
    <3>1. h \in Header /\ cbuf2 \in Seq(Nat)
      BY <1>0, <1>6, Types DEF TypeOK, Parse
    <3> QED  BY <3>1, SliceFacts
  <2> HIDE DEF h, body
  <2>3. ~phonesTransduced' /\ curFst' = 0
    BY <2>1
  <2>4. Transduced' = tmpbuf' /\ tmpbuf'.kind = h.kind /\ tmpbuf'.body = body
    BY <2>1, <2>3 DEF Transduced
  <2>5. CASE Transducible(h.kind, h.len)
    <3>1. fsts' = UpToFst(0)
      BY <2>1 DEF UpToFst
    <3> QED  BY <2>1, <2>3, <2>5, <3>1
  <2>6. CASE ~Transducible(h.kind, h.len)
    <3>1. WellDone(Transduced)'
      BY <2>2, <2>4, <2>6 DEF WellDone
    <3> QED  BY <2>1, <2>3, <2>6, <3>1
  <2> QED  BY <2>5, <2>6
<1>7. CASE Fst
  <2>1. /\ procState = "FST" /\ fsts' = Append(fsts, curFst) /\ curFst' = curFst + 1
        /\ UNCHANGED << procState, cbOut >> /\ curFst \in Nat
    BY <1>0, <1>7 DEF Fst, TypeOK
  <2>2. fsts' = UpToFst(curFst')
    BY <2>1, OneMoreFst
  <2> QED  BY <2>1, <2>2
<1>8. CASE FstDone
  <2>1. /\ procState = "FST" /\ procState' = "FEED" /\ curFst = NumFsts
        /\ curFst' = 0 /\ phonesTransduced' /\ UNCHANGED << tmpbuf, fsts, cbOut >>
    BY <1>0, <1>8 DEF FstDone, TypeOK
  <2>2. Transduced'.fsts = UpToFst(NumFsts)
    BY <1>0, <2>1 DEF Transduced, TypeOK, Ready
  <2> QED  BY <2>1, <2>2 DEF WellDone
<1>9. CASE Feed
  <2>1. /\ procState = "FEED" /\ procState' = "PARSE" /\ cbOut' = Append(cbOut, Transduced)
        /\ ~phonesTransduced' /\ UNCHANGED curFst
    BY <1>9 DEF Feed
  <2>2. Transduced \in Ready /\ cbOut \in Seq(Ready)
    BY <1>0, TransducedFacts DEF TypeOK
  <2> DEFINE t == Transduced
  <2>3. WellDone(t)
    BY <2>1
  <2> HIDE DEF t
  <2>4. \A n \in DOMAIN cbOut' : WellDone(cbOut'[n])
    <3>1. t \in Ready /\ cbOut' = Append(cbOut, t)
      BY <2>1, <2>2 DEF t
    <3>2. \A n \in DOMAIN cbOut' : cbOut'[n] = t \/ (n \in DOMAIN cbOut /\ cbOut'[n] = cbOut[n])
      BY <2>2, <3>1, ItemAdded
    <3> QED  BY <2>3, <3>2
  <2> QED  BY <2>1, <2>4
<1>10. CASE FeedFull
  <2>1. /\ procState = "FEED" /\ tmpbuf' = Transduced
        /\ ~phonesTransduced' /\ UNCHANGED << curFst, cbOut, procState >>
    BY <1>10 DEF FeedFull
  <2>2. Transduced' = Transduced
    BY <2>1 DEF Transduced
  <2> QED  BY <2>1, <2>2 DEF WellDone
<1>11. CASE \E mode \in ResetModes : Reset(mode)
  <2>1. /\ procState' = "COLLECT" /\ ~phonesTransduced' /\ curFst' = 0 /\ cbOut' = << >>
    BY <1>11 DEF Reset
  <2> QED  BY <2>1
<1> QED
  BY <1>2, <1>3, <1>4, <1>5, <1>6, <1>7, <1>8, <1>9, <1>10, <1>11 DEF Next, Step

\* Unless a reset is soft, every word that is handed on has been through all
\* transducers in their order or was too long for them, whatever resets and full
\* buffers came between (PROCESS_TRNS_PARSE, PROCESS_TRNS_FST and FEED). A soft reset
\* leaves curFst as it is, and the next word skips what came before it.
THEOREM SaTransduced ==
  ASSUME "soft" \notin ResetModes
  PROVE  Spec => []EveryWordTransduced
<1>1. Init => TransducersInv
  BY DEF Init, TransducersInv
<1>2. SaInv /\ TransducersInv /\ [Next]_saVars => TransducersInv'
  BY TransducersStep
<1>3. TransducersInv => EveryWordTransduced
  BY DEF TransducersInv, EveryWordTransduced, WellDone, UpToFst
<1> QED  BY <1>1, <1>2, <1>3, SaInvariant, PTL DEF Spec
=============================================================================
