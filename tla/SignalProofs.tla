---------------------------- MODULE SignalProofs -----------------------------
(***************************************************************************)
(* The units behind the phonetic stages, for all sizes of their buffers    *)
(* and all inputs.                                                         *)
(*                                                                         *)
(* Cepstral smoothing: the frames and the other items go out each once and *)
(* in the order in which they came, as long as the other items of a        *)
(* sentence have room.  What is due is what was put, what is in outBuf,    *)
(* what is gathered, and what the item in inBuf gives, in this order.      *)
(* What is gathered is spread over the index and the list of other items;  *)
(* Merged says which sequence it stands for.                               *)
(*                                                                         *)
(* Signal generation: what goes out is what is due, in order, and a file   *)
(* that was closed has in it what was put while it was open.  Both follow  *)
(* from one notion, what is Pending: the items and pieces that the state   *)
(* of the unit still owes.  A step leaves it alone, puts the first of it,  *)
(* loses the part in outBuf, or, when nothing is pending, takes an item.   *)
(***************************************************************************)
EXTENDS Cep, Sig, SequenceTheorems, WellFoundedInduction, TLAPS

-----------------------------------------------------------------------------
(* The frames of a phone are a sequence: induction over its states, by the  *)
(* least counterexample.                                                    *)
Below == OpToRel(<, Nat)
LEMMA LeastMember ==
  ASSUME NEW T, T \subseteq Nat, T # {}
  PROVE  \E m \in T : \A k \in T : m <= k
<1>1. IsWellFoundedOn(Below, Nat)
  BY NatLessThanWellFounded DEF Below
<1>2. \E x \in T : \A y \in T : << y, x >> \notin Below
  BY <1>1, WFMin, Zenon
<1>3. PICK m \in T : \A y \in T : << y, m >> \notin Below
  BY <1>2
<1>4. \A x, y \in Nat : x < y => << x, y >> \in Below
  BY DEF Below, OpToRel
<1>5. \A k \in T : k \in Nat /\ m \in Nat /\ ~(k < m)
  BY <1>3, <1>4
<1>6. \A k \in T : m <= k
  BY <1>5
<1> QED  BY <1>6

\* A sequence of sequences and what its recursion computes.
Flattens(f, t, n) == f = [i \in 1 .. n |-> IF i = 1 THEN t[i] ELSE f[i - 1] \o t[i]]

\* A function that satisfies the recursion has sequences for values.
LEMMA FlatTyped ==
  ASSUME NEW S, NEW t, NEW n \in Nat, \A i \in 1 .. n : t[i] \in Seq(S),
         NEW f, Flattens(f, t, n)
  PROVE  \A i \in 1 .. n : f[i] \in Seq(S)
<1> DEFINE Bad == {i \in 1 .. n : f[i] \notin Seq(S)}
<1> SUFFICES ASSUME Bad # {} PROVE FALSE
  OBVIOUS
<1>1. Bad \subseteq Nat
  OBVIOUS
<1>2. PICK m \in Bad : \A k \in Bad : m <= k
  <2> HIDE DEF Bad
  <2> QED  BY <1>1, LeastMember
<1>3. m \in 1 .. n /\ f[m] \notin Seq(S) /\ t[m] \in Seq(S)
  BY <1>2
<1>4. f[m] = IF m = 1 THEN t[m] ELSE f[m - 1] \o t[m]
  BY <1>3 DEF Flattens
<1>5. m # 1 => f[m - 1] \in Seq(S)
  BY <1>2, <1>3
<1>6. ASSUME NEW a \in Seq(S), NEW b \in Seq(S) PROVE a \o b \in Seq(S)
  OBVIOUS
<1> QED  BY <1>3, <1>4, <1>5, <1>6

\* There is such a function.
LEMMA FlatExists ==
  ASSUME NEW t, NEW n \in Nat
  PROVE  \E f : Flattens(f, t, n)
<1> DEFINE Bad == {i \in Nat : ~\E f : Flattens(f, t, i)}
<1> SUFFICES ASSUME Bad # {} PROVE FALSE
  OBVIOUS
<1>1. PICK m \in Bad : \A k \in Bad : m <= k
  <2>1. Bad \subseteq Nat
    OBVIOUS
  <2> HIDE DEF Bad
  <2> QED  BY <2>1, LeastMember
<1>2. m # 0
  <2>1. Flattens([i \in 1 .. 0 |-> 0], t, 0)
    BY DEF Flattens
  <2> QED  BY <2>1, <1>1
<1>3. m - 1 \in Nat /\ m - 1 \notin Bad
  BY <1>1, <1>2
<1>4. PICK g : Flattens(g, t, m - 1)
  BY <1>3
<1> DEFINE f == [i \in 1 .. m |-> IF i = 1 THEN t[i] ELSE g[i - 1] \o t[i]]
<1>5. \A i \in 1 .. m - 1 : f[i] = g[i]
  <2> SUFFICES ASSUME NEW i \in 1 .. m - 1 PROVE f[i] = g[i]
    OBVIOUS
  <2>1. g[i] = IF i = 1 THEN t[i] ELSE g[i - 1] \o t[i]
    BY <1>4 DEF Flattens
  <2>2. i \in 1 .. m
    BY <1>3
  <2> QED  BY <2>1, <2>2
<1>6. f = [i \in 1 .. m |-> IF i = 1 THEN t[i] ELSE f[i - 1] \o t[i]]
  <2>1. \A i \in 1 .. m : i # 1 => i - 1 \in 1 .. m - 1 
    BY <1>1
  <2>2. \A i \in 1 .. m : i # 1 => f[i - 1] = g[i - 1]
    <3> HIDE DEF f
    <3> QED BY <2>1, <1>5
  <2> QED  BY <2>2
<1>7. Flattens(f, t, m)
  <2> HIDE DEF f
  <2> QED  BY <1>6 DEF Flattens
<1> QED  BY <1>1, <1>7

LEMMA FlattenType ==
  ASSUME NEW S, NEW t \in Seq(Seq(S))
  PROVE  FlattenSeq(t) \in Seq(S)
<1>1. CASE Len(t) = 0
  BY <1>1 DEF FlattenSeq
<1>2. CASE Len(t) # 0
  <2> DEFINE g == CHOOSE f : Flattens(f, t, Len(t))
  <2>1. Flattens(g, t, Len(t))
    <3>0. Len(t) \in Nat
      OBVIOUS
    <3>1. \E f : Flattens(f, t, Len(t))
      BY <3>0, FlatExists
    <3> QED  BY <3>1, Zenon
  <2>2. FlattenSeq(t) = g[Len(t)]
    BY <1>2, Zenon DEF FlattenSeq, Flattens
  <2>3. Len(t) \in 1 .. Len(t) /\ \A i \in 1 .. Len(t) : t[i] \in Seq(S)
    BY <1>2
  <2> QED  BY <2>1, <2>2, <2>3, FlatTyped
<1> QED  BY <1>1, <1>2

-----------------------------------------------------------------------------
(* Sequences.                                                               *)
LEMMA Lengths ==
  ASSUME NEW S, NEW s \in Seq(S)
  PROVE  /\ Len(s) \in Nat /\ DOMAIN s = 1 .. Len(s)
         /\ \A i \in 1 .. Len(s) : s[i] \in S
OBVIOUS

LEMMA Joined ==
  ASSUME NEW S, NEW s \in Seq(S), NEW t \in Seq(S)
  PROVE  /\ s \o t \in Seq(S) /\ Len(s \o t) = Len(s) + Len(t)
         /\ \A i \in 1 .. Len(s) : (s \o t)[i] = s[i]
         /\ \A i \in 1 .. Len(t) : (s \o t)[Len(s) + i] = t[i]
OBVIOUS

LEMMA ThreeInARow ==
  ASSUME NEW S, NEW s \in Seq(S), NEW t \in Seq(S), NEW u \in Seq(S)
  PROVE  (s \o t) \o u = s \o (t \o u)
BY ConcatAssociative

LEMMA JoinedEmpty ==
  ASSUME NEW S, NEW s \in Seq(S)
  PROVE  s \o << >> = s /\ << >> \o s = s /\ << >> \in Seq(S) /\ (Len(s) = 0 => s = << >>)
OBVIOUS

LEMMA Appended ==
  ASSUME NEW S, NEW s \in Seq(S), NEW e \in S
  PROVE  /\ Append(s, e) \in Seq(S) /\ Append(s, e) = s \o << e >> /\ << e >> \in Seq(S)
         /\ Len(Append(s, e)) = Len(s) + 1 /\ Append(s, e)[Len(s) + 1] = e
         /\ \A i \in 1 .. Len(s) : Append(s, e)[i] = s[i]
OBVIOUS

LEMMA CepHeadAndTail ==
  ASSUME NEW S, NEW s \in Seq(S), s # << >>
  PROVE  /\ s = << s[1] >> \o Tail(s) /\ s[1] \in S
         /\ Tail(s) \in Seq(S) /\ Len(Tail(s)) = Len(s) - 1 /\ Len(s) >= 1
         /\ \A i \in 1 .. Len(s) - 1 : Tail(s)[i] = s[i + 1]
OBVIOUS

LEMMA Prefixed ==
  ASSUME NEW S, NEW s \in Seq(S), NEW t \in Seq(S)
  PROVE  IsPrefix(s, s \o t)
<1>1. /\ s \o t \in Seq(S) /\ Len(s) <= Len(s \o t) /\ Len(s) \in Nat /\ Len(s \o t) \in Nat
      /\ \A i \in 1 .. Len(s) : (s \o t)[i] = s[i]
  <2>1. Len(t) \in Nat /\ Len(s) \in Nat
    OBVIOUS
  <2> QED  BY <2>1, Joined
<1>2. SubSeq(s, 1, Len(s)) = [i \in 1 .. Len(s) |-> s[i]]
  OBVIOUS
<1>3. SubSeq(s \o t, 1, Len(s)) = [i \in 1 .. Len(s) |-> (s \o t)[i]]
  <2> DEFINE u == s \o t
  <2> HIDE DEF u
  <2>1. u \in Seq(S) /\ Len(s) \in Nat /\ Len(s) <= Len(u)
    BY <1>1 DEF u
  <2>2. SubSeq(u, 1, Len(s)) = [i \in 1 .. Len(s) |-> u[i]]
    BY <2>1
  <2> QED  BY <2>2 DEF u
<1> QED  BY <1>1, <1>2, <1>3 DEF IsPrefix

LEMMA MinOfTwo ==
  ASSUME NEW m \in Int, NEW n \in Int
  PROVE  Min({m, n}) = IF m <= n THEN m ELSE n
<1> DEFINE k == IF m <= n THEN m ELSE n
<1>1. k \in {m, n} /\ \A y \in {m, n} : k <= y
  OBVIOUS
<1>2. \A x \in {m, n} : (\A y \in {m, n} : x <= y) => x = k
  OBVIOUS
<1> HIDE DEF k
<1>3. (CHOOSE x \in {m, n} : \A y \in {m, n} : x <= y) = k
  BY <1>1, <1>2
<1> QED  BY <1>3 DEF Min, k

LEMMA UpToIs ==
  ASSUME NEW S, NEW s \in Seq(S), NEW n \in Nat
  PROVE  UpTo(s, n) \in Seq(S) /\ Len(UpTo(s, n)) \in Nat /\ Len(UpTo(s, n)) <= n
<1>1. Len(s) \in Nat
  OBVIOUS
<1>2. PICK k \in Nat : Min({n, Len(s)}) = k /\ k <= n /\ k <= Len(s)
  BY <1>1, MinOfTwo
<1>3. SubSeq(s, 1, k) \in Seq(S) /\ Len(SubSeq(s, 1, k)) = k
  BY <1>1, <1>2
<1> QED  BY <1>2, <1>3 DEF UpTo

-----------------------------------------------------------------------------
(* What is gathered: the frames from r to w of the index ix, with the items *)
(* of hx behind the first b put between them.                               *)
Merged(R, hx, ix, b, r, w) ==
  /\ Len(R) = (w - r) + (Len(hx) - b)
  /\ \A k \in b + 1 .. Len(hx) : R[(hx[k].frame - r) + (k - b)] = hx[k].item
  /\ \A j \in r .. w - 1, k \in b .. Len(hx) :
       /\ k = b \/ hx[k].frame <= j
       /\ k = Len(hx) \/ j < hx[k + 1].frame
       => R[(j - r + 1) + (k - b)] = FrameItem(ix[j])

\* The items wait for frames that there are, in this order.
Waiting(hx, b, r, w) ==
  /\ b \in 0 .. Len(hx) /\ r \in 0 .. w
  /\ \A k \in b + 1 .. Len(hx) : hx[k].frame \in r .. w
  /\ \A k, l \in 1 .. Len(hx) : k < l => hx[k].frame <= hx[l].frame

\* The items of frames; an index with the frames F added from w on.
Given(frames) == [n \in DOMAIN frames |-> FrameItem(frames[n])]
Extended(iy, ix, w, F) ==
  /\ \A j \in 0 .. w - 1 : iy[j] = ix[j]
  /\ \A i \in 1 .. Len(F) : iy[w + i - 1] = F[i]

\* A phone adds its frames F at the end.
LEMMA MergeFrames ==
  ASSUME NEW S, NEW R \in Seq(S), NEW T, NEW hx \in Seq(T), NEW w \in Nat,
         NEW ix, NEW iy, NEW U, NEW F \in Seq(U), Given(F) \in Seq(S),
         \A k \in 1 .. Len(hx) : hx[k].frame \in Nat,
         Merged(R, hx, ix, 0, 0, w), Waiting(hx, 0, 0, w), Extended(iy, ix, w, F)
  PROVE  /\ Merged(R \o Given(F), hx, iy, 0, 0, w + Len(F))
         /\ Waiting(hx, 0, 0, w + Len(F))
<1> DEFINE n == Len(F)
           G == Given(F)
<1>0. /\ n \in Nat /\ G \in Seq(S) /\ Len(G) = n
      /\ \A i \in 1 .. n : G[i] = FrameItem(F[i])
      /\ \A j \in 0 .. w - 1 : iy[j] = ix[j]
      /\ \A i \in 1 .. n : iy[w + i - 1] = F[i]
  <2>1. DOMAIN F = 1 .. n /\ n \in Nat
    BY Lengths
  <2>2. G = [i \in 1 .. n |-> FrameItem(F[i])]
    BY <2>1 DEF Given
  <2> QED  BY <2>1, <2>2 DEF Extended
<1>0a. n \in Nat /\ G \in Seq(S) /\ Len(G) = n
  BY <1>0
<1> HIDE DEF n, G
<1> USE <1>0a
<1> DEFINE m == Len(hx)
           RG == R \o G
<1>1. /\ m \in Nat /\ Len(R) = w + m /\ Len(RG) = (w + m) + n
      /\ \A i \in 1 .. w + m : RG[i] = R[i]
      /\ \A i \in 1 .. n : RG[w + m + i] = G[i]
  <2>1. m \in Nat
    OBVIOUS
  <2>2. Len(R) = w + m
    BY <2>1 DEF Merged
  <2>3. /\ Len(RG) = Len(R) + Len(G)
        /\ \A i \in 1 .. Len(R) : RG[i] = R[i]
        /\ \A i \in 1 .. Len(G) : RG[Len(R) + i] = G[i]
    <3> HIDE <1>0a
    <3>1. R \in Seq(S) /\ G \in Seq(S)
      BY <1>0a
    <3> QED  BY <3>1, Joined
  <2> HIDE DEF m, RG
  <2> QED  BY <2>1, <2>2, <2>3
<1> HIDE DEF RG, m
<1>2. \A k \in 1 .. m : hx[k].frame \in 0 .. w
  BY <1>1 DEF Waiting, m
<1>3. ASSUME NEW k \in 1 .. m PROVE RG[(hx[k].frame - 0) + (k - 0)] = hx[k].item
  <2>1. /\ R[(hx[k].frame - 0) + (k - 0)] = hx[k].item
        /\ (hx[k].frame - 0) + (k - 0) \in 1 .. w + m
    BY <1>1, <1>2 DEF Merged, m
  <2> QED  BY <2>1, <1>1
<1>4. ASSUME NEW j \in 0 .. w + n - 1, NEW k \in 0 .. m,
             k = 0 \/ hx[k].frame <= j, k = m \/ j < hx[k + 1].frame
      PROVE  RG[(j - 0 + 1) + (k - 0)] = FrameItem(iy[j])
  <2>1. CASE j < w
    <3>1. j \in 0 .. w - 1 /\ (j - 0 + 1) + (k - 0) \in 1 .. w + m
      BY <2>1, <1>1, SMTT(60)
    <3>2. R[(j - 0 + 1) + (k - 0)] = FrameItem(ix[j])
      BY <3>1, <1>4 DEF Merged, m
    <3>3. RG[(j - 0 + 1) + (k - 0)] = R[(j - 0 + 1) + (k - 0)]
      BY <3>1, <1>1
    <3> QED  BY <1>0, <3>1, <3>2, <3>3
  <2>2. CASE j >= w
    <3>1. k = m
      <4> SUFFICES ASSUME k # m PROVE FALSE
        OBVIOUS
      <4>1. k + 1 \in 1 .. m /\ j < hx[k + 1].frame
        BY <1>1, <1>4
      <4> QED  BY <4>1, <2>2, <1>2
    <3>2. PICK i \in 1 .. n : i = j - w + 1
      BY <2>2
    <3>3. (j - 0 + 1) + (k - 0) = w + m + i /\ w + i - 1 = j
      BY <3>1, <3>2, <1>1
    <3>4. RG[w + m + i] = FrameItem(F[i]) /\ iy[w + i - 1] = F[i]
      BY <1>0, <1>1
    <3> QED  BY <3>3, <3>4
  <2> QED  BY <2>1, <2>2
<1>5. Waiting(hx, 0, 0, w + n)
  <2>1. 0 \in 0 .. Len(hx) /\ 0 \in 0 .. w + n
    BY <1>1
  <2>2. \A k \in 0 + 1 .. Len(hx) : hx[k].frame \in 0 .. w + n
    BY <1>1, <1>2, SMTT(60) DEF m
  <2>3. \A k, l \in 1 .. Len(hx) : k < l => hx[k].frame <= hx[l].frame
    BY DEF Waiting
  <2> QED  BY <2>1, <2>2, <2>3 DEF Waiting
<1>6. Len(RG) = (w + n - 0) + (m - 0) /\ 0 + 1 = 1
  BY <1>1
<1>7. Merged(RG, hx, iy, 0, 0, w + n)
  <2> SUFFICES /\ Len(RG) = (w + n - 0) + (Len(hx) - 0)
               /\ \A k \in 0 + 1 .. Len(hx) : RG[(hx[k].frame - 0) + (k - 0)] = hx[k].item
               /\ \A j \in 0 .. w + n - 1, k \in 0 .. Len(hx) :
                    /\ k = 0 \/ hx[k].frame <= j
                    /\ k = Len(hx) \/ j < hx[k + 1].frame
                    => RG[(j - 0 + 1) + (k - 0)] = FrameItem(iy[j])
    BY DEF Merged
  <2>1. \A k \in 0 + 1 .. m : RG[(hx[k].frame - 0) + (k - 0)] = hx[k].item
    BY <1>3, <1>6
  <2> QED  BY <1>4, <1>6, <2>1 DEF m
<1> QED  BY <1>5, <1>7 DEF RG, n, G

\* An item e that is kept comes behind all frames there are.
LEMMA MergeItem ==
  ASSUME NEW S, NEW R \in Seq(S), NEW T, NEW hx \in Seq(T), NEW ix, NEW w \in Nat,
         \A k \in 1 .. Len(hx) : hx[k].frame \in Nat,
         Merged(R, hx, ix, 0, 0, w), Waiting(hx, 0, 0, w),
         NEW e \in T, e.frame = w, e.item \in S
  PROVE  Merged(Append(R, e.item), Append(hx, e), ix, 0, 0, w)
         /\ Waiting(Append(hx, e), 0, 0, w)
<1> DEFINE m == Len(hx)
           RE == Append(R, e.item)
           he == Append(hx, e)
<1>1. /\ m \in Nat /\ Len(R) = w + m /\ Len(RE) = w + m + 1
      /\ \A i \in 1 .. w + m : RE[i] = R[i]
      /\ RE[w + m + 1] = e.item
  <2>1. m \in Nat
    OBVIOUS
  <2>2. Len(R) = w + m
    BY <2>1 DEF Merged
  <2> HIDE DEF m
  <2> QED  BY <2>1, <2>2, Appended
<1>2. Len(he) = m + 1 /\ he[m + 1] = e /\ \A k \in 1 .. m : he[k] = hx[k]
  BY Appended
<1> HIDE DEF RE, m, he
<1>3. \A k \in 1 .. m : hx[k].frame \in 0 .. w
  BY <1>1 DEF Waiting, m
<1>4. ASSUME NEW k \in 1 .. m + 1 PROVE RE[(he[k].frame - 0) + (k - 0)] = he[k].item
  <2>1. CASE k = m + 1
    <3>1. he[k].frame = w /\ he[k].item = e.item
      BY <2>1, <1>2
    <3>2. (w - 0) + (m + 1 - 0) = w + m + 1
      BY <1>1
    <3> QED  BY <2>1, <3>1, <3>2, <1>1
  <2>2. CASE k # m + 1
    <3>1. k \in 1 .. m /\ he[k] = hx[k]
      BY <2>2, <1>1, <1>2
    <3>2. /\ R[(hx[k].frame - 0) + (k - 0)] = hx[k].item
          /\ (hx[k].frame - 0) + (k - 0) \in 1 .. w + m
      BY <3>1, <1>1, <1>3 DEF Merged, m
    <3> QED  BY <3>1, <3>2, <1>1
  <2> QED  BY <2>1, <2>2
<1>5. ASSUME NEW j \in 0 .. w - 1, NEW k \in 0 .. m + 1,
             k = 0 \/ he[k].frame <= j, k = m + 1 \/ j < he[k + 1].frame
      PROVE  RE[(j - 0 + 1) + (k - 0)] = FrameItem(ix[j])
  <2>1. k # m + 1
    BY <1>1, <1>2, <1>5
  <2>2. k \in 0 .. m /\ (k = 0 \/ hx[k].frame <= j)
    BY <2>1, <1>1, <1>2, <1>5
  <2>3. k = m \/ j < hx[k + 1].frame
    BY <2>2, <1>1, <1>2, <1>5
  <2>4. R[(j - 0 + 1) + (k - 0)] = FrameItem(ix[j])
    BY <2>2, <2>3 DEF Merged, m
  <2>5. (j - 0 + 1) + (k - 0) \in 1 .. w + m
    BY <2>2, <1>1, SMTT(60)
  <2> QED  BY <2>4, <2>5, <1>1
<1>6. Waiting(he, 0, 0, w)
  <2>1. \A k \in 1 .. m + 1 : he[k].frame \in 0 .. w
    <3> SUFFICES ASSUME NEW k \in 1 .. m + 1 PROVE he[k].frame \in 0 .. w
      OBVIOUS
    <3>1. CASE k = m + 1
      BY <3>1, <1>2
    <3>2. CASE k # m + 1
      <4>1. k \in 1 .. m
        BY <3>2, <1>1
      <4> QED  BY <4>1, <1>2, <1>3
    <3> QED  BY <3>1, <3>2
  <2>2. ASSUME NEW k \in 1 .. m + 1, NEW l \in 1 .. m + 1, k < l PROVE he[k].frame <= he[l].frame
    <3>1. k \in 1 .. m /\ he[k] = hx[k]
      BY <2>2, <1>1, <1>2
    <3>2. CASE l = m + 1
      BY <3>1, <3>2, <1>2, <1>3
    <3>3. CASE l # m + 1
      <4>1. l \in 1 .. m /\ he[l] = hx[l]
        BY <3>3, <1>1, <1>2, SMTT(60)
      <4> QED  BY <2>2, <3>1, <4>1 DEF Waiting, m
    <3> QED  BY <3>2, <3>3
  <2> QED  BY <2>1, <2>2, <1>1, <1>2 DEF Waiting
<1>7. Len(RE) = (w - 0) + (m + 1 - 0) /\ 0 + 1 = 1
  BY <1>1
<1>8. Merged(RE, he, ix, 0, 0, w)
  <2> SUFFICES /\ Len(RE) = (w - 0) + (Len(he) - 0)
               /\ \A k \in 0 + 1 .. Len(he) : RE[(he[k].frame - 0) + (k - 0)] = he[k].item
               /\ \A j \in 0 .. w - 1, k \in 0 .. Len(he) :
                    /\ k = 0 \/ he[k].frame <= j
                    /\ k = Len(he) \/ j < he[k + 1].frame
                    => RE[(j - 0 + 1) + (k - 0)] = FrameItem(ix[j])
    BY DEF Merged
  <2>1. \A k \in 0 + 1 .. m + 1 : RE[(he[k].frame - 0) + (k - 0)] = he[k].item
    BY <1>4, <1>7
  <2>2. ASSUME NEW j \in 0 .. w - 1, NEW k \in 0 .. Len(he),
               k = 0 \/ he[k].frame <= j, k = Len(he) \/ j < he[k + 1].frame
        PROVE  RE[(j - 0 + 1) + (k - 0)] = FrameItem(ix[j])
    <3>1. k \in 0 .. m + 1 /\ (k = m + 1 \/ j < he[k + 1].frame)
      BY <2>2, <1>2
    <3> QED  BY <3>1, <2>2, <1>5
  <2> QED  BY <1>2, <1>7, <2>1, <2>2
<1> QED  BY <1>6, <1>8 DEF RE, he

\* The first item is due when the frames before it are out: it is the next.
LEMMA ItemGoesOut ==
  ASSUME NEW S, NEW R \in Seq(S), NEW T, NEW hx \in Seq(T), NEW ix,
         NEW b \in Nat, NEW r \in Nat, NEW w \in Nat,
         \A k \in 1 .. Len(hx) : hx[k].frame \in Nat,
         Merged(R, hx, ix, b, r, w), Waiting(hx, b, r, w),
         b < Len(hx), hx[b + 1].frame <= r
  PROVE  /\ R # << >> /\ R[1] = hx[b + 1].item
         /\ Merged(Tail(R), hx, ix, b + 1, r, w) /\ Waiting(hx, b + 1, r, w)
<1> DEFINE m == Len(hx)
           t == Tail(R)
<1>1. /\ m \in Nat /\ r <= w /\ Len(R) = (w - r) + (m - b) /\ Len(R) \in Nat
      /\ b < m
      /\ \A k \in b + 1 .. m : hx[k].frame \in r .. w
  BY DEF Merged, Waiting
<1>2. R # << >> /\ Len(R) >= 1
  BY <1>1
<1>3. Len(t) = Len(R) - 1 /\ \A i \in 1 .. Len(R) - 1 : t[i] = R[i + 1]
  BY <1>2, CepHeadAndTail
<1> HIDE DEF m, t
<1>4. hx[b + 1].frame = r /\ R[1] = hx[b + 1].item
  <2>1. b + 1 \in b + 1 .. m
    BY <1>1
  <2>2. hx[b + 1].frame = r
    BY <2>1, <1>1
  <2>3. R[(hx[b + 1].frame - r) + (b + 1 - b)] = hx[b + 1].item
    BY <2>1 DEF Merged, m
  <2>4. (hx[b + 1].frame - r) + (b + 1 - b) = 1
    BY <2>2
  <2> QED  BY <2>2, <2>3, <2>4
<1>5. ASSUME NEW k \in b + 2 .. m PROVE t[(hx[k].frame - r) + (k - (b + 1))] = hx[k].item
  <2>1. k \in b + 1 .. m /\ hx[k].frame \in r .. w
    BY <1>1
  <2>2. R[(hx[k].frame - r) + (k - b)] = hx[k].item
    BY <2>1 DEF Merged, m
  <2>3. PICK f \in r .. w : f = hx[k].frame
    BY <2>1
  <2>4. (f - r) + (k - (b + 1)) \in 1 .. Len(R) - 1
    BY <1>1
  <2>5. (f - r) + (k - (b + 1)) + 1 = (f - r) + (k - b)
    OBVIOUS
  <2> QED  BY <2>2, <2>3, <2>4, <2>5, <1>3
<1>6. ASSUME NEW j \in r .. w - 1, NEW k \in b + 1 .. m,
             k = b + 1 \/ hx[k].frame <= j, k = m \/ j < hx[k + 1].frame
      PROVE  t[(j - r + 1) + (k - (b + 1))] = FrameItem(ix[j])
  <2>1. k \in b .. m /\ hx[k].frame <= j
    BY <1>4, <1>6
  <2>2. R[(j - r + 1) + (k - b)] = FrameItem(ix[j])
    BY <2>1, <1>6 DEF Merged, m
  <2>3. (j - r + 1) + (k - (b + 1)) \in 1 .. Len(R) - 1
    BY <1>1, SMTT(60)
  <2>4. (j - r + 1) + (k - (b + 1)) + 1 = (j - r + 1) + (k - b)
    OBVIOUS
  <2> QED  BY <2>2, <2>3, <2>4, <1>3
<1>7. Len(t) = (w - r) + (m - (b + 1)) /\ b + 1 + 1 = b + 2
  BY <1>1, <1>3
<1>8. Waiting(hx, b + 1, r, w)
  BY <1>1 DEF Waiting, m
<1> QED  BY <1>2, <1>4, <1>5, <1>6, <1>7, <1>8 DEF Merged, m, t

\* No item is due: the next is a frame.
LEMMA FrameGoesOut ==
  ASSUME NEW S, NEW R \in Seq(S), NEW T, NEW hx \in Seq(T), NEW ix,
         NEW b \in Nat, NEW r \in Nat, NEW w \in Nat,
         \A k \in 1 .. Len(hx) : hx[k].frame \in Nat,
         Merged(R, hx, ix, b, r, w), Waiting(hx, b, r, w),
         ~(b < Len(hx) /\ hx[b + 1].frame <= r), r < w
  PROVE  /\ R # << >> /\ R[1] = FrameItem(ix[r])
         /\ Merged(Tail(R), hx, ix, b, r + 1, w) /\ Waiting(hx, b, r + 1, w)
<1> DEFINE m == Len(hx)
           t == Tail(R)
<1>1. /\ m \in Nat /\ b <= m /\ Len(R) = (w - r) + (m - b) /\ Len(R) \in Nat
      /\ \A k \in b + 1 .. m : hx[k].frame \in r .. w
  BY DEF Merged, Waiting
<1>2. R # << >> /\ Len(R) >= 1
  BY <1>1
<1>3. Len(t) = Len(R) - 1 /\ \A i \in 1 .. Len(R) - 1 : t[i] = R[i + 1]
  BY <1>2, CepHeadAndTail
<1>0. ~(b < m /\ hx[b + 1].frame <= r)
  OBVIOUS
<1> HIDE DEF m, t
<1>4. \A k \in b + 1 .. m : hx[k].frame \in r + 1 .. w
  <2> SUFFICES ASSUME NEW k \in b + 1 .. m PROVE hx[k].frame \in r + 1 .. w
    OBVIOUS
  <2>1. b < m /\ b + 1 \in b + 1 .. m /\ b + 1 \in 1 .. m /\ k \in 1 .. m
    BY <1>1
  <2>2. hx[b + 1].frame > r
    BY <2>1, <1>0, <1>1
  <2>3. hx[b + 1].frame <= hx[k].frame
    <3>1. CASE k = b + 1
      BY <3>1, <2>1, <1>1
    <3>2. CASE b + 1 < k
      BY <3>2, <2>1 DEF Waiting, m
    <3> QED  BY <3>1, <3>2
  <2> QED  BY <2>1, <2>2, <2>3, <1>1
<1>5. R[1] = FrameItem(ix[r])
  <2>1. r \in r .. w - 1 /\ b \in b .. m /\ (r - r + 1) + (b - b) = 1
    BY <1>1
  <2>2. b = m \/ r < hx[b + 1].frame
    BY <1>1, <1>4
  <2>3. R[(r - r + 1) + (b - b)] = FrameItem(ix[r])
    BY <2>1, <2>2 DEF Merged, m
  <2> QED  BY <2>1, <2>3
<1>6. ASSUME NEW k \in b + 1 .. m PROVE t[(hx[k].frame - (r + 1)) + (k - b)] = hx[k].item
  <2>2. R[(hx[k].frame - r) + (k - b)] = hx[k].item
    BY DEF Merged, m
  <2>3. PICK f \in r + 1 .. w : f = hx[k].frame
    BY <1>4
  <2>4. (f - (r + 1)) + (k - b) \in 1 .. Len(R) - 1
    <3>1. f - (r + 1) \in 0 .. (w - r) - 1 /\ k - b \in 1 .. m - b
      BY <1>1, SMTT(60)
    <3> QED  BY <3>1, <1>1
  <2>5. (f - (r + 1)) + (k - b) + 1 = (f - r) + (k - b)
    OBVIOUS
  <2> QED  BY <2>2, <2>3, <2>4, <2>5, <1>3
<1>7. ASSUME NEW j \in r + 1 .. w - 1, NEW k \in b .. m,
             k = b \/ hx[k].frame <= j, k = m \/ j < hx[k + 1].frame
      PROVE  t[(j - (r + 1) + 1) + (k - b)] = FrameItem(ix[j])
  <2>1. j \in r .. w - 1
    OBVIOUS
  <2>2. R[(j - r + 1) + (k - b)] = FrameItem(ix[j])
    BY <2>1, <1>7 DEF Merged, m
  <2>3. (j - (r + 1) + 1) + (k - b) \in 1 .. Len(R) - 1
    BY <1>1, SMTT(60)
  <2>4. (j - (r + 1) + 1) + (k - b) + 1 = (j - r + 1) + (k - b)
    OBVIOUS
  <2> QED  BY <2>2, <2>3, <2>4, <1>3
<1>8. Len(t) = (w - (r + 1)) + (m - b)
  BY <1>1, <1>3
<1>9. Waiting(hx, b, r + 1, w)
  BY <1>1, <1>4 DEF Waiting, m
<1> QED  BY <1>2, <1>5, <1>6, <1>7, <1>8, <1>9 DEF Merged, m, t

-----------------------------------------------------------------------------
(* Types.                                                                   *)
Frames == Nat \X Nat
CepArrived == {Numbered(in, n) : in \in CepInputs, n \in Nat}
CepThings == CepArrived \cup {FrameItem(frame) : frame \in Frames}
CepKept == [item : CepArrived, frame : Nat]

CepStates ==
  [item : Seq(CepArrived), out : Seq(CepThings), follow : {"COLLECT", "PARSE", "FRAME"},
   ignore : BOOLEAN, sentenceEnd : BOOLEAN, headx : Seq(CepKept), bottom : Nat, cbuf : Nat,
   index : [0 .. MaxWinLen - 1 -> Frames], read : Nat, write : 0 .. MaxWinLen, end : Nat]
CepHists ==
  [due : Seq(CepThings), put : Seq(CepThings), ignored : BOOLEAN, frames : 0 .. MaxWinLen, over : BOOLEAN]

CepTypeOK ==
  /\ fed \in Nat /\ cbIn \in Seq(CepArrived)
  /\ procState \in {"COLLECT", "PARSE", "SMOOTH", "FRAME", "FEED"}
  /\ cep \in CepStates /\ cepHist \in CepHists

-----------------------------------------------------------------------------
(* The invariant.                                                           *)
Fitting(item, frames) == UpTo(FramesOf(item), MaxWinLen - frames)

\* What an item gives, and what there is after it, when signals are ignored or not
\* and the sentence has some frames.
Gives(item, ignored, frames) ==
  IF ignored \/ ~Forwarding(item) THEN << >>
  ELSE IF item.kind = "PHONE" THEN Given(Fitting(item, frames))
  ELSE << item >>
IgnoredAfter(item, ignored) == IF ignored THEN item.kind # "IGN_END" ELSE item.kind = "IGN_START"
FramesAfter(item, ignored, frames) ==
  IF ignored THEN frames
  ELSE IF item.kind = "PHONE" THEN frames + Len(Fitting(item, frames))
  ELSE IF EndsSentence(item) THEN 0 ELSE frames

\* The frames of a sentence go out; that happens with its end in inBuf.
GoingOut == procState = "FRAME" \/ (procState = "FEED" /\ cep.follow = "FRAME")

CepPhases ==
  /\ Len(cep.item) <= 1
  /\ procState = "COLLECT" => cep.item = << >>
  /\ IF procState = "FEED" THEN Len(cep.out) = 1 /\ cep.follow # "COLLECT" ELSE cep.out = << >>
  /\ procState = "FEED" /\ cep.follow = "PARSE" => cep.item = << >>
  /\ procState = "SMOOTH" \/ GoingOut =>
       /\ cep.item # << >> /\ ~cep.ignore /\ EndsSentence(CepItem)
       /\ cep.sentenceEnd /\ cep.end = cep.write
  /\ ~GoingOut => cep.read = 0 /\ cep.bottom = 0
  /\ cep.write = 0 => cep.headx = << >>
  /\ Waiting(cep.headx, cep.bottom, cep.read, cep.write)

\* The history is one item ahead while there is one in inBuf.
Told ==
  /\ cepHist.ignored = IF cep.item = << >> THEN cep.ignore ELSE IgnoredAfter(CepItem, cep.ignore)
  /\ cepHist.frames = IF cep.item = << >> THEN cep.write
                      ELSE FramesAfter(CepItem, cep.ignore, cep.write)
  /\ cepHist.over => cepHist.frames = 0

ItemOwes == IF cep.item = << >> THEN << >> ELSE Gives(CepItem, cep.ignore, cep.write)
Gathered(R) == Merged(R, cep.headx, cep.index, cep.bottom, cep.read, cep.write)
CepOwed ==
  \E R \in Seq(CepThings) : Gathered(R) /\ cepHist.due = cepHist.put \o (cep.out \o (R \o ItemOwes))

CepInv == CepTypeOK /\ CepPhases /\ Told /\ CepOwed

\* An item that is not a phone finds room in a sentence that has frames.
SentencesFit ==
  Parsing /\ Passing(CepItem) /\ cep.write > 0 => EndsSentence(CepItem) \/ RoomToKeep(CepItem)

-----------------------------------------------------------------------------
(* Items and their frames.                                                  *)
LEMMA CepItemFacts ==
  ASSUME NEW item \in CepArrived
  PROVE  item.id \in Nat /\ item.len \in Nat /\ item.states \in Seq(Nat)
<1>1. PICK in \in CepInputs, n \in Nat : item = Numbered(in, n)
  BY DEF CepArrived
<1>2. DOMAIN in = {"kind", "len", "states"} /\ in.len \in Nat /\ in.states \in Seq(Nat)
  BY CepAssumption
<1>3. DOMAIN in \cup {"id"} = {"kind", "len", "states", "id"}
  BY <1>2
<1>4. item = [f \in {"kind", "len", "states", "id"} |-> IF f = "id" THEN n ELSE in[f]]
  BY <1>1, <1>3 DEF Numbered
<1> QED  BY <1>2, <1>4

LEMMA FramesFacts ==
  ASSUME NEW item \in CepArrived
  PROVE  FramesOf(item) \in Seq(Frames)
<1>1. item.id \in Nat /\ item.states \in Seq(Nat)
  BY CepItemFacts
<1> DEFINE state(s) == [n \in 1 .. item.states[s] |-> << item.id, s >>]
           all == [s \in DOMAIN item.states |-> state(s)]
           m == Len(item.states)
<1>2. DOMAIN item.states = 1 .. m /\ m \in Nat /\ \A s \in 1 .. m : item.states[s] \in Nat
  BY <1>1
<1>3. ASSUME NEW s \in 1 .. m PROVE state(s) \in Seq(Frames)
  <2>1. << item.id, s >> \in Frames /\ item.states[s] \in Nat
    BY <1>1, <1>2 DEF Frames
  <2>2. state(s) \in [1 .. item.states[s] -> Frames]
    BY <2>1
  <2> HIDE DEF state
  <2> QED  BY <2>1, <2>2
<1> HIDE DEF state, m
<1>4. all \in Seq(Seq(Frames))
  BY <1>2, <1>3
<1>5. FramesOf(item) = FlattenSeq(all)
  BY Zenon DEF FramesOf, state
<1> HIDE DEF all
<1> QED  BY <1>4, <1>5, FlattenType

LEMMA FittingFacts ==
  ASSUME NEW item \in CepArrived, NEW frames \in 0 .. MaxWinLen
  PROVE  LET fit == Fitting(item, frames)
         IN  /\ fit \in Seq(Frames) /\ frames + Len(fit) \in 0 .. MaxWinLen /\ Len(fit) \in Nat
             /\ Given(fit) \in Seq(CepThings) /\ Len(Given(fit)) = Len(fit)
             /\ \A i \in 1 .. Len(fit) : Given(fit)[i] = FrameItem(fit[i]) /\ fit[i] \in Frames
<1> DEFINE fit == Fitting(item, frames)
<1>1. MaxWinLen \in Nat /\ MaxWinLen - frames \in Nat
  BY CepAssumption
<1>2. fit \in Seq(Frames) /\ Len(fit) \in Nat /\ Len(fit) <= MaxWinLen - frames
  BY <1>1, FramesFacts, UpToIs DEF Fitting
<1> HIDE DEF fit
<1>3. DOMAIN fit = 1 .. Len(fit) /\ \A i \in 1 .. Len(fit) : fit[i] \in Frames
  BY <1>2, Lengths
<1>4. \A i \in 1 .. Len(fit) : FrameItem(fit[i]) \in CepThings
  BY <1>3 DEF CepThings
<1>5. Given(fit) = [i \in 1 .. Len(fit) |-> FrameItem(fit[i])]
  BY <1>3 DEF Given
<1>6. Given(fit) \in Seq(CepThings) /\ Len(Given(fit)) = Len(fit)
  BY <1>2, <1>4, <1>5
<1> QED  BY <1>1, <1>2, <1>3, <1>5, <1>6 DEF fit

LEMMA GivesFacts ==
  ASSUME NEW item \in CepArrived, NEW ignored \in BOOLEAN, NEW frames \in 0 .. MaxWinLen
  PROVE  /\ Gives(item, ignored, frames) \in Seq(CepThings)
         /\ FramesAfter(item, ignored, frames) \in 0 .. MaxWinLen
<1>1. item \in CepThings /\ << item >> \in Seq(CepThings) /\ << >> \in Seq(CepThings) /\ MaxWinLen \in Nat
  BY CepAssumption DEF CepThings
<1> QED  BY <1>1, FittingFacts DEF Gives, FramesAfter

LEMMA DueFacts ==
  ASSUME NEW item \in CepArrived, NEW h \in CepHists, h.over => h.frames = 0
  PROVE  LET new == CepDue(item, h)
         IN  /\ new \in CepHists /\ new.put = h.put
             /\ new.due = h.due \o Gives(item, h.ignored, h.frames)
             /\ new.ignored = IgnoredAfter(item, h.ignored)
             /\ new.frames = FramesAfter(item, h.ignored, h.frames)
             /\ new.over => new.frames = 0
<1> DEFINE new == CepDue(item, h)
           gives == Gives(item, h.ignored, h.frames)
<1>1. /\ h.ignored \in BOOLEAN /\ h.frames \in 0 .. MaxWinLen /\ h.due \in Seq(CepThings)
      /\ h.over \in BOOLEAN
  BY DEF CepHists
<1>2. gives \in Seq(CepThings) /\ FramesAfter(item, h.ignored, h.frames) \in 0 .. MaxWinLen
  BY <1>1, GivesFacts
<1>3. h.due \o gives \in Seq(CepThings) /\ h.due \o << >> = h.due
  BY <1>1, <1>2, Joined, JoinedEmpty
<1>4. item \in CepThings
  BY DEF CepThings
<1>5. Append(h.due, item) = h.due \o << item >>
  BY <1>1, <1>4, Appended
<1> HIDE DEF gives
<1>6. CASE h.ignored
  <2>1. gives = << >> /\ FramesAfter(item, h.ignored, h.frames) = h.frames
    BY <1>6 DEF gives, Gives, FramesAfter
  <2>2. new = [h EXCEPT !.ignored = item.kind # "IGN_END"]
    BY <1>6 DEF CepDue
  <2> HIDE DEF new
  <2>3. /\ new \in CepHists /\ new.put = h.put /\ new.due = h.due /\ new.frames = h.frames
        /\ new.ignored = (item.kind # "IGN_END") /\ new.over = h.over
    BY <2>2 DEF CepHists
  <2> QED  BY <1>3, <1>6, <2>1, <2>3 DEF new, gives, IgnoredAfter
<1>7. CASE ~h.ignored /\ item.kind = "PHONE"
  <2> DEFINE fit == Fitting(item, h.frames)
  <2>1. gives = Given(fit) /\ FramesAfter(item, h.ignored, h.frames) = h.frames + Len(fit)
    BY <1>7 DEF gives, Gives, FramesAfter, Forwarding
  <2>2. new = [h EXCEPT !.due = @ \o gives, !.frames = @ + Len(fit), !.over = FALSE]
    BY <1>7, <2>1 DEF CepDue, Fitting, Given
  <2> HIDE DEF new, fit
  <2>3. /\ new \in CepHists /\ new.put = h.put /\ new.due = h.due \o gives
        /\ new.frames = h.frames + Len(fit) /\ new.ignored = h.ignored /\ new.over = FALSE
    BY <1>2, <1>3, <2>1, <2>2 DEF CepHists
  <2>4. IgnoredAfter(item, h.ignored) = h.ignored
    BY <1>1, <1>7 DEF IgnoredAfter
  <2> QED  BY <2>1, <2>3, <2>4 DEF new, gives
<1>8. CASE ~h.ignored /\ item.kind \in {"IGN_START", "IGN_END"}
  <2>1. gives = << >> /\ FramesAfter(item, h.ignored, h.frames) = h.frames
    BY <1>8 DEF gives, Gives, FramesAfter, Forwarding, EndsSentence
  <2>2. new = [h EXCEPT !.ignored = item.kind = "IGN_START"]
    BY <1>1, <1>8 DEF CepDue, CepHists
  <2> HIDE DEF new
  <2>3. /\ new \in CepHists /\ new.put = h.put /\ new.due = h.due /\ new.frames = h.frames
        /\ new.ignored = (item.kind = "IGN_START") /\ new.over = h.over
    BY <2>2 DEF CepHists
  <2> QED  BY <1>3, <1>8, <2>1, <2>3 DEF new, gives, IgnoredAfter
<1>9. CASE ~h.ignored /\ item.kind \notin {"PHONE", "IGN_START", "IGN_END"}
  <2>1. /\ gives = << item >>
        /\ FramesAfter(item, h.ignored, h.frames) = IF EndsSentence(item) THEN 0 ELSE h.frames
    BY <1>9 DEF gives, Gives, FramesAfter, Forwarding
  <2>2. new = [h EXCEPT !.due = Append(@, item), !.frames = IF EndsSentence(item) THEN 0 ELSE @,
                        !.over = EndsSentence(item) \/ h.frames = 0]
    BY <1>9 DEF CepDue
  <2> HIDE DEF new
  <2>3. /\ new \in CepHists /\ new.put = h.put /\ new.due = h.due \o gives
        /\ new.frames = (IF EndsSentence(item) THEN 0 ELSE h.frames)
        /\ new.ignored = h.ignored /\ new.over = (EndsSentence(item) \/ h.frames = 0)
    <3>1. Append(h.due, item) \in Seq(CepThings) /\ Append(h.due, item) = h.due \o gives
      BY <1>3, <1>5, <2>1
    <3>2. (EndsSentence(item) \/ h.frames = 0) \in BOOLEAN
      BY DEF EndsSentence
    <3>3. (IF EndsSentence(item) THEN 0 ELSE h.frames) \in 0 .. MaxWinLen
      BY <1>1, CepAssumption
    <3> QED  BY <2>2, <3>1, <3>2, <3>3 DEF CepHists
  <2>4. IgnoredAfter(item, h.ignored) = h.ignored
    BY <1>1, <1>9 DEF IgnoredAfter
  <2>5. new.over => new.frames = 0
    BY <2>3
  <2> QED  BY <2>1, <2>3, <2>4, <2>5 DEF new, gives
<1> QED  BY <1>6, <1>7, <1>8, <1>9

-----------------------------------------------------------------------------
(* The steps.                                                               *)
LEMMA Fields ==
  ASSUME CepTypeOK
  PROVE  /\ cep.item \in Seq(CepArrived) /\ cep.out \in Seq(CepThings)
         /\ cep.follow \in {"COLLECT", "PARSE", "FRAME"}
         /\ cep.ignore \in BOOLEAN /\ cep.sentenceEnd \in BOOLEAN
         /\ cep.headx \in Seq(CepKept) /\ cep.bottom \in Nat /\ cep.cbuf \in Nat
         /\ cep.index \in [0 .. MaxWinLen - 1 -> Frames]
         /\ cep.read \in Nat /\ cep.write \in 0 .. MaxWinLen /\ cep.end \in Nat
         /\ MaxWinLen \in Nat \ {0}
         /\ \A k \in 1 .. Len(cep.headx) :
              cep.headx[k].frame \in Nat /\ cep.headx[k].item \in CepArrived
<1>1. \A k \in 1 .. Len(cep.headx) : cep.headx[k] \in CepKept
  <2>1. cep.headx \in Seq(CepKept)
    BY DEF CepTypeOK, CepStates
  <2> QED  BY <2>1
<1> QED  BY <1>1, CepAssumption DEF CepTypeOK, CepStates, CepKept

\* The item in inBuf.
LEMMA ItemIn ==
  ASSUME CepInv, cep.item # << >>
  PROVE  /\ CepItem \in CepArrived /\ CepItem \in CepThings
         /\ cep.item = << CepItem >>
<1>1. cep.item \in Seq(CepArrived) /\ Len(cep.item) <= 1
  BY Fields DEF CepInv, CepPhases
<1> QED  BY <1>1 DEF CepItem, CepThings

LEMMA OwesFacts ==
  ASSUME CepInv
  PROVE  /\ ItemOwes \in Seq(CepThings) /\ cepHist.put \in Seq(CepThings) /\ cepHist.due \in Seq(CepThings)
         /\ cep.item = << >> => ItemOwes = << >>
<1>1. cep.ignore \in BOOLEAN /\ cep.write \in 0 .. MaxWinLen
  BY Fields DEF CepInv
<1>2. cepHist.put \in Seq(CepThings) /\ cepHist.due \in Seq(CepThings)
  BY DEF CepInv, CepTypeOK, CepHists
<1>3. CASE cep.item = << >>
  BY <1>2, <1>3 DEF ItemOwes
<1>4. CASE cep.item # << >>
  <2>1. CepItem \in CepArrived
    BY <1>4, ItemIn
  <2> QED  BY <1>1, <1>2, <1>4, <2>1, GivesFacts DEF ItemOwes
<1> QED  BY <1>3, <1>4

LEMMA CepStarts == CepInit => CepInv
<1> SUFFICES ASSUME CepInit PROVE CepInv
  OBVIOUS
<1>1. cep = NewCep([i \in 0 .. MaxWinLen - 1 |-> NoFrame], "COLLECT") /\ cepHist = NewCepHist
  BY DEF CepInit
<1>2. fed = 0 /\ cbIn = << >> /\ procState = "COLLECT" /\ MaxWinLen \in Nat \ {0}
  BY CepAssumption DEF CepInit, UnitInit
<1> USE CepAssumption
<1>3. [i \in 0 .. MaxWinLen - 1 |-> NoFrame] \in [0 .. MaxWinLen - 1 -> Frames]
  BY DEF NoFrame, Frames
<1>4. CepTypeOK
  <2>1. cep \in CepStates
    BY <1>1, <1>2, <1>3 DEF CepStates, NewCep
  <2>2. cepHist \in CepHists
    BY <1>1, <1>2 DEF CepHists, NewCepHist
  <2>3. cbIn \in Seq(CepArrived)
    BY <1>2
  <2> QED  BY <1>2, <2>1, <2>2, <2>3 DEF CepTypeOK
<1>5. CepPhases
  BY <1>1, <1>2 DEF CepPhases, GoingOut, NewCep, Waiting
<1>6. Told
  BY <1>1 DEF Told, NewCep, NewCepHist
<1>7. CepOwed
  <2>1. Gathered(<< >>)
    BY <1>1 DEF Gathered, Merged, NewCep
  <2>2. cepHist.due = cepHist.put \o (cep.out \o (<< >> \o ItemOwes))
    BY <1>1 DEF ItemOwes, NewCep, NewCepHist
  <2>3. << >> \in Seq(CepThings)
    OBVIOUS
  <2> QED  BY <2>1, <2>2, <2>3 DEF CepOwed
<1> QED  BY <1>4, <1>5, <1>6, <1>7 DEF CepInv

\* Only the buffers around the unit, or what a call returned, change.
LEMMA Outside ==
  ASSUME CepInv, UNCHANGED << cep, cepHist, procState >>, fed' \in Nat, cbIn' \in Seq(CepArrived)
  PROVE  CepInv'
<1>1. CepTypeOK'
  BY DEF CepInv, CepTypeOK
<1>2. CepPhases'
  BY DEF CepInv, CepPhases, GoingOut, CepItem
<1>3. Told'
  BY DEF CepInv, Told, CepItem
<1>4. CepOwed'
  BY DEF CepInv, CepOwed, Gathered, ItemOwes, CepItem
<1> QED  BY <1>1, <1>2, <1>3, <1>4 DEF CepInv

LEMMA CollectStep ==
  ASSUME CepInv, CepCollect
  PROVE  CepInv'
<1>1. /\ procState = "COLLECT" /\ procState' = "PARSE" /\ UNCHANGED fed
      /\ cbIn # << >> /\ cbIn' = Tail(cbIn)
      /\ cep' = [cep EXCEPT !.item = << Head(cbIn) >>]
      /\ cepHist' = CepDue(Head(cbIn), cepHist)
  BY DEF CepCollect, Running, Take, Leave
<1> DEFINE it == Head(cbIn)
<1>2. cbIn \in Seq(CepArrived) /\ fed \in Nat /\ cep \in CepStates /\ cepHist \in CepHists
  BY DEF CepInv, CepTypeOK
<1>3. it \in CepArrived /\ Tail(cbIn) \in Seq(CepArrived)
  BY <1>1, <1>2
<1>4. cep.item = << >> /\ cep.out = << >> /\ ~GoingOut
  BY <1>1 DEF CepInv, CepPhases, GoingOut
<1> HIDE DEF it
<1>5. /\ cep' \in CepStates /\ cep'.item = << it >> /\ cep'.out = cep.out /\ cep'.ignore = cep.ignore
      /\ cep'.headx = cep.headx /\ cep'.index = cep.index /\ cep'.bottom = cep.bottom
      /\ cep'.read = cep.read /\ cep'.write = cep.write
  <2>1. cep' = [cep EXCEPT !.item = << it >>] /\ << it >> \in Seq(CepArrived)
    BY <1>1, <1>3 DEF it
  <2> QED  BY <1>2, <2>1 DEF CepStates
<1>6. cepHist.over => cepHist.frames = 0
  BY DEF CepInv, Told
<1>7. cepHist.ignored = cep.ignore /\ cepHist.frames = cep.write
  BY <1>4 DEF CepInv, Told
<1>8. /\ cepHist' \in CepHists /\ cepHist'.put = cepHist.put
      /\ cepHist'.due = cepHist.due \o Gives(it, cep.ignore, cep.write)
      /\ cepHist'.ignored = IgnoredAfter(it, cep.ignore)
      /\ cepHist'.frames = FramesAfter(it, cep.ignore, cep.write)
      /\ cepHist'.over => cepHist'.frames = 0
  BY <1>1, <1>2, <1>3, <1>6, <1>7, DueFacts, ZenonT(60) DEF it
<1>9. cep'.item[1] = it /\ Len(cep'.item) = 1 /\ cep'.item # << >>
  BY <1>5
<1>10. CepTypeOK'
  BY <1>1, <1>2, <1>3, <1>5, <1>8 DEF CepTypeOK
<1>11. CepPhases'
  BY <1>1, <1>4, <1>5, <1>9 DEF CepInv, CepPhases, GoingOut
<1>12. Told'
  BY <1>5, <1>8, <1>9 DEF Told, CepItem
<1>13. CepOwed'
  <2>1. PICK R \in Seq(CepThings) :
          Gathered(R) /\ cepHist.due = cepHist.put \o (cep.out \o (R \o ItemOwes))
    BY DEF CepInv, CepOwed
  <2>2. cepHist.due = cepHist.put \o R
    BY <1>4, <2>1, JoinedEmpty DEF ItemOwes
  <2> DEFINE g == Gives(it, cep.ignore, cep.write)
             p == cepHist.put
  <2>3. g \in Seq(CepThings) /\ ItemOwes' = g
    BY <1>2, <1>3, <1>5, <1>9, GivesFacts DEF ItemOwes, CepItem, CepStates
  <2>4. p \in Seq(CepThings)
    BY <1>2 DEF CepHists
  <2> HIDE DEF g, p
  <2>5. (p \o R) \o g = p \o (<< >> \o (R \o g))
    <3>1. R \o g \in Seq(CepThings) /\ << >> \o (R \o g) = R \o g
      BY <2>1, <2>3, Joined, JoinedEmpty
    <3>2. (p \o R) \o g = p \o (R \o g)
      BY <2>1, <2>3, <2>4, ThreeInARow, SMTT(60)
    <3> QED  BY <3>1, <3>2
  <2>6. cepHist'.due = cepHist'.put \o (cep'.out \o (R \o ItemOwes'))
    BY <1>4, <1>5, <1>8, <2>2, <2>3, <2>5 DEF g, p
  <2>7. Gathered(R)'
    BY <1>5, <2>1 DEF Gathered
  <2> QED  BY <2>6, <2>7 DEF CepOwed
<1> QED  BY <1>10, <1>11, <1>12, <1>13 DEF CepInv

LEMMA EmptyStep ==
  ASSUME CepInv, CepEmpty
  PROVE  CepInv'
<1>1. /\ procState = "PARSE" /\ procState' = "COLLECT" /\ cep.item = << >>
      /\ UNCHANGED << fed, cbIn, cep, cepHist >>
  BY DEF CepEmpty, Running, Leave, NoTransfer
<1>2. CepTypeOK'
  BY <1>1 DEF CepInv, CepTypeOK
<1>3. CepPhases'
  BY <1>1 DEF CepInv, CepPhases, GoingOut, CepItem
<1>4. Told'
  BY <1>1 DEF CepInv, Told, CepItem
<1>5. CepOwed'
  BY <1>1 DEF CepInv, CepOwed, Gathered, ItemOwes, CepItem
<1> QED  BY <1>2, <1>3, <1>4, <1>5 DEF CepInv

\* An item that gives nothing: one that is ignored, or a mark of an ignored stretch.
LEMMA MarkStep ==
  ASSUME CepInv, CepIgnored \/ CepIgnoreMark
  PROVE  CepInv'
<1>1. /\ procState = "PARSE" /\ procState' = procState /\ cep.item # << >>
      /\ UNCHANGED << fed, cbIn, cepHist >>
  BY DEF CepIgnored, CepIgnoreMark, Parsing, Running, Return, NoTransfer
<1>2. /\ cep' = [cep EXCEPT !.item = << >>, !.ignore = IgnoredAfter(CepItem, cep.ignore)]
      /\ ItemOwes = << >>
      /\ FramesAfter(CepItem, cep.ignore, cep.write) = cep.write
  <2>1. CASE CepIgnored
    BY <1>1, <2>1 DEF CepIgnored, IgnoredAfter, ItemOwes, Gives, FramesAfter
  <2>2. CASE CepIgnoreMark
    <3>1. ~cep.ignore /\ CepItem.kind \in {"IGN_START", "IGN_END"}
      BY <2>2 DEF CepIgnoreMark, Parsing, Forwarding
    <3>2. CepItem.kind # "PHONE" /\ ~EndsSentence(CepItem) /\ ~Forwarding(CepItem)
      BY <3>1 DEF EndsSentence, Forwarding
    <3>3. cep' = [cep EXCEPT !.item = << >>, !.ignore = CepItem.kind = "IGN_START"]
      BY <2>2 DEF CepIgnoreMark
    <3> QED  BY <1>1, <3>1, <3>2, <3>3 DEF IgnoredAfter, ItemOwes, Gives, FramesAfter
  <2> QED  BY <2>1, <2>2
<1>3. IgnoredAfter(CepItem, cep.ignore) \in BOOLEAN /\ cep \in CepStates
  BY DEF CepInv, CepTypeOK, CepStates, IgnoredAfter
<1>4. /\ cep' \in CepStates /\ cep'.item = << >> /\ cep'.out = cep.out
      /\ cep'.ignore = IgnoredAfter(CepItem, cep.ignore)
      /\ cep'.headx = cep.headx /\ cep'.index = cep.index /\ cep'.bottom = cep.bottom
      /\ cep'.read = cep.read /\ cep'.write = cep.write
  <2> DEFINE ig == IgnoredAfter(CepItem, cep.ignore)
  <2>1. cep' = [cep EXCEPT !.item = << >>, !.ignore = ig] /\ << >> \in Seq(CepArrived)
    BY <1>2
  <2>2. ig \in BOOLEAN
    BY <1>3
  <2> HIDE DEF ig
  <2>3. /\ cep' \in CepStates /\ cep'.item = << >> /\ cep'.out = cep.out /\ cep'.ignore = ig
        /\ cep'.headx = cep.headx /\ cep'.index = cep.index /\ cep'.bottom = cep.bottom
        /\ cep'.read = cep.read /\ cep'.write = cep.write
    BY <1>3, <2>1, <2>2 DEF CepStates
  <2> QED  BY <2>3 DEF ig
<1>5. CepTypeOK'
  BY <1>1, <1>4 DEF CepInv, CepTypeOK
<1>6. CepPhases'
  BY <1>1, <1>4 DEF CepInv, CepPhases, GoingOut
<1>7. Told'
  BY <1>1, <1>2, <1>4 DEF CepInv, Told
<1>8. CepOwed'
  BY <1>1, <1>2, <1>4 DEF CepInv, CepOwed, Gathered, ItemOwes
<1> QED  BY <1>5, <1>6, <1>7, <1>8 DEF CepInv

\* What is gathered, when nothing is going out.
LEMMA GatheredNow ==
  ASSUME CepInv, procState = "PARSE"
  PROVE  /\ \E R \in Seq(CepThings) :
              /\ Merged(R, cep.headx, cep.index, 0, 0, cep.write)
              /\ cepHist.due = cepHist.put \o (R \o ItemOwes)
         /\ Waiting(cep.headx, 0, 0, cep.write)
         /\ cep.read = 0 /\ cep.bottom = 0 /\ cep.out = << >>
<1>1. cep.read = 0 /\ cep.bottom = 0 /\ cep.out = << >> /\ Waiting(cep.headx, 0, 0, cep.write)
  BY DEF CepInv, CepPhases, GoingOut
<1>2. PICK R \in Seq(CepThings) :
        Gathered(R) /\ cepHist.due = cepHist.put \o (cep.out \o (R \o ItemOwes))
  BY DEF CepInv, CepOwed
<1>3. R \o ItemOwes \in Seq(CepThings)
  BY <1>2, OwesFacts, Joined
<1>4. cep.out \o (R \o ItemOwes) = R \o ItemOwes
  BY <1>1, <1>3, JoinedEmpty
<1> QED  BY <1>1, <1>2, <1>4 DEF Gathered

LEMMA PhoneStep ==
  ASSUME CepInv, CepPhone
  PROVE  CepInv'
<1>1. /\ procState = "PARSE" /\ procState' = procState /\ cep.item # << >> /\ ~cep.ignore
      /\ CepItem.kind = "PHONE" /\ cep' = WithPhone(cep, CepItem)
      /\ UNCHANGED << fed, cbIn, cepHist >>
  BY DEF CepPhone, Parsing, Running, Return, NoTransfer
<1>2. CepItem \in CepArrived /\ cep \in CepStates
  BY <1>1, ItemIn DEF CepInv, CepTypeOK
<1> DEFINE fit == Fitting(CepItem, cep.write)
           n == Len(fit)
           w == cep.write
           ix == cep.index
           iy == [i \in DOMAIN ix |-> IF i - w + 1 \in DOMAIN fit THEN fit[i - w + 1] ELSE ix[i]]
<1>3. /\ w \in 0 .. MaxWinLen /\ ix \in [0 .. MaxWinLen - 1 -> Frames] /\ MaxWinLen \in Nat \ {0}
      /\ cep.headx \in Seq(CepKept) /\ \A k \in 1 .. Len(cep.headx) : cep.headx[k].frame \in Nat
  BY Fields DEF CepInv
<1>4. /\ fit \in Seq(Frames) /\ w + n \in 0 .. MaxWinLen /\ n \in Nat
      /\ Given(fit) \in Seq(CepThings) /\ Len(Given(fit)) = n /\ DOMAIN fit = 1 .. n
      /\ \A i \in 1 .. n : Given(fit)[i] = FrameItem(fit[i]) /\ fit[i] \in Frames
  BY <1>2, <1>3, FittingFacts, Lengths
<1>5. cep' = [cep EXCEPT !.index = iy, !.write = w + n, !.item = << >>]
  BY <1>1 DEF WithPhone, Fitting
<1>6. /\ Gives(CepItem, cep.ignore, w) = Given(fit)
      /\ FramesAfter(CepItem, cep.ignore, w) = w + n
      /\ IgnoredAfter(CepItem, cep.ignore) = cep.ignore
  <2>1. cep.ignore \in BOOLEAN
    BY <1>2 DEF CepStates
  <2> QED  BY <1>1, <2>1 DEF Gives, FramesAfter, IgnoredAfter, Forwarding
<1> HIDE DEF fit, n
<1>7. /\ iy \in [0 .. MaxWinLen - 1 -> Frames]
      /\ \A j \in 0 .. w - 1 : iy[j] = ix[j]
      /\ \A i \in 1 .. n : iy[w + i - 1] = fit[i]
  <2>1. DOMAIN ix = 0 .. MaxWinLen - 1
    BY <1>3
  <2>2. \A i \in 0 .. MaxWinLen - 1 :
           iy[i] = IF i - w + 1 \in 1 .. n THEN fit[i - w + 1] ELSE ix[i]
    BY <1>4, <2>1
  <2>3. iy \in [0 .. MaxWinLen - 1 -> Frames]
    BY <1>3, <1>4, <2>1
  <2> HIDE DEF iy
  <2>4. ASSUME NEW j \in 0 .. w - 1 PROVE iy[j] = ix[j]
    <3>1. j \in 0 .. MaxWinLen - 1 /\ j - w + 1 \notin 1 .. n
      BY <1>3, <1>4
    <3> QED  BY <2>2, <3>1
  <2>5. ASSUME NEW i \in 1 .. n PROVE iy[w + i - 1] = fit[i]
    <3>1. w + i - 1 \in 0 .. MaxWinLen - 1 /\ (w + i - 1) - w + 1 = i
      BY <1>3, <1>4
    <3> QED  BY <2>2, <3>1
  <2> QED  BY <2>3, <2>4, <2>5
<1> HIDE DEF iy
<1>8. /\ cep' \in CepStates /\ cep'.item = << >> /\ cep'.out = cep.out /\ cep'.ignore = cep.ignore
      /\ cep'.headx = cep.headx /\ cep'.index = iy /\ cep'.bottom = cep.bottom
      /\ cep'.read = cep.read /\ cep'.write = w + n
  <2> DEFINE wn == w + n
  <2>1. wn \in 0 .. MaxWinLen /\ << >> \in Seq(CepArrived)
    BY <1>4
  <2> HIDE DEF wn
  <2>2. cep' = [cep EXCEPT !.index = iy, !.write = wn, !.item = << >>]
    BY <1>5 DEF wn
  <2>3. /\ cep' \in CepStates /\ cep'.item = << >> /\ cep'.out = cep.out /\ cep'.ignore = cep.ignore
        /\ cep'.headx = cep.headx /\ cep'.index = iy /\ cep'.bottom = cep.bottom
        /\ cep'.read = cep.read /\ cep'.write = wn
    BY <1>2, <1>7, <2>1, <2>2 DEF CepStates
  <2> QED  BY <2>3 DEF wn
<1>9. PICK R \in Seq(CepThings) : /\ Merged(R, cep.headx, ix, 0, 0, w)
                               /\ cepHist.due = cepHist.put \o (R \o ItemOwes)
  BY <1>1, GatheredNow
<1>10. /\ Waiting(cep.headx, 0, 0, w) /\ cep.read = 0 /\ cep.bottom = 0 /\ cep.out = << >>
  BY <1>1, GatheredNow
<1> DEFINE G == Given(fit)
           hx == cep.headx
<1>11. Merged(R \o G, hx, iy, 0, 0, w + n) /\ Waiting(hx, 0, 0, w + n)
  <2>1. /\ w \in Nat /\ hx \in Seq(CepKept) /\ \A k \in 1 .. Len(hx) : hx[k].frame \in Nat
        /\ Merged(R, hx, ix, 0, 0, w) /\ Waiting(hx, 0, 0, w)
    BY <1>3, <1>9, <1>10
  <2>2. Extended(iy, ix, w, fit)
    BY <1>7 DEF Extended, n
  <2>3. fit \in Seq(Frames) /\ Given(fit) \in Seq(CepThings)
    BY <1>4
  <2> HIDE DEF hx, ix, w
  <2> QED  BY <2>1, <2>2, <2>3, MergeFrames DEF n
<1>12. CepTypeOK'
  BY <1>1, <1>8 DEF CepInv, CepTypeOK
<1>13. CepPhases'
  <2>1. cep'.write = 0 => cep.write = 0
    BY <1>3, <1>4, <1>8
  <2>2. ~GoingOut' /\ ~GoingOut
    BY <1>1 DEF GoingOut
  <2> QED  BY <1>1, <1>8, <1>10, <1>11, <2>1, <2>2 DEF CepInv, CepPhases
<1>14. Told'
  BY <1>1, <1>6, <1>8 DEF CepInv, Told
<1>15. CepOwed'
  <2>1. ItemOwes = G /\ ItemOwes' = << >>
    BY <1>1, <1>6, <1>8 DEF ItemOwes
  <2>2. PICK RG \in Seq(CepThings) : RG = R \o G
    BY <1>4, <1>9, Joined
  <2> HIDE DEF G
  <2>3. cep'.out \o (RG \o << >>) = RG /\ cepHist'.due = cepHist'.put \o RG
    BY <1>1, <1>8, <1>9, <1>10, <2>1, <2>2, JoinedEmpty
  <2>4. Gathered(RG)'
    BY <1>8, <1>10, <1>11, <2>2 DEF Gathered
  <2> QED  BY <2>1, <2>3, <2>4 DEF CepOwed
<1> QED  BY <1>12, <1>13, <1>14, <1>15 DEF CepInv

\* An item that is not a phone is owed as it is.
LEMMA PassingOwes ==
  ASSUME CepInv, Parsing, Passing(CepItem)
  PROVE  /\ CepItem \in CepArrived /\ CepItem \in CepThings /\ ItemOwes = << CepItem >>
         /\ IgnoredAfter(CepItem, cep.ignore) = cep.ignore
         /\ FramesAfter(CepItem, cep.ignore, cep.write) =
              IF EndsSentence(CepItem) THEN 0 ELSE cep.write
<1>1. cep.item # << >> /\ ~cep.ignore /\ CepItem.kind \notin {"PHONE", "IGN_START", "IGN_END"}
  BY DEF Parsing, Passing, Forwarding
<1>2. cep.ignore \in BOOLEAN
  BY Fields DEF CepInv
<1>3. CepItem \in CepArrived /\ CepItem \in CepThings
  BY <1>1, ItemIn
<1> QED  BY <1>1, <1>2, <1>3 DEF ItemOwes, Gives, Forwarding, IgnoredAfter, FramesAfter

LEMMA PassStep ==
  ASSUME CepInv, CepPass
  PROVE  CepInv'
<1>1. /\ Parsing /\ Passing(CepItem) /\ cep.write = 0 /\ procState = "PARSE" /\ procState' = "FEED"
      /\ cep' = [cep EXCEPT !.out = << CepItem >>, !.follow = "PARSE", !.item = << >>]
      /\ UNCHANGED << fed, cbIn, cepHist >>
  BY DEF CepPass, Parsing, Running, Leave, NoTransfer
<1> DEFINE it == CepItem
<1>2. /\ it \in CepThings /\ << it >> \in Seq(CepThings) /\ cep \in CepStates /\ << >> \in Seq(CepArrived)
      /\ ItemOwes = << it >> /\ IgnoredAfter(CepItem, cep.ignore) = cep.ignore
      /\ FramesAfter(CepItem, cep.ignore, cep.write) = 0
  BY <1>1, PassingOwes DEF CepInv, CepTypeOK
<1>3. cep.item # << >>
  BY <1>1 DEF Parsing
<1> HIDE DEF it
<1>4. /\ cep' \in CepStates /\ cep'.item = << >> /\ cep'.out = << it >> /\ cep'.ignore = cep.ignore
      /\ cep'.headx = cep.headx /\ cep'.index = cep.index /\ cep'.bottom = cep.bottom
      /\ cep'.read = cep.read /\ cep'.write = 0 /\ cep'.follow = "PARSE"
  <2>1. cep' = [cep EXCEPT !.out = << it >>, !.follow = "PARSE", !.item = << >>]
    BY <1>1 DEF it
  <2> QED  BY <1>1, <1>2, <2>1 DEF CepStates
<1>5. /\ Waiting(cep.headx, 0, 0, 0) /\ cep.read = 0 /\ cep.bottom = 0 /\ cep.headx = << >>
  BY <1>1, GatheredNow DEF CepInv, CepPhases
<1>6. CepTypeOK'
  BY <1>1, <1>4 DEF CepInv, CepTypeOK
<1>7. CepPhases'
  <2>1. Len(cep'.out) = 1 /\ Len(cep'.item) = 0 /\ ~GoingOut'
    BY <1>1, <1>4 DEF GoingOut
  <2> QED  BY <1>1, <1>4, <1>5, <2>1 DEF CepPhases
<1>8. Told'
  BY <1>1, <1>2, <1>3, <1>4 DEF CepInv, Told
<1>9. CepOwed'
  <2>1. PICK R \in Seq(CepThings) : /\ Merged(R, cep.headx, cep.index, 0, 0, 0)
                                 /\ cepHist.due = cepHist.put \o (R \o ItemOwes)
    BY <1>1, GatheredNow
  <2>2. R = << >>
    <3>1. Len(R) = 0
      BY <1>5, <2>1 DEF Merged
    <3> QED  BY <3>1, JoinedEmpty
  <2>3. cepHist'.due = cepHist'.put \o << it >>
    BY <1>1, <1>2, <2>1, <2>2, JoinedEmpty
  <2>4. cep'.out \o (R \o << >>) = << it >>
    BY <1>2, <1>4, <2>2, JoinedEmpty
  <2>5. Gathered(R)' /\ ItemOwes' = << >>
    BY <1>4, <1>5, <2>1 DEF Gathered, ItemOwes
  <2> QED  BY <2>1, <2>3, <2>4, <2>5 DEF CepOwed
<1> QED  BY <1>6, <1>7, <1>8, <1>9 DEF CepInv

LEMMA KeepStep ==
  ASSUME CepInv, CepKeep
  PROVE  CepInv'
<1>1. /\ Parsing /\ Passing(CepItem) /\ cep.write > 0 /\ ~EndsSentence(CepItem)
      /\ procState = "PARSE" /\ procState' = procState
      /\ cep' = [cep EXCEPT !.headx = Append(@, [item |-> CepItem, frame |-> cep.write]),
                            !.cbuf = @ + CepItem.len, !.item = << >>]
      /\ UNCHANGED << fed, cbIn, cepHist >>
  BY DEF CepKeep, Parsing, Running, Return, NoTransfer
<1> DEFINE it == CepItem
           w == cep.write
           e == [item |-> it, frame |-> w]
           hx == cep.headx
           he == Append(hx, e)
           buf == cep.cbuf + it.len
<1>2. /\ it \in CepArrived /\ it \in CepThings /\ cep \in CepStates /\ << >> \in Seq(CepArrived)
      /\ ItemOwes = << it >> /\ IgnoredAfter(CepItem, cep.ignore) = cep.ignore
      /\ FramesAfter(CepItem, cep.ignore, cep.write) = w
  BY <1>1, PassingOwes DEF CepInv, CepTypeOK
<1>3. /\ w \in Nat /\ hx \in Seq(CepKept) /\ cep.cbuf \in Nat /\ it.len \in Nat
      /\ \A k \in 1 .. Len(hx) : hx[k].frame \in Nat
  <2>1. it.len \in Nat
    BY <1>2, CepItemFacts
  <2> QED  BY <2>1, Fields DEF CepInv
<1>4. /\ e \in CepKept /\ e.frame = w /\ e.item = it /\ he \in Seq(CepKept) /\ buf \in Nat
      /\ Len(he) = Len(hx) + 1
  <2>1. e \in CepKept /\ e.frame = w /\ e.item = it /\ buf \in Nat
    BY <1>2, <1>3 DEF CepKept
  <2> HIDE DEF e, buf
  <2> QED  BY <1>3, <2>1
<1>5. cep.item # << >>
  BY <1>1 DEF Parsing
<1> HIDE DEF e, he, buf
<1>6. /\ cep' \in CepStates /\ cep'.item = << >> /\ cep'.out = cep.out /\ cep'.ignore = cep.ignore
      /\ cep'.headx = he /\ cep'.index = cep.index /\ cep'.bottom = cep.bottom
      /\ cep'.read = cep.read /\ cep'.write = cep.write
  <2>1. cep' = [cep EXCEPT !.headx = he, !.cbuf = buf, !.item = << >>]
    BY <1>1 DEF he, e, buf
  <2> QED  BY <1>2, <1>4, <2>1 DEF CepStates
<1>7. PICK R \in Seq(CepThings) : /\ Merged(R, hx, cep.index, 0, 0, w)
                               /\ cepHist.due = cepHist.put \o (R \o ItemOwes)
  BY <1>1, GatheredNow
<1>8. Waiting(hx, 0, 0, w) /\ cep.read = 0 /\ cep.bottom = 0 /\ cep.out = << >>
  BY <1>1, GatheredNow
<1>9. Merged(Append(R, it), he, cep.index, 0, 0, w) /\ Waiting(he, 0, 0, w)
  <2>1. e \in CepKept /\ e.frame = w /\ e.item \in CepThings
    BY <1>2, <1>4
  <2> HIDE DEF hx, w, it
  <2> QED  BY <1>3, <1>4, <1>7, <1>8, <2>1, MergeItem DEF he
<1>10. CepTypeOK'
  BY <1>1, <1>6 DEF CepInv, CepTypeOK
<1>11. CepPhases'
  <2>1. ~GoingOut' /\ ~GoingOut /\ cep'.write # 0
    BY <1>1, <1>3, <1>6 DEF GoingOut
  <2>2. Waiting(cep'.headx, cep'.bottom, cep'.read, cep'.write)
    BY <1>6, <1>8, <1>9
  <2>3. Len(cep'.item) <= 1 /\ cep'.out = << >> /\ cep'.read = 0 /\ cep'.bottom = 0
    BY <1>6, <1>8
  <2> QED  BY <1>1, <1>6, <2>1, <2>2, <2>3 DEF CepPhases
<1>12. Told'
  BY <1>1, <1>2, <1>5, <1>6 DEF CepInv, Told
<1>13. CepOwed'
  <2> HIDE DEF it
  <2>1. Append(R, it) \in Seq(CepThings) /\ Append(R, it) = R \o << it >>
    BY <1>2, <1>7, Appended
  <2>2. PICK RG \in Seq(CepThings) : RG = R \o << it >> /\ RG = Append(R, it)
    BY <2>1
  <2>3. cep'.out \o (RG \o << >>) = RG /\ cepHist'.due = cepHist'.put \o RG
    BY <1>1, <1>2, <1>6, <1>7, <1>8, <2>2, JoinedEmpty, ZenonT(60)
  <2>4. Gathered(RG)' /\ ItemOwes' = << >>
    BY <1>6, <1>8, <1>9, <2>2 DEF Gathered, ItemOwes
  <2> QED  BY <2>3, <2>4 DEF CepOwed
<1> QED  BY <1>10, <1>11, <1>12, <1>13 DEF CepInv

LEMMA ToSmoothStep ==
  ASSUME CepInv, CepToSmooth, SentencesFit
  PROVE  CepInv'
<1>1. /\ Parsing /\ Passing(CepItem) /\ cep.write > 0 /\ EndsSentence(CepItem)
      /\ procState = "PARSE" /\ procState' = "SMOOTH"
      /\ cep' = [cep EXCEPT !.end = cep.write, !.sentenceEnd = TRUE]
      /\ UNCHANGED << fed, cbIn, cepHist >>
  BY DEF CepToSmooth, SentencesFit, Parsing, Running, Leave, NoTransfer
<1>2. cep \in CepStates /\ cep.write \in Nat
  BY Fields DEF CepInv, CepTypeOK
<1>3. /\ cep' \in CepStates /\ cep'.item = cep.item /\ cep'.out = cep.out /\ cep'.ignore = cep.ignore
      /\ cep'.headx = cep.headx /\ cep'.index = cep.index /\ cep'.bottom = cep.bottom
      /\ cep'.read = cep.read /\ cep'.write = cep.write
      /\ cep'.end = cep.write /\ cep'.sentenceEnd
  BY <1>1, <1>2 DEF CepStates
<1>4. CepTypeOK'
  BY <1>1, <1>3 DEF CepInv, CepTypeOK
<1>5. CepItem' = CepItem
  BY <1>3 DEF CepItem
<1>6. CepPhases'
  BY <1>1, <1>3, <1>5 DEF CepInv, CepPhases, GoingOut, Parsing, EndsSentence
<1>7. Told'
  BY <1>1, <1>3, <1>5 DEF CepInv, Told
<1>8. CepOwed'
  BY <1>1, <1>3, <1>5, ZenonT(60) DEF CepInv, CepOwed, Gathered, ItemOwes
<1> QED  BY <1>4, <1>6, <1>7, <1>8 DEF CepInv

LEMMA SmoothStep ==
  ASSUME CepInv, CepSmooth
  PROVE  CepInv'
<1>1. /\ procState = "SMOOTH" /\ procState' = "FRAME" /\ cep' = [cep EXCEPT !.read = 0]
      /\ UNCHANGED << fed, cbIn, cepHist >>
  BY DEF CepSmooth, Running, Leave, NoTransfer
<1>2. cep \in CepStates /\ cep.read = 0
  BY <1>1 DEF CepInv, CepTypeOK, CepPhases, GoingOut
<1>3. cep' = cep
  BY <1>1, <1>2 DEF CepStates
<1>4. CepTypeOK'
  BY <1>1, <1>3 DEF CepInv, CepTypeOK
<1>5. CepItem' = CepItem
  BY <1>3 DEF CepItem
<1>6. CepPhases'
  BY <1>1, <1>3, <1>5 DEF CepInv, CepPhases, GoingOut, EndsSentence
<1>7. Told'
  BY <1>1, <1>3, <1>5 DEF CepInv, Told
<1>8. CepOwed'
  BY <1>1, <1>3, <1>5 DEF CepInv, CepOwed, Gathered, ItemOwes
<1> QED  BY <1>4, <1>6, <1>7, <1>8 DEF CepInv

\* The first of what is gathered goes to outBuf; from there it is put.
LEMMA FirstGoesOut ==
  ASSUME NEW S, NEW p \in Seq(S), NEW R \in Seq(S), NEW o \in Seq(S), R # << >>
  PROVE  p \o (<< >> \o (R \o o)) = p \o (<< R[1] >> \o (Tail(R) \o o))
<1> DEFINE t == Tail(R)
           u == << R[1] >>
<1>1. R = u \o t /\ t \in Seq(S) /\ u \in Seq(S)
  BY CepHeadAndTail
<1> HIDE DEF t, u
<1>2. (u \o t) \o o = u \o (t \o o)
  BY <1>1, ThreeInARow
<1>3. R \o o \in Seq(S)
  BY Joined
<1>4. << >> \o (R \o o) = R \o o
  BY <1>3, JoinedEmpty
<1> QED  BY <1>1, <1>2, <1>4 DEF t, u

LEMMA PutGoesOn ==
  ASSUME NEW S, NEW p \in Seq(S), NEW x \in S, NEW r \in Seq(S)
  PROVE  /\ p \o (<< x >> \o r) = Append(p, x) \o (<< >> \o r)
         /\ Append(p, x) \in Seq(S)
<1>1. << x >> \in Seq(S) /\ Append(p, x) = p \o << x >> /\ Append(p, x) \in Seq(S)
  BY Appended
<1>2. << >> \o r = r
  BY JoinedEmpty
<1>3. (p \o << x >>) \o r = p \o (<< x >> \o r)
  BY <1>1, ThreeInARow
<1> QED  BY <1>1, <1>2, <1>3

\* What the two steps that fill outBuf have in common.
LEMMA GoingStep ==
  ASSUME CepInv, procState = "FRAME", procState' = "FEED", UNCHANGED << fed, cbIn, cepHist >>,
         NEW x \in CepThings, NEW b \in Nat, NEW r \in Nat,
         cep' = [cep EXCEPT !.out = << x >>, !.bottom = b, !.read = r, !.follow = "FRAME"],
         Waiting(cep.headx, b, r, cep.write),
         NEW R \in Seq(CepThings), R # << >>, R[1] = x,
         cepHist.due = cepHist.put \o (cep.out \o (R \o ItemOwes)),
         Merged(Tail(R), cep.headx, cep.index, b, r, cep.write)
  PROVE  CepInv'
<1>1. cep \in CepStates /\ << x >> \in Seq(CepThings) /\ cep.out = << >>
  BY DEF CepInv, CepTypeOK, CepPhases
<1>2. /\ cep' \in CepStates /\ cep'.item = cep.item /\ cep'.out = << x >> /\ cep'.ignore = cep.ignore
      /\ cep'.headx = cep.headx /\ cep'.index = cep.index /\ cep'.bottom = b
      /\ cep'.read = r /\ cep'.write = cep.write /\ cep'.follow = "FRAME"
      /\ cep'.end = cep.end /\ cep'.sentenceEnd = cep.sentenceEnd
  BY <1>1 DEF CepStates
<1>3. CepTypeOK'
  BY <1>2 DEF CepInv, CepTypeOK
<1>4. CepItem' = CepItem
  BY <1>2 DEF CepItem
<1>5. CepPhases'
  <2>1. GoingOut' /\ GoingOut /\ Len(cep'.out) = 1
    BY <1>2 DEF GoingOut
  <2> QED  BY <1>2, <1>4, <2>1 DEF CepInv, CepPhases, EndsSentence
<1>6. Told'
  BY <1>2, <1>4 DEF CepInv, Told
<1>7. CepOwed'
  <2> DEFINE p == cepHist.put
             o == ItemOwes
             t == Tail(R)
  <2>1. p \in Seq(CepThings) /\ o \in Seq(CepThings)
    BY OwesFacts
  <2>2. ItemOwes' = o
    BY <1>2, <1>4 DEF ItemOwes
  <2>3. t \in Seq(CepThings)
    BY CepHeadAndTail
  <2>4. p \o (<< >> \o (R \o o)) = p \o (<< x >> \o (t \o o))
    <3> HIDE DEF p, o
    <3> QED  BY <2>1, FirstGoesOut, SMTT(60)
  <2>5. PICK T \in Seq(CepThings) : T = t
    BY <2>3
  <2> HIDE DEF t
  <2>6. Gathered(T)'
    BY <1>2, <2>5 DEF Gathered, t
  <2>7. cepHist'.due = cepHist'.put \o (cep'.out \o (T \o ItemOwes'))
    BY <1>1, <1>2, <2>2, <2>4, <2>5
  <2> QED  BY <2>6, <2>7 DEF CepOwed
<1> QED  BY <1>3, <1>5, <1>6, <1>7 DEF CepInv

LEMMA FrameItemStep ==
  ASSUME CepInv, CepFrameItem
  PROVE  CepInv'
<1> DEFINE hx == cep.headx
           b == cep.bottom
           r == cep.read
           w == cep.write
           x == hx[b + 1].item
<1>1. /\ procState = "FRAME" /\ procState' = "FEED" /\ UNCHANGED << fed, cbIn, cepHist >>
      /\ b < Len(hx) /\ hx[b + 1].frame <= r
      /\ cep' = [cep EXCEPT !.out = << x >>, !.bottom = @ + 1, !.follow = "FRAME"]
  BY DEF CepFrameItem, ItemIsDue, Running, Leave, NoTransfer
<1>2. /\ b \in Nat /\ r \in Nat /\ w \in Nat /\ hx \in Seq(CepKept)
      /\ \A k \in 1 .. Len(hx) : hx[k].frame \in Nat /\ hx[k].item \in CepArrived
  BY Fields DEF CepInv
<1>3. x \in CepThings /\ b + 1 \in Nat
  <2>1. b + 1 \in 1 .. Len(hx)
    BY <1>1, <1>2
  <2>2. x \in CepArrived
    BY <1>2, <2>1
  <2> QED  BY <1>2, <2>2 DEF CepThings
<1>4. PICK R \in Seq(CepThings) :
        Gathered(R) /\ cepHist.due = cepHist.put \o (cep.out \o (R \o ItemOwes))
  BY DEF CepInv, CepOwed
<1>5. Merged(R, hx, cep.index, b, r, w) /\ Waiting(hx, b, r, w)
  BY <1>4 DEF CepInv, CepPhases, Gathered
<1>6. /\ R # << >> /\ R[1] = x
      /\ Merged(Tail(R), hx, cep.index, b + 1, r, w) /\ Waiting(hx, b + 1, r, w)
  <2>1. \A k \in 1 .. Len(hx) : hx[k].frame \in Nat
    BY <1>2
  <2> HIDE DEF hx, b, r, w
  <2> QED  BY <1>1, <1>2, <1>5, <2>1, ItemGoesOut DEF x
<1>7. cep' = [cep EXCEPT !.out = << x >>, !.bottom = b + 1, !.read = r, !.follow = "FRAME"]
  <2>1. cep \in CepStates
    BY DEF CepInv, CepTypeOK
  <2> QED  BY <1>1, <2>1 DEF CepStates
<1> HIDE DEF x
<1> QED  BY <1>1, <1>2, <1>3, <1>4, <1>6, <1>7, GoingStep

LEMMA FrameStep ==
  ASSUME CepInv, CepFrame
  PROVE  CepInv'
<1> DEFINE hx == cep.headx
           b == cep.bottom
           r == cep.read
           w == cep.write
           x == FrameItem(cep.index[r])
<1>1. /\ procState = "FRAME" /\ procState' = "FEED" /\ UNCHANGED << fed, cbIn, cepHist >>
      /\ ~(b < Len(hx) /\ hx[b + 1].frame <= r) /\ r < cep.end
      /\ cep' = [cep EXCEPT !.out = << x >>, !.read = @ + 1, !.follow = "FRAME"]
  BY DEF CepFrame, ItemIsDue, Running, Leave, NoTransfer
<1>2. /\ b \in Nat /\ r \in Nat /\ w \in Nat /\ w <= MaxWinLen /\ hx \in Seq(CepKept)
      /\ \A k \in 1 .. Len(hx) : hx[k].frame \in Nat
      /\ cep.index \in [0 .. MaxWinLen - 1 -> Frames] /\ MaxWinLen \in Nat
  BY Fields DEF CepInv
<1>3. r < w
  BY <1>1 DEF CepInv, CepPhases, GoingOut
<1>4. x \in CepThings /\ r + 1 \in Nat
  <2>1. r \in 0 .. MaxWinLen - 1
    BY <1>2, <1>3
  <2>2. cep.index[r] \in Frames
    BY <1>2, <2>1
  <2> QED  BY <1>2, <2>2 DEF CepThings
<1>5. PICK R \in Seq(CepThings) :
        Gathered(R) /\ cepHist.due = cepHist.put \o (cep.out \o (R \o ItemOwes))
  BY DEF CepInv, CepOwed
<1>6. Merged(R, hx, cep.index, b, r, w) /\ Waiting(hx, b, r, w)
  BY <1>5 DEF CepInv, CepPhases, Gathered
<1>7. /\ R # << >> /\ R[1] = x
      /\ Merged(Tail(R), hx, cep.index, b, r + 1, w) /\ Waiting(hx, b, r + 1, w)
  <2> HIDE DEF hx, b, r, w
  <2> QED  BY <1>1, <1>2, <1>3, <1>6, FrameGoesOut DEF x
<1>8. cep' = [cep EXCEPT !.out = << x >>, !.bottom = b, !.read = r + 1, !.follow = "FRAME"]
  <2>1. cep \in CepStates
    BY DEF CepInv, CepTypeOK
  <2> QED  BY <1>1, <2>1 DEF CepStates
<1> HIDE DEF x
<1> QED  BY <1>1, <1>2, <1>4, <1>5, <1>7, <1>8, GoingStep

LEMMA FrameEndStep ==
  ASSUME CepInv, CepFrameEnd
  PROVE  CepInv'
<1>1. /\ procState = "FRAME" /\ procState' = "PARSE" /\ UNCHANGED << fed, cbIn, cepHist >>
      /\ ~(cep.bottom < Len(cep.headx) /\ cep.headx[cep.bottom + 1].frame <= cep.read)
      /\ cep.read >= cep.end
      /\ cep' = IF cep.sentenceEnd THEN NewSentence(cep) ELSE cep
  BY DEF CepFrameEnd, ItemIsDue, Running, Leave, NoTransfer
<1>2. /\ cep.item # << >> /\ ~cep.ignore /\ EndsSentence(CepItem) /\ cep.sentenceEnd
      /\ cep.end = cep.write /\ cep.out = << >> /\ Len(cep.item) <= 1
      /\ Waiting(cep.headx, cep.bottom, cep.read, cep.write)
  BY <1>1 DEF CepInv, CepPhases, GoingOut
<1>3. /\ cep \in CepStates /\ MaxWinLen \in Nat /\ << >> \in Seq(CepKept)
      /\ cep.read \in Nat /\ cep.write \in Nat /\ cep.bottom \in Nat /\ cep.headx \in Seq(CepKept)
      /\ \A k \in 1 .. Len(cep.headx) : cep.headx[k].frame \in Nat
  BY Fields DEF CepInv, CepTypeOK
<1>4. /\ cep' \in CepStates /\ cep'.item = cep.item /\ cep'.out = cep.out /\ cep'.ignore = cep.ignore
      /\ cep'.headx = << >> /\ cep'.index = cep.index /\ cep'.bottom = 0
      /\ cep'.read = 0 /\ cep'.write = 0
  <2>1. cep' = [cep EXCEPT !.sentenceEnd = FALSE, !.read = 0, !.write = 0, !.end = MaxWinLen,
                           !.headx = << >>, !.bottom = 0, !.cbuf = 0]
    BY <1>1, <1>2 DEF NewSentence
  <2>2. 0 \in 0 .. MaxWinLen /\ << >> \in Seq(CepKept) /\ FALSE \in BOOLEAN /\ 0 \in Nat
    BY <1>3
  <2>3. cep' \in CepStates
    BY <1>3, <2>1, <2>2 DEF CepStates
  <2>4. /\ cep'.item = cep.item /\ cep'.out = cep.out /\ cep'.ignore = cep.ignore
        /\ cep'.headx = << >> /\ cep'.index = cep.index /\ cep'.bottom = 0
        /\ cep'.read = 0 /\ cep'.write = 0
    BY <1>3, <2>1 DEF CepStates
  <2> QED  BY <2>3, <2>4
<1>5. cep.read = cep.write /\ cep.bottom = Len(cep.headx)
  <2>1. cep.read = cep.write /\ cep.bottom \in 0 .. Len(cep.headx)
    BY <1>1, <1>2, <1>3 DEF Waiting
  <2>2. CASE cep.bottom < Len(cep.headx)
    <3>1. cep.bottom + 1 \in cep.bottom + 1 .. Len(cep.headx)
      BY <1>3, <2>2
    <3>2. cep.headx[cep.bottom + 1].frame <= cep.read
      BY <1>2, <1>3, <2>1, <3>1 DEF Waiting
    <3> QED  BY <1>1, <2>2, <3>2
  <2> QED  BY <1>3, <2>1, <2>2
<1>6. CepTypeOK'
  BY <1>1, <1>4 DEF CepInv, CepTypeOK
<1>7. CepItem' = CepItem
  BY <1>4 DEF CepItem
<1>8. CepPhases'
  <2>1. ~GoingOut' /\ Waiting(<< >>, 0, 0, 0)
    BY <1>1 DEF GoingOut, Waiting
  <2> QED  BY <1>1, <1>2, <1>4, <2>1 DEF CepPhases
<1>9. FramesAfter(CepItem, cep.ignore, cep.write) = 0 /\ FramesAfter(CepItem, cep.ignore, 0) = 0
  BY <1>2 DEF FramesAfter, EndsSentence
<1>10. Told'
  BY <1>1, <1>2, <1>4, <1>7, <1>9 DEF CepInv, Told
<1>11. CepOwed'
  <2>1. PICK R \in Seq(CepThings) :
          Gathered(R) /\ cepHist.due = cepHist.put \o (cep.out \o (R \o ItemOwes))
    BY DEF CepInv, CepOwed
  <2>2. R = << >>
    <3>1. Len(R) = 0
      BY <1>3, <1>5, <2>1 DEF Gathered, Merged
    <3> QED  BY <3>1, JoinedEmpty
  <2>3. Gathered(R)'
    BY <1>4, <2>2 DEF Gathered, Merged
  <2>4. ItemOwes' = ItemOwes
    BY <1>2, <1>4, <1>7 DEF ItemOwes, Gives, EndsSentence, Forwarding
  <2> QED  BY <1>1, <1>4, <2>1, <2>3, <2>4 DEF CepOwed
<1> QED  BY <1>6, <1>8, <1>10, <1>11 DEF CepInv

LEMMA FeedStep ==
  ASSUME CepInv, CepFeed
  PROVE  CepInv'
<1> DEFINE x == cep.out[1]
<1>1. /\ procState = "FEED" /\ procState' = cep.follow /\ UNCHANGED << fed, cbIn >>
      /\ cep' = [cep EXCEPT !.out = << >>]
      /\ cepHist' = [cepHist EXCEPT !.put = Append(@, x)]
  BY DEF CepFeed, Running, Put, Leave
<1>2. cep \in CepStates /\ cepHist \in CepHists /\ << >> \in Seq(CepThings)
  BY DEF CepInv, CepTypeOK
<1>3. /\ x \in CepThings /\ cep.out = << x >> /\ cep.follow \in {"PARSE", "FRAME"}
      /\ cepHist.put \in Seq(CepThings) /\ Append(cepHist.put, x) \in Seq(CepThings)
  <2>1. Len(cep.out) = 1 /\ cep.out \in Seq(CepThings) /\ cep.follow \in {"PARSE", "FRAME"}
    BY <1>1, Fields DEF CepInv, CepPhases
  <2>2. x \in CepThings /\ cep.out = << x >>
    BY <2>1
  <2>3. cepHist.put \in Seq(CepThings)
    BY <1>2 DEF CepHists
  <2> HIDE DEF x
  <2> QED  BY <2>1, <2>2, <2>3
<1> HIDE DEF x
<1>4. /\ cep' \in CepStates /\ cep'.item = cep.item /\ cep'.out = << >> /\ cep'.ignore = cep.ignore
      /\ cep'.headx = cep.headx /\ cep'.index = cep.index /\ cep'.bottom = cep.bottom
      /\ cep'.read = cep.read /\ cep'.write = cep.write /\ cep'.follow = cep.follow
      /\ cep'.end = cep.end /\ cep'.sentenceEnd = cep.sentenceEnd
  BY <1>1, <1>2 DEF CepStates
<1>5. /\ cepHist' \in CepHists /\ cepHist'.put = Append(cepHist.put, x)
      /\ cepHist'.due = cepHist.due /\ cepHist'.ignored = cepHist.ignored
      /\ cepHist'.frames = cepHist.frames /\ cepHist'.over = cepHist.over
  BY <1>1, <1>2, <1>3 DEF CepHists
<1>6. CepTypeOK'
  BY <1>1, <1>3, <1>4, <1>5 DEF CepInv, CepTypeOK
<1>7. CepItem' = CepItem
  BY <1>4 DEF CepItem
<1>8. CepPhases'
  <2>1. GoingOut' <=> GoingOut
    BY <1>1, <1>3, <1>4 DEF GoingOut
  <2> QED  BY <1>1, <1>3, <1>4, <1>7, <2>1 DEF CepInv, CepPhases, GoingOut, EndsSentence
<1>9. Told'
  BY <1>4, <1>5, <1>7 DEF CepInv, Told
<1>10. CepOwed'
  <2>1. PICK R \in Seq(CepThings) :
          Gathered(R) /\ cepHist.due = cepHist.put \o (cep.out \o (R \o ItemOwes))
    BY DEF CepInv, CepOwed
  <2> DEFINE p == cepHist.put
             o == ItemOwes
  <2>2. p \in Seq(CepThings) /\ o \in Seq(CepThings)
    BY OwesFacts
  <2>3. ItemOwes' = o
    BY <1>4, <1>7 DEF ItemOwes
  <2>4. p \o (<< x >> \o (R \o o)) = Append(p, x) \o (<< >> \o (R \o o))
    <3> DEFINE r == R \o o
    <3> HIDE DEF p, o
    <3>1. r \in Seq(CepThings)
      BY <2>2, Joined
    <3> HIDE DEF r
    <3>2. p \o (<< x >> \o r) = Append(p, x) \o (<< >> \o r)
      <4>1. x \in CepThings /\ p \in Seq(CepThings) /\ r \in Seq(CepThings)
        BY <1>3, <2>2, <3>1
      <4> QED  BY <4>1, PutGoesOn
    <3> QED  BY <3>2 DEF r
  <2>5. Gathered(R)'
    BY <1>4, <2>1 DEF Gathered
  <2>6. cepHist'.due = cepHist'.put \o (cep'.out \o (R \o ItemOwes'))
    BY <1>3, <1>4, <1>5, <2>1, <2>3, <2>4
  <2> QED  BY <2>5, <2>6 DEF CepOwed
<1> QED  BY <1>6, <1>8, <1>9, <1>10 DEF CepInv

LEMMA ResetStep ==
  ASSUME CepInv, CepReset
  PROVE  CepInv'
<1>1. /\ procState' = "COLLECT" /\ cbIn' = << >> /\ UNCHANGED fed
      /\ cep' = NewCep(cep.index, cep.follow) /\ cepHist' = NewCepHist
  BY DEF CepReset, UnitReset
<1>2. /\ cep.index \in [0 .. MaxWinLen - 1 -> Frames] /\ cep.follow \in {"COLLECT", "PARSE", "FRAME"}
      /\ MaxWinLen \in Nat \ {0}
  BY Fields DEF CepInv
<1>3. CepTypeOK'
  BY <1>1, <1>2 DEF CepInv, CepTypeOK, CepStates, CepHists, NewCep, NewCepHist
<1>4. CepPhases'
  BY <1>1 DEF CepPhases, GoingOut, NewCep, Waiting
<1>5. Told'
  BY <1>1 DEF Told, NewCep, NewCepHist
<1>6. CepOwed'
  <2>0. << >> \in Seq(CepThings)
    OBVIOUS
  <2>1. PICK R \in Seq(CepThings) : R = << >>
    BY <2>0
  <2>2. Gathered(R)'
    BY <1>1, <2>1 DEF Gathered, Merged, NewCep
  <2>3. cepHist'.due = cepHist'.put \o (cep'.out \o (R \o ItemOwes'))
    BY <1>1, <2>1 DEF ItemOwes, NewCep, NewCepHist
  <2> QED  BY <2>2, <2>3 DEF CepOwed
<1> QED  BY <1>3, <1>4, <1>5, <1>6 DEF CepInv

LEMMA CepKeeps ==
  ASSUME CepInv, SentencesFit, [CepNext]_cepVars
  PROVE  CepInv'
<1>0. fed \in Nat /\ cbIn \in Seq(CepArrived)
  BY DEF CepInv, CepTypeOK
<1>1. CASE CepStep
  <2>1. CASE CepIdle \/ CepFeedFull
    BY <1>0, <2>1, Outside DEF CepIdle, CepFeedFull, Return, NoTransfer
  <2>2. CASE CepParse
    BY <2>2, EmptyStep, MarkStep, PhoneStep, PassStep, KeepStep, ToSmoothStep DEF CepParse
  <2> QED  BY <1>1, <2>1, <2>2, CollectStep, SmoothStep, FrameItemStep, FrameStep, FrameEndStep,
              FeedStep DEF CepStep
<1>2. CASE (Call \/ Fetch) /\ UNCHANGED << cep, cepHist >>
  BY <1>0, <1>2, Outside DEF Call, Fetch
<1>3. CASE Arrive(CepInputs) /\ UNCHANGED << cep, cepHist >>
  <2>1. PICK in \in CepInputs : cbIn' = Append(cbIn, Numbered(in, fed + 1))
    BY <1>3 DEF Arrive
  <2>2. Numbered(in, fed + 1) \in CepArrived /\ fed + 1 \in Nat
    BY <1>0 DEF CepArrived
  <2>3. cbIn' \in Seq(CepArrived) /\ fed' \in Nat
    BY <1>0, <1>3, <2>1, <2>2, Appended DEF Arrive
  <2> QED  BY <1>3, <2>3, Outside DEF Arrive
<1>4. CASE CepReset
  BY <1>4, ResetStep
<1>5. CASE UNCHANGED cepVars
  BY <1>0, <1>5, Outside DEF cepVars, unitVars
<1> QED  BY <1>1, <1>2, <1>3, <1>4, <1>5 DEF CepNext

LEMMA CepOrdered ==
  ASSUME CepInv
  PROVE  FramesInOrder
<1>1. PICK R \in Seq(CepThings) :
        Gathered(R) /\ cepHist.due = cepHist.put \o (cep.out \o (R \o ItemOwes))
  BY DEF CepInv, CepOwed
<1> DEFINE p == cepHist.put
           o == ItemOwes
           q == cep.out
<1>2. p \in Seq(CepThings) /\ o \in Seq(CepThings) /\ q \in Seq(CepThings)
  BY OwesFacts, Fields DEF CepInv
<1>3. q \o (R \o o) \in Seq(CepThings)
  <2> HIDE DEF p, o, q
  <2> QED  BY <1>2, Joined
<1>4. IsPrefix(cepHist.put, cepHist.due)
  <2> DEFINE u == q \o (R \o o)
  <2> HIDE DEF u, p
  <2>1. IsPrefix(p, p \o u)
    BY <1>2, <1>3, Prefixed DEF u
  <2> QED  BY <1>1, <2>1 DEF u, p
<1>5. ASSUME procState = "COLLECT", cepHist.over PROVE cepHist.put = cepHist.due
  <2>1. /\ cep.item = << >> /\ q = << >> /\ cep.read = 0 /\ cep.bottom = 0
        /\ cep.write = 0 => cep.headx = << >>
    BY <1>5 DEF CepInv, CepPhases, GoingOut
  <2>2. cep.write = 0
    BY <1>5, <2>1 DEF CepInv, Told
  <2>3. R = << >> /\ o = << >>
    <3>1. Len(R) = 0
      BY <1>1, <2>1, <2>2 DEF Gathered, Merged
    <3> QED  BY <2>1, <3>1, JoinedEmpty, OwesFacts
  <2>4. q \o (R \o o) = << >>
    BY <2>1, <2>3
  <2>5. p \o << >> = p
    <3> HIDE DEF p
    <3> QED  BY <1>2, JoinedEmpty
  <2> QED  BY <1>1, <2>4, <2>5
<1> QED  BY <1>4, <1>5 DEF FramesInOrder

(* What goes out of the unit is what is due, in order and each once, as long *)
(* as the other items of a sentence find room in the lists that keep them   *)
(* (cepStep).  Without that a sentence is smoothed before its end, and with *)
(* frames that are not its own.                                             *)
THEOREM FramesStayInOrder == CepSpec /\ []SentencesFit => []FramesInOrder
<1>1. CepInit => CepInv
  BY CepStarts
<1>2. CepInv /\ SentencesFit /\ [CepNext]_cepVars => CepInv'
  BY CepKeeps
<1>3. CepInv => FramesInOrder
  BY CepOrdered
<1> QED  BY <1>1, <1>2, <1>3, PTL DEF CepSpec

-----------------------------------------------------------------------------
(* Types.                                                                   *)
Mods == [{"PITCH", "VOLUME", "SPEAKER"} -> Int]
Arrived == {Numbered(in, n) : in \in SigInputs, n \in Nat}
Names == {in.name : in \in SigInputs} \cup {NoFile}

FrameParts == Nat \X {1, 2}
FileParts == {p \in (DOMAIN Readable) \X Nat \X Nat : p[2] <= p[3]}
Pieces == {Piece(of, mods, nr) : of \in FrameParts \cup FileParts, mods \in Mods, nr \in Int}
Things == Arrived \cup Pieces
Sampled == Int \X Int

SigStates ==
  [item : Seq(Arrived), out : Seq(Things), ret : {"COLLECT", "PLAY"}, inner : {0} \cup 3 .. 9,
   inFile : Names, pos : Nat, outFile : Names, buf : Seq(Sampled),
   frames : Seq(Nat), available : 0 .. 3, mods : Mods]
Hists == [due : Seq(Things), put : Seq(Things), virtual : Seq(Nat), nr : Nat]
Files == [samples : Seq(Sampled), head : Int, open : BOOLEAN, broken : BOOLEAN,
          heard : Seq(Sampled)]

SigTypeOK ==
  /\ fed \in Nat /\ cbIn \in Seq(Arrived)
  /\ procState \in {"COLLECT", "SCHEDULE", "PROCESS", "PLAY", "FEED"}
  /\ sig \in SigStates /\ Len(sig.frames) = 3 /\ sigHist \in Hists
  /\ disk \in [DOMAIN disk -> Files]

-----------------------------------------------------------------------------
(* What is pending.                                                         *)
NumPieces(name) == (Readable[name] + Half - 1) \div Half
\* The last sample of the k-th piece; the pieces that end at or before sample pos.
PieceEnd(name, k) == IF Half * k <= Readable[name] THEN Half * k ELSE Readable[name]
Made1(name, pos) == IF pos >= Readable[name] THEN NumPieces(name) ELSE pos \div Half

FrameGives == TwoPieces(sigHist.virtual[Len(sigHist.virtual) - 2], sig.mods, sigHist.nr - 2)
FileGives(name) == FilePieces(name, sig.mods, sigHist.nr - NumPieces(name))
StillToPlay ==
  SubSeq(FileGives(sig.inFile), Made1(sig.inFile, sig.pos) + 1, NumPieces(sig.inFile))

ItemGives ==
  IF ~DealWith(SigItem) THEN << SigItem >>
  ELSE IF SigItem.kind = "FRAME_PAR" THEN FrameGives
  ELSE IF SigItem.kind = "PLAY" /\ Plays(SigItem.name) THEN FileGives(SigItem.name)
  ELSE << >>

Behind == IF sig.ret = "PLAY" THEN StillToPlay ELSE << >>

Pending ==
  IF procState = "COLLECT" THEN << >>
  ELSE IF procState = "SCHEDULE" THEN ItemGives
  ELSE IF procState = "PROCESS" THEN FrameGives
  ELSE IF procState = "PLAY" THEN StillToPlay
  ELSE sig.out \o Behind

Owed == sigHist.due = sigHist.put \o Pending

-----------------------------------------------------------------------------
(* What the phases rely on.                                                 *)
InFrame ==
  \/ procState = "PROCESS"
  \/ procState = "SCHEDULE" /\ SigItem.kind = "FRAME_PAR"

Phases ==
  /\ procState \in {"SCHEDULE", "PROCESS"} => Len(sig.item) = 1
  /\ procState = "PROCESS" => SigItem.kind = "FRAME_PAR" /\ sig.ret = "COLLECT"
  /\ procState # "PROCESS" => sig.inner = 0
  /\ procState = "FEED" => sig.out # << >>
  /\ procState = "PLAY" \/ (procState = "FEED" /\ sig.ret = "PLAY") =>
       /\ sig.inFile \in DOMAIN Readable
       /\ \E k \in 0 .. NumPieces(sig.inFile) : sig.pos = PieceEnd(sig.inFile, k)

\* The frames in the buffer are the last there were; while one is taken in, the
\* history has it already.
FramesKept ==
  LET f == sig.frames
      a == sig.available
      v == sigHist.virtual
      n == Len(v)
  IN  /\ ~InFrame => /\ n >= a
                     /\ a < 3 => n = a
                     /\ \A i \in 1 .. a : f[3 - a + i] = v[n - a + i]
      /\ InFrame /\ sig.inner = 0 /\ a < 3 =>
           /\ n = 3
           /\ \A i \in 1 .. a : f[3 - a + i] = v[i]
           /\ \A i \in a + 1 .. 3 : v[i] = SigItem.id
      /\ InFrame /\ sig.inner = 0 /\ a = 3 =>
           /\ n >= 4 /\ v[n] = SigItem.id
           /\ \A i \in 1 .. 3 : f[i] = v[n - 4 + i]
      /\ InFrame /\ sig.inner # 0 =>
           /\ a = 3 /\ n >= 3
           /\ \A i \in 1 .. 3 : f[i] = v[n - 3 + i]

\* The pieces of sound in s, in the order of their numbers.
Rising(s) ==
  \A i \in DOMAIN s : s[i].kind = "FRAME" =>
    /\ s[i].nr <= sigHist.nr
    /\ \A j \in DOMAIN s : i < j /\ s[j].kind = "FRAME" => s[i].nr < s[j].nr

\* What is in the file that is written, the buffer included, comes before what is
\* pending; of what the output has not taken yet at most the first piece is there.
Written == disk[sig.outFile].samples \o sig.buf
Sorted(s) == \A i, j \in DOMAIN s : i < j => s[i][1] <= s[j][1]
BeforeAll(s, t) == \A i \in DOMAIN s, j \in DOMAIN t : t[j].kind = "FRAME" => s[i][1] <= t[j].nr
FileSound ==
  sig.outFile # NoFile =>
    LET file == disk[sig.outFile]
    IN  /\ sig.outFile \in DOMAIN disk
        /\ file.open /\ Sorted(Written)
        /\ \A i \in DOMAIN Written : Written[i][1] <= sigHist.nr
        /\ BeforeAll(Written, Pending)
        /\ \/ ToSet(Written) = ToSet(file.heard)
           \/ /\ procState = "FEED" /\ sig.out[1].kind = "FRAME"
              /\ ToSet(Written) = ToSet(file.heard) \cup ToSet(Samples(sig.out[1]))

SigInv == SigTypeOK /\ Phases /\ FramesKept /\ Owed /\ Rising(Pending) /\ FileSound /\ FilesComplete

-----------------------------------------------------------------------------
(* Arithmetic of pieces and of the buffer of a file.                        *)
LEMMA Quotient ==
  ASSUME NEW a \in Nat, NEW b \in Nat \ {0}
  PROVE  /\ a \div b \in Nat
         /\ b * (a \div b) \in Nat /\ b * (a \div b) <= a /\ a < b * (a \div b) + b
OBVIOUS

LEMMA Multiple ==
  ASSUME NEW k \in Nat, NEW b \in Nat \ {0}
  PROVE  b * k \in Nat /\ (b * k) \div b = k /\ b * (k + 1) = b * k + b
OBVIOUS

LEMMA Monotone ==
  ASSUME NEW j \in Nat, NEW k \in Nat, NEW b \in Nat \ {0}, j < k
  PROVE  b * j + b <= b * k
OBVIOUS

LEMMA PieceCount ==
  ASSUME NEW name \in DOMAIN Readable
  PROVE  /\ Readable[name] \in Nat /\ Half \in Nat \ {0}
         /\ NumPieces(name) \in Nat
         /\ Half * NumPieces(name) >= Readable[name]
         /\ \A k \in 0 .. NumPieces(name) - 1 : Half * k < Readable[name]
<1>1. Readable[name] \in Nat /\ Half \in Nat \ {0}
  BY SigAssumption
<1> DEFINE R == Readable[name]
           N == NumPieces(name)
<1>2. R + Half - 1 \in Nat
  BY <1>1
<1>3. /\ N \in Nat /\ Half * N \in Nat /\ Half * N <= R + Half - 1
      /\ R + Half - 1 < Half * N + Half
  BY <1>1, <1>2, Quotient DEF NumPieces
<1> HIDE DEF N, R
<1>4. Half * N >= R
  BY <1>1, <1>3 DEF R
<1>5. ASSUME NEW k \in 0 .. N - 1 PROVE Half * k < R
  <2>1. k \in Nat /\ k < N
    BY <1>3
  <2>2. Half * k + Half <= Half * N
    BY <2>1, <1>1, <1>3, Monotone
  <2>3. Half * k \in Nat
    BY <2>1, <1>1, Multiple
  <2> QED BY <2>2, <2>3, <1>1, <1>3 DEF R
<1> QED BY <1>1, <1>3, <1>4, <1>5 DEF N, R

(* The position in a file tells how many pieces of it were made.            *)
LEMMA PositionTells ==
  ASSUME NEW name \in DOMAIN Readable, NEW k \in 0 .. NumPieces(name)
  PROVE  /\ PieceEnd(name, k) \in Nat /\ PieceEnd(name, k) <= Readable[name]
         /\ Made1(name, PieceEnd(name, k)) = k
         /\ k < NumPieces(name) => /\ PieceEnd(name, k) = Half * k
                                   /\ Half * k < Readable[name]
                                   /\ (Half * k) \div Half = k
         /\ PieceEnd(name, NumPieces(name)) = Readable[name]
<1> DEFINE N == NumPieces(name)
           R == Readable[name]
<1>1. R \in Nat /\ Half \in Nat \ {0} /\ N \in Nat /\ Half * N >= R
  BY PieceCount
<1>2. Half * k \in Nat /\ (Half * k) \div Half = k /\ Half * N \in Nat
  BY <1>1, Multiple
<1>3. k < N => Half * k < R
  BY <1>1, PieceCount
<1> HIDE DEF N, R
<1>4. PieceEnd(name, N) = R
  BY <1>1, <1>2 DEF PieceEnd, R
<1>5. CASE k < N
  <2>1. PieceEnd(name, k) = Half * k
    BY <1>1, <1>2, <1>3, <1>5 DEF PieceEnd, R
  <2>2. Made1(name, Half * k) = k
    BY <1>1, <1>2, <1>3, <1>5 DEF Made1, R
  <2> QED BY <2>1, <2>2, <1>2, <1>3, <1>4, <1>5, <1>1 DEF R, N
<1>6. CASE k = N
  <2>1. Made1(name, R) = N
    BY <1>1 DEF Made1, R, N
  <2> QED BY <2>1, <1>1, <1>4, <1>6 DEF R, N
<1>7. k < N \/ k = N
  BY <1>1 DEF N
<1> QED BY <1>5, <1>6, <1>7

-----------------------------------------------------------------------------
(* Items and pieces.                                                        *)
LEMMA ItemFacts ==
  ASSUME NEW it \in Arrived
  PROVE  it.kind # "FRAME" /\ it.val \in Int /\ it.name \in Names /\ it.id \in Nat
<1>1. PICK in \in SigInputs, n \in Nat : it = Numbered(in, n)
  BY DEF Arrived
<1>2. DOMAIN in = {"kind", "info2", "name", "val"} /\ in.kind # "FRAME" /\ in.val \in Int
  BY SigAssumption
<1>3. DOMAIN in \cup {"id"} = {"kind", "info2", "name", "val", "id"}
  BY <1>2
<1>4. it = [f \in {"kind", "info2", "name", "val", "id"} |-> IF f = "id" THEN n ELSE in[f]]
  BY <1>1, <1>3 DEF Numbered
<1>5. it.kind = in.kind /\ it.val = in.val /\ it.name = in.name /\ it.id = n
  BY <1>4
<1> QED BY <1>2, <1>5 DEF Names

LEMMA PieceFacts ==
  ASSUME NEW of \in FrameParts \cup FileParts, NEW mods \in Mods, NEW nr \in Int
  PROVE  /\ Piece(of, mods, nr) \in Things
         /\ Piece(of, mods, nr).kind = "FRAME" /\ Piece(of, mods, nr).nr = nr
         /\ Piece(of, mods, nr).of = of
BY DEF Piece, Pieces, Things

LEMMA ThingFacts ==
  ASSUME NEW x \in Things, x.kind = "FRAME"
  PROVE  x \in Pieces /\ x.nr \in Int /\ x.of \in FrameParts \cup FileParts
<1>1. x \in Pieces
  BY ItemFacts DEF Things
<1>2. PICK of \in FrameParts \cup FileParts, mods \in Mods, nr \in Int : x = Piece(of, mods, nr)
  BY <1>1 DEF Pieces
<1> QED BY <1>1, <1>2, PieceFacts

LEMMA TwoPiecesFacts ==
  ASSUME NEW frame \in Nat, NEW mods \in Mods, NEW nr \in Int
  PROVE  /\ TwoPieces(frame, mods, nr) \in Seq(Things) /\ Len(TwoPieces(frame, mods, nr)) = 2
         /\ TwoPieces(frame, mods, nr)[1].nr = nr + 1
         /\ TwoPieces(frame, mods, nr)[2].nr = nr + 2
<1> DEFINE a == Piece(<< frame, 1 >>, mods, nr + 1)
           b == Piece(<< frame, 2 >>, mods, nr + 2)
<1>1. << frame, 1 >> \in FrameParts /\ << frame, 2 >> \in FrameParts
  BY DEF FrameParts
<1>2. nr + 1 \in Int /\ nr + 2 \in Int
  OBVIOUS
<1>3. a \in Things /\ b \in Things /\ a.nr = nr + 1 /\ b.nr = nr + 2
  BY <1>1, <1>2, PieceFacts
<1>4. TwoPieces(frame, mods, nr) = << a, b >>
  BY DEF TwoPieces
<1> HIDE DEF a, b
<1> QED BY <1>3, <1>4

(* The pieces of a file: as many as it needs, numbered one after another.   *)
LEMMA FilePiecesFacts ==
  ASSUME NEW name \in DOMAIN Readable, NEW mods \in Mods, NEW nr \in Int
  PROVE  LET all == FilePieces(name, mods, nr)
         IN  /\ all \in Seq(Things) /\ Len(all) = NumPieces(name)
             /\ \A n \in 1 .. NumPieces(name) :
                  /\ all[n] = FilePiece(name, Half * (n - 1) + 1, PieceEnd(name, n), mods, nr + n)
                  /\ all[n] \in Pieces /\ all[n].kind = "FRAME" /\ all[n].nr = nr + n
                  /\ all[n].of[3] = PieceEnd(name, n)
<1> DEFINE all == FilePieces(name, mods, nr)
           N == NumPieces(name)
           R == Readable[name]
<1>1. N \in Nat /\ R \in Nat /\ Half \in Nat \ {0}
  BY PieceCount
<1>2. all = [n \in 1 .. N |-> FilePiece(name, Half * (n - 1) + 1, PieceEnd(name, n), mods, nr + n)]
  BY DEF FilePieces, NumPieces, PieceEnd
<1> HIDE DEF all, N, R
<1>3. ASSUME NEW n \in 1 .. N
      PROVE  /\ all[n] = FilePiece(name, Half * (n - 1) + 1, PieceEnd(name, n), mods, nr + n)
             /\ all[n] \in Pieces /\ all[n] \in Things
             /\ all[n].kind = "FRAME" /\ all[n].nr = nr + n
             /\ all[n].of[3] = PieceEnd(name, n)
  <2> DEFINE from == Half * (n - 1) + 1
             to == PieceEnd(name, n)
  <2>1. n - 1 \in Nat /\ n - 1 \in 0 .. N - 1 /\ n \in 0 .. N /\ n \in Nat /\ nr + n \in Int
    BY <1>1
  <2>2. Half * (n - 1) < R /\ Half * (n - 1) \in Nat
    BY <2>1, <1>1, PieceCount, Multiple DEF N, R
  <2>3. Half * n = Half * (n - 1) + Half
    <3>1. Half * ((n - 1) + 1) = Half * (n - 1) + Half
      BY <2>1, <1>1, Multiple
    <3>2. (n - 1) + 1 = n
      BY <2>1
    <3> QED BY <3>1, <3>2
  <2>4. to = IF Half * n <= R THEN Half * n ELSE R
    BY DEF PieceEnd, R
  <2>5. from \in Nat /\ to \in Nat /\ from <= to
    BY <2>2, <2>3, <2>4, <1>1
  <2> HIDE DEF from, to
  <2>6. << name, from, to >> \in FileParts
    BY <2>5 DEF FileParts
  <2>7. all[n] = Piece(<< name, from, to >>, mods, nr + n)
    BY <1>2 DEF FilePiece, from, to
  <2>8. /\ all[n] \in Things /\ all[n].kind = "FRAME" /\ all[n].nr = nr + n
        /\ all[n].of = << name, from, to >>
    BY <2>1, <2>6, <2>7, PieceFacts
  <2>9. all[n] \in Pieces
    BY <2>8, ThingFacts
  <2> QED BY <1>2, <2>8, <2>9 DEF to
<1>4. all \in Seq(Things) /\ Len(all) = N
  <2>1. \A n \in 1 .. N : all[n] \in Things
    BY <1>3
  <2>2. all \in [1 .. N -> Things]
    BY <2>1, <1>2
  <2> QED BY <2>2, <1>1
<1> QED BY <1>3, <1>4 DEF all, N

LEMMA SamplesFacts ==
  ASSUME NEW x \in Things, x.kind = "FRAME"
  PROVE  /\ Samples(x) \in Seq(Sampled)
         /\ \A i \in DOMAIN Samples(x) : Samples(x)[i][1] = x.nr
<1>1. x.nr \in Int /\ x.of \in FrameParts \cup FileParts
  BY ThingFacts
<1> DEFINE size == IF Len(x.of) = 3 THEN x.of[3] - x.of[2] + 1 ELSE Half
<1>2. size \in Nat
  <2>1. CASE x.of \in FrameParts
    <3>1. Len(x.of) = 2
      BY <2>1 DEF FrameParts
    <3> QED BY <3>1, SigAssumption
  <2>2. CASE x.of \in FileParts
    <3>1. x.of[2] \in Nat /\ x.of[3] \in Nat /\ x.of[2] <= x.of[3]
      BY <2>2 DEF FileParts
    <3> QED BY <3>1, SigAssumption
  <2> QED BY <1>1, <2>1, <2>2
<1>3. Samples(x) = [k \in 1 .. size |-> << x.nr, k >>]
  BY DEF Samples
<1> HIDE DEF size
<1>4. \A k \in 1 .. size : << x.nr, k >> \in Sampled
  BY <1>1 DEF Sampled
<1> QED BY <1>2, <1>3, <1>4

-----------------------------------------------------------------------------
(* Sequences.                                                               *)
LEMMA EmptyRight ==
  ASSUME NEW S, NEW s \in Seq(S)
  PROVE  s \o << >> = s /\ << >> \o s = s
OBVIOUS

LEMMA EmptyLen ==
  ASSUME NEW S, NEW s \in Seq(S)
  PROVE  s = << >> <=> Len(s) = 0
OBVIOUS

LEMMA ConcatAt ==
  ASSUME NEW S, NEW s \in Seq(S), NEW t \in Seq(S)
  PROVE  /\ s \o t \in Seq(S) /\ Len(s \o t) = Len(s) + Len(t)
         /\ DOMAIN (s \o t) = 1 .. Len(s) + Len(t)
         /\ \A i \in 1 .. Len(s) : (s \o t)[i] = s[i]
         /\ \A i \in 1 .. Len(t) : (s \o t)[Len(s) + i] = t[i]
OBVIOUS

(* Where an element of two sequences in a row comes from.                   *)
LEMMA ConcatFrom ==
  ASSUME NEW S, NEW s \in Seq(S), NEW t \in Seq(S), NEW i \in DOMAIN (s \o t)
  PROVE  \/ i \in 1 .. Len(s) /\ (s \o t)[i] = s[i]
         \/ i - Len(s) \in 1 .. Len(t) /\ (s \o t)[i] = t[i - Len(s)] /\ i > Len(s)
<1> DEFINE st == s \o t
           m == Len(s)
           n == Len(t)
<1>1. m \in Nat /\ n \in Nat /\ i \in 1 .. m + n
  BY ConcatAt
<1>2. /\ \A k \in 1 .. m : st[k] = s[k]
      /\ \A k \in 1 .. n : st[m + k] = t[k]
  BY ConcatAt
<1> HIDE DEF st, m, n
<1>3. CASE i \in 1 .. m
  BY <1>2, <1>3 DEF st, m
<1>4. CASE i \notin 1 .. m
  <2>1. i - m \in 1 .. n /\ m + (i - m) = i /\ i > m
    BY <1>1, <1>4
  <2>2. st[i] = t[i - m]
    BY <2>1, <1>2
  <2> QED BY <2>1, <2>2 DEF st, m, n
<1> QED BY <1>3, <1>4

LEMMA ConcatSet ==
  ASSUME NEW S, NEW s \in Seq(S), NEW t \in Seq(S)
  PROVE  ToSet(s \o t) = ToSet(s) \cup ToSet(t)
<1>1. \A i \in DOMAIN (s \o t) : (s \o t)[i] \in ToSet(s) \cup ToSet(t)
  BY ConcatFrom DEF ToSet
<1>2. \A i \in DOMAIN s : i \in DOMAIN (s \o t) /\ (s \o t)[i] = s[i]
  BY ConcatAt
<1>3. \A i \in DOMAIN t : Len(s) + i \in DOMAIN (s \o t) /\ (s \o t)[Len(s) + i] = t[i]
  BY ConcatAt
<1>4. ToSet(s \o t) \subseteq ToSet(s) \cup ToSet(t)
  BY <1>1 DEF ToSet
<1>5. ToSet(s) \subseteq ToSet(s \o t)
  BY <1>2 DEF ToSet
<1>6. ToSet(t) \subseteq ToSet(s \o t)
  BY <1>3 DEF ToSet
<1> QED BY <1>4, <1>5, <1>6

LEMMA PrefixOfConcat ==
  ASSUME NEW S, NEW s \in Seq(S), NEW t \in Seq(S)
  PROVE  IsPrefix(s, s \o t)
<1> DEFINE st == s \o t
           n == Len(s)
<1>1. /\ st \in Seq(S) /\ n \in Nat /\ n <= Len(st) /\ Len(st) \in Nat
      /\ \A i \in 1 .. n : st[i] = s[i]
  BY ConcatAt
<1> HIDE DEF st
<1>2. SubSeq(s, 1, n) = [i \in 1 .. n |-> s[i]] /\ SubSeq(st, 1, n) = [i \in 1 .. n |-> st[i]]
  BY <1>1
<1>3. SubSeq(s, 1, n) = SubSeq(st, 1, n)
  BY <1>1, <1>2
<1> QED BY <1>1, <1>3 DEF IsPrefix, st

LEMMA HeadAndTail ==
  ASSUME NEW S, NEW s \in Seq(S), s # << >>
  PROVE  /\ s = << Head(s) >> \o Tail(s) /\ Head(s) = s[1] /\ Head(s) \in S
         /\ Tail(s) \in Seq(S) /\ Len(Tail(s)) = Len(s) - 1 /\ Len(s) >= 1
         /\ \A i \in 1 .. Len(s) - 1 : Tail(s)[i] = s[i + 1]
OBVIOUS

LEMMA FirstOfRest ==
  ASSUME NEW S, NEW s \in Seq(S), NEW k \in Nat, k < Len(s)
  PROVE  SubSeq(s, k + 1, Len(s)) = << s[k + 1] >> \o SubSeq(s, k + 2, Len(s))
<1> DEFINE l == Len(s)
           a == SubSeq(s, k + 1, l)
           b == SubSeq(s, k + 2, l)
           x == s[k + 1]
<1>1. l \in Nat /\ k + 1 \in 1 .. l
  OBVIOUS
<1>2. x \in S
  BY <1>1
<1>3. /\ a \in Seq(S) /\ Len(a) = l - k
      /\ \A i \in 1 .. l - (k + 1) + 1 : a[i] = s[k + 1 + i - 1]
  <2>1. \A i \in k + 1 .. l : s[i] \in S
    BY <1>1
  <2>2. k + 1 \in Int /\ l \in Int
    BY <1>1
  <2>3. /\ a \in Seq(S) /\ Len(a) = IF k + 1 <= l THEN l - (k + 1) + 1 ELSE 0
        /\ \A i \in 1 .. l - (k + 1) + 1 : a[i] = s[k + 1 + i - 1]
    BY <2>1, <2>2, SubSeqProperties
  <2> HIDE DEF a, l
  <2> QED BY <2>3, <1>1
<1>4. /\ b \in Seq(S) /\ Len(b) = l - k - 1
      /\ \A i \in 1 .. l - (k + 2) + 1 : b[i] = s[k + 2 + i - 1]
  <2>1. \A i \in k + 2 .. l : s[i] \in S
    BY <1>1
  <2>2. k + 2 \in Int /\ l \in Int
    BY <1>1
  <2>3. /\ b \in Seq(S) /\ Len(b) = IF k + 2 <= l THEN l - (k + 2) + 1 ELSE 0
        /\ \A i \in 1 .. l - (k + 2) + 1 : b[i] = s[k + 2 + i - 1]
    BY <2>1, <2>2, SubSeqProperties
  <2> HIDE DEF b, l
  <2> QED BY <2>3, <1>1
<1> HIDE DEF a, b, l, x
<1>5. << x >> \in Seq(S) /\ Len(<< x >>) = 1 /\ << x >>[1] = x
  BY <1>2
<1>6. /\ << x >> \o b \in Seq(S) /\ Len(<< x >> \o b) = 1 + Len(b)
      /\ \A i \in 1 .. 1 + Len(b) : (<< x >> \o b)[i] = IF i <= 1 THEN << x >>[i] ELSE b[i - 1]
  BY <1>4, <1>5, ConcatProperties
<1>7. ASSUME NEW i \in 1 .. Len(a) PROVE a[i] = (<< x >> \o b)[i]
  <2>1. i \in 1 .. l - k /\ i \in 1 .. 1 + Len(b) /\ i \in 1 .. l - (k + 1) + 1
    BY <1>1, <1>3, <1>4
  <2>2. a[i] = s[k + 1 + i - 1] /\ k + 1 + i - 1 = k + i
    BY <2>1, <1>3
  <2>3. CASE i = 1
    BY <2>1, <2>2, <2>3, <1>5, <1>6 DEF x
  <2>4. CASE i > 1
    <3>1. i - 1 \in 1 .. l - (k + 2) + 1 /\ k + 2 + (i - 1) - 1 = k + i
      BY <2>1, <2>4, <1>1
    <3>2. b[i - 1] = s[k + i]
      BY <3>1, <1>4
    <3> QED BY <2>1, <2>2, <2>4, <3>2, <1>6
  <2> QED BY <2>1, <2>3, <2>4
<1>8. Len(a) = Len(<< x >> \o b)
  BY <1>1, <1>3, <1>4, <1>6
<1>9. a = << x >> \o b
  BY <1>3, <1>6, <1>7, <1>8, SeqEqual
<1> QED BY <1>9 DEF a, b, x, l

(* What a buffer leaves behind, and what it writes, is all there was.       *)
LEMMA FlushedAndKept ==
  ASSUME NEW all \in Seq(Sampled)
  PROVE  /\ Flushed(all) \in Seq(Sampled) /\ Kept(all) \in Seq(Sampled)
         /\ Flushed(all) \o Kept(all) = all
<1> DEFINE n == SdfBufLen * (Len(all) \div SdfBufLen)
<1>1. n \in Nat /\ n <= Len(all) /\ Len(all) \in Nat
  BY SigAssumption, Quotient
<1>2. Flushed(all) = SubSeq(all, 1, n)
  BY DEF Flushed
<1> HIDE DEF n
<1>3. Flushed(all) \in Seq(Sampled) /\ Len(Flushed(all)) = n
  BY <1>1, <1>2
<1>4. Kept(all) = SubSeq(all, n + 1, Len(all))
  BY <1>3 DEF Kept
<1>5. Kept(all) \in Seq(Sampled)
  BY <1>1, <1>4
<1>6. SubSeq(all, 1, n) \o SubSeq(all, n + 1, Len(all)) = all
  <2> DEFINE a == SubSeq(all, 1, n)
             b == SubSeq(all, n + 1, Len(all))
  <2>1. a \in Seq(Sampled) /\ Len(a) = n /\ \A i \in 1 .. n : a[i] = all[i]
    BY <1>1
  <2>2. /\ b \in Seq(Sampled) /\ Len(b) = Len(all) - n
        /\ \A i \in 1 .. Len(all) - n : b[i] = all[n + i]
    BY <1>1
  <2> HIDE DEF a, b
  <2> DEFINE l == Len(all)
  <2>3. /\ a \o b \in Seq(Sampled) /\ Len(a \o b) = Len(a) + Len(b)
        /\ \A i \in 1 .. Len(a) + Len(b) :
             (a \o b)[i] = IF i <= Len(a) THEN a[i] ELSE b[i - Len(a)]
    BY <2>1, <2>2, ConcatProperties
  <2>4. n \in Nat /\ l \in Nat /\ n <= l /\ Len(a) = n /\ Len(b) = l - n
    BY <1>1, <2>1, <2>2
  <2> HIDE DEF l
  <2>4a. Len(a) + Len(b) = l
    BY <2>4
  <2>4b. ASSUME NEW i \in 1 .. l PROVE (a \o b)[i] = all[i]
    <3>1. CASE i <= n
      BY <3>1, <2>1, <2>3, <2>4, <2>4a
    <3>2. CASE i > n
      <4>1. i - n \in 1 .. l - n /\ n + (i - n) = i
        BY <3>2, <2>4
      <4>2. b[i - n] = all[i]
        BY <4>1, <2>2 DEF l
      <4> QED BY <3>2, <4>2, <2>3, <2>4, <2>4a
    <3> QED BY <3>1, <3>2, <2>4
  <2>5. a \o b = all
    BY <2>3, <2>4a, <2>4b, SeqEqual DEF l
  <2> QED BY <2>5 DEF a, b
<1> QED BY <1>2, <1>3, <1>4, <1>5, <1>6

-----------------------------------------------------------------------------
(* The state.                                                               *)
LEMMA SigFields ==
  ASSUME SigTypeOK
  PROVE  /\ sig.item \in Seq(Arrived) /\ sig.out \in Seq(Things) /\ sig.ret \in {"COLLECT", "PLAY"}
         /\ sig.inner \in {0} \cup 3 .. 9 /\ sig.inFile \in Names /\ sig.pos \in Nat
         /\ sig.outFile \in Names /\ sig.buf \in Seq(Sampled)
         /\ sig.frames \in Seq(Nat) /\ Len(sig.frames) = 3 /\ sig.available \in 0 .. 3 /\ sig.mods \in Mods
         /\ sigHist.due \in Seq(Things) /\ sigHist.put \in Seq(Things)
         /\ sigHist.virtual \in Seq(Nat) /\ sigHist.nr \in Nat
BY DEF SigTypeOK, SigStates, Hists

LEMMA ConsumedFields ==
  ASSUME SigTypeOK
  PROVE  /\ Consumed \in SigStates
         /\ Consumed.item = << >> /\ Consumed.ret = "COLLECT"
         /\ Consumed.out = sig.out /\ Consumed.inner = sig.inner /\ Consumed.inFile = sig.inFile
         /\ Consumed.pos = sig.pos /\ Consumed.outFile = sig.outFile /\ Consumed.buf = sig.buf
         /\ Consumed.frames = sig.frames /\ Consumed.available = sig.available
         /\ Consumed.mods = sig.mods
<1>1. << >> \in Seq(Arrived)
  OBVIOUS
<1> QED BY <1>1 DEF SigTypeOK, SigStates, Consumed

(* The item that is dealt with.                                             *)
LEMMA ItemThere ==
  ASSUME SigTypeOK, Phases, procState \in {"SCHEDULE", "PROCESS"}
  PROVE  SigItem \in Arrived /\ SigItem.id \in Nat /\ SigItem \in Things /\ SigItem.kind # "FRAME"
<1>1. sig.item \in Seq(Arrived) /\ Len(sig.item) = 1
  BY SigFields DEF Phases
<1>2. SigItem \in Arrived
  BY <1>1 DEF SigItem
<1> QED BY <1>2, ItemFacts DEF Things

(* What is pending is a sequence of items and pieces.                       *)
LEMMA FrameGivesTyped ==
  ASSUME SigTypeOK, FramesKept, InFrame, SigItem.id \in Nat
  PROVE  /\ Len(sigHist.virtual) >= 3 /\ sigHist.virtual[Len(sigHist.virtual) - 2] \in Nat
         /\ FrameGives \in Seq(Things)
<1> DEFINE v == sigHist.virtual
           n == Len(v)
<1>1. v \in Seq(Nat) /\ sig.mods \in Mods /\ sigHist.nr \in Nat /\ sig.available \in 0 .. 3
  BY SigFields
<1>2. n \in Nat /\ n >= 3
  <2>1. n \in Nat
    BY <1>1
  <2> QED BY <2>1, <1>1 DEF FramesKept
<1>3. v[n - 2] \in Nat
  BY <1>1, <1>2
<1>4. sigHist.nr - 2 \in Int
  BY <1>1
<1>5. FrameGives \in Seq(Things)
  BY <1>1, <1>3, <1>4, TwoPiecesFacts DEF FrameGives
<1> QED BY <1>2, <1>3, <1>5

LEMMA FileGivesTyped ==
  ASSUME SigTypeOK, NEW name \in DOMAIN Readable
  PROVE  /\ FileGives(name) \in Seq(Things) /\ Len(FileGives(name)) = NumPieces(name)
         /\ NumPieces(name) \in Nat
         /\ \A n \in 1 .. NumPieces(name) :
              /\ FileGives(name)[n] = FilePiece(name, Half * (n - 1) + 1, PieceEnd(name, n), sig.mods,
                                                sigHist.nr - NumPieces(name) + n)
              /\ FileGives(name)[n].nr = sigHist.nr - NumPieces(name) + n
<1>1. NumPieces(name) \in Nat /\ sigHist.nr \in Nat /\ sig.mods \in Mods
  BY SigFields, PieceCount
<1>2. sigHist.nr - NumPieces(name) \in Int
  BY <1>1
<1> QED BY <1>1, <1>2, FilePiecesFacts DEF FileGives

\* The place in the file that is played.
Playing == procState = "PLAY" \/ (procState = "FEED" /\ sig.ret = "PLAY")

LEMMA PlayingAt ==
  ASSUME SigTypeOK, Phases, Playing
  PROVE  LET N == NumPieces(sig.inFile)
         IN  /\ sig.inFile \in DOMAIN Readable /\ N \in Nat
             /\ \E k \in 0 .. N : /\ sig.pos = PieceEnd(sig.inFile, k)
                                  /\ StillToPlay = SubSeq(FileGives(sig.inFile), k + 1, N)
                                  /\ StillToPlay \in Seq(Things)
<1>1. sig.inFile \in DOMAIN Readable
  BY DEF Phases, Playing
<1>2. PICK k \in 0 .. NumPieces(sig.inFile) : sig.pos = PieceEnd(sig.inFile, k)
  BY DEF Phases, Playing
<1>3. Made1(sig.inFile, sig.pos) = k
  BY <1>1, <1>2, PositionTells
<1>4. StillToPlay = SubSeq(FileGives(sig.inFile), k + 1, NumPieces(sig.inFile))
  BY <1>3 DEF StillToPlay
<1> DEFINE all == FileGives(sig.inFile)
           N == NumPieces(sig.inFile)
<1>5. all \in Seq(Things) /\ Len(all) = N /\ N \in Nat
  BY <1>1, FileGivesTyped
<1> HIDE DEF all, N
<1>6. SubSeq(all, k + 1, N) \in Seq(Things)
  <2>1. \A i \in k + 1 .. N : all[i] \in Things
    BY <1>5, <1>2 DEF N
  <2>2. k + 1 \in Int /\ N \in Int
    BY <1>5, <1>2
  <2> QED BY <2>1, <2>2, SubSeqProperties
<1> QED BY <1>1, <1>2, <1>4, <1>5, <1>6 DEF all, N

LEMMA PendingTyped ==
  ASSUME SigTypeOK, Phases, FramesKept
  PROVE  /\ Pending \in Seq(Things)
         /\ procState = "FEED" => Behind \in Seq(Things)
         /\ procState = "SCHEDULE" => ItemGives \in Seq(Things)
<1>1. << >> \in Seq(Things) /\ sig.out \in Seq(Things)
  BY SigFields
<1>2. procState = "FEED" => Behind \in Seq(Things)
  BY <1>1, PlayingAt DEF Behind, Playing
<1>3. CASE procState = "SCHEDULE"
  <2>1. SigItem \in Things /\ SigItem.id \in Nat
    BY <1>3, ItemThere
  <2>2. << SigItem >> \in Seq(Things)
    BY <2>1
  <2>3. SigItem.kind = "FRAME_PAR" => FrameGives \in Seq(Things)
    BY <1>3, <2>1, FrameGivesTyped DEF InFrame
  <2>4. Plays(SigItem.name) => FileGives(SigItem.name) \in Seq(Things)
    BY FileGivesTyped DEF Plays
  <2>5. ItemGives \in Seq(Things)
    BY <1>1, <2>2, <2>3, <2>4 DEF ItemGives
  <2> QED BY <1>3, <2>5 DEF Pending
<1>4. CASE procState = "PROCESS"
  <2>1. FrameGives \in Seq(Things)
    BY <1>4, ItemThere, FrameGivesTyped DEF InFrame
  <2> QED BY <1>4, <2>1 DEF Pending
<1>5. CASE procState = "PLAY"
  BY <1>5, PlayingAt DEF Pending, Playing
<1>6. CASE procState = "FEED"
  <2>1. sig.out \o Behind \in Seq(Things)
    BY <1>1, <1>2, <1>6
  <2> QED BY <1>2, <1>6, <2>1 DEF Pending
<1>7. CASE procState = "COLLECT"
  BY <1>1, <1>7 DEF Pending
<1> QED BY <1>3, <1>4, <1>5, <1>6, <1>7 DEF SigTypeOK

LEMMA WrittenTyped ==
  ASSUME SigTypeOK, sig.outFile \in DOMAIN disk
  PROVE  LET file == disk[sig.outFile]
         IN  /\ file \in Files /\ file.samples \in Seq(Sampled) /\ file.heard \in Seq(Sampled)
             /\ Written \in Seq(Sampled) /\ Written = file.samples \o sig.buf
<1>1. disk[sig.outFile] \in Files
  BY DEF SigTypeOK
<1>2. disk[sig.outFile].samples \in Seq(Sampled) /\ disk[sig.outFile].heard \in Seq(Sampled)
  BY <1>1 DEF Files
<1>3. sig.buf \in Seq(Sampled)
  BY SigFields
<1> QED BY <1>1, <1>2, <1>3 DEF Written

-----------------------------------------------------------------------------
(* A step that changes nothing that is pending, and no file.                *)
LEMMA Quiet ==
  ASSUME SigInv, Pending' = Pending, UNCHANGED << disk, sigHist >>,
         sig'.outFile = sig.outFile, sig'.buf = sig.buf,
         procState = "FEED" => procState' = "FEED" /\ sig'.out = sig.out
  PROVE  Owed' /\ Rising(Pending)' /\ FileSound' /\ FilesComplete'
<1>1. Owed' /\ FilesComplete'
  BY DEF SigInv, Owed, FilesComplete
<1>2. Rising(Pending)'
  BY DEF SigInv, Rising
<1>3. Written' = Written
  BY DEF Written
<1>4. FileSound'
  BY <1>3 DEF SigInv, FileSound, Sorted, BeforeAll
<1> QED BY <1>1, <1>2, <1>4

LEMMA ForwardKeeps == SigInv /\ SigForward => SigInv'
<1> SUFFICES ASSUME SigInv, SigForward PROVE SigInv'
  OBVIOUS
<1>1. /\ procState = "SCHEDULE" /\ procState' = "FEED" /\ ~DealWith(SigItem)
      /\ sig' = [Consumed EXCEPT !.out = << SigItem >>]
      /\ UNCHANGED << cbIn, fed, disk, sigHist >>
  BY DEF SigForward, Running, Leave, NoTransfer
<1>2. SigTypeOK /\ Phases /\ FramesKept
  BY DEF SigInv
<1>3. SigItem \in Things /\ << SigItem >> \in Seq(Things) /\ << SigItem >> # << >>
  BY <1>1, <1>2, ItemThere
<1>4. /\ sig' \in SigStates /\ sig'.out = << SigItem >> /\ sig'.ret = "COLLECT"
      /\ sig'.inner = sig.inner /\ sig'.frames = sig.frames /\ sig'.available = sig.available
      /\ sig'.outFile = sig.outFile /\ sig'.buf = sig.buf
  BY <1>1, <1>2, <1>3, ConsumedFields DEF SigStates
<1>5. SigTypeOK'
  BY <1>1, <1>2, <1>4 DEF SigTypeOK
<1>6. Phases'
  BY <1>1, <1>2, <1>3, <1>4 DEF Phases
<1>7. FramesKept'
  <2>1. ~InFrame /\ ~InFrame'
    BY <1>1 DEF InFrame, DealWith
  <2> QED BY <1>1, <1>2, <1>4, <2>1 DEF FramesKept
<1>8. Pending' = Pending
  <2>1. Pending = << SigItem >>
    BY <1>1 DEF Pending, ItemGives
  <2>2. Pending' = << SigItem >> \o << >>
    BY <1>1, <1>4 DEF Pending, Behind
  <2> QED BY <2>1, <2>2, <1>3
<1> QED BY <1>1, <1>4, <1>5, <1>6, <1>7, <1>8, Quiet DEF SigInv

LEMMA FrameKeeps == SigInv /\ SigFrame => SigInv'
<1> SUFFICES ASSUME SigInv, SigFrame PROVE SigInv'
  OBVIOUS
<1>1. /\ procState = "SCHEDULE" /\ procState' = "PROCESS"
      /\ SigItem.kind = "FRAME_PAR" /\ DealWith(SigItem)
      /\ sig' = [sig EXCEPT !.ret = "COLLECT"]
      /\ UNCHANGED << cbIn, fed, disk, sigHist >>
  BY DEF SigFrame, Scheduled, SigItem, Running, Leave, NoTransfer
<1>2. SigTypeOK /\ Phases /\ FramesKept
  BY DEF SigInv
<1>4. /\ sig' \in SigStates /\ sig'.item = sig.item /\ sig'.ret = "COLLECT"
      /\ sig'.inner = sig.inner /\ sig'.frames = sig.frames /\ sig'.available = sig.available
      /\ sig'.outFile = sig.outFile /\ sig'.buf = sig.buf /\ sig'.mods = sig.mods
  BY <1>1, <1>2 DEF SigTypeOK, SigStates
<1>5. SigTypeOK'
  BY <1>1, <1>2, <1>4 DEF SigTypeOK
<1>5a. SigItem' = SigItem
  BY <1>4 DEF SigItem
<1>6. Phases'
  BY <1>1, <1>2, <1>4, <1>5a DEF Phases
<1>7. FramesKept'
  <2>1. InFrame /\ InFrame'
    BY <1>1 DEF InFrame
  <2> QED BY <1>1, <1>2, <1>4, <1>5a, <2>1 DEF FramesKept
<1>8. Pending' = Pending
  BY <1>1, <1>4 DEF Pending, ItemGives, FrameGives
<1> QED BY <1>1, <1>4, <1>5, <1>6, <1>7, <1>8, Quiet DEF SigInv

LEMMA ModifyKeeps == SigInv /\ SigModify => SigInv'
<1> SUFFICES ASSUME SigInv, SigModify PROVE SigInv'
  OBVIOUS
<1>1. /\ procState = "SCHEDULE" /\ procState' = "COLLECT"
      /\ SigItem.kind \in {"PITCH", "VOLUME", "SPEAKER"} /\ DealWith(SigItem)
      /\ UNCHANGED << cbIn, fed, disk, sigHist >>
  BY DEF SigModify, Scheduled, SigItem, Running, Leave, NoTransfer
<1>2. SigTypeOK /\ Phases /\ FramesKept
  BY DEF SigInv
<1>3. SigItem.val \in Int /\ SigItem.val \div 10 \in Int
  BY <1>1, <1>2, ItemThere, ItemFacts
<1>4. /\ sig' \in SigStates
      /\ sig'.inner = sig.inner /\ sig'.frames = sig.frames /\ sig'.available = sig.available
      /\ sig'.outFile = sig.outFile /\ sig'.buf = sig.buf
  <2>1. CASE sig' = Consumed
    BY <1>2, <2>1, ConsumedFields
  <2>2. ASSUME NEW x \in Int, sig' = [Consumed EXCEPT !.mods[SigItem.kind] = x]
        PROVE  /\ sig' \in SigStates
               /\ sig'.inner = Consumed.inner /\ sig'.frames = Consumed.frames
               /\ sig'.available = Consumed.available
               /\ sig'.outFile = Consumed.outFile /\ sig'.buf = Consumed.buf
    <3>1. Consumed \in SigStates
      BY <1>2, ConsumedFields
    <3> QED BY <1>1, <2>2, <3>1 DEF SigStates, Mods
  <2>3. \/ sig' = Consumed
        \/ sig' = [Consumed EXCEPT !.mods[SigItem.kind] =
                     IF SigItem.info2 = "a" THEN SigItem.val ELSE SigItem.val \div 10]
    BY DEF SigModify
  <2> DEFINE x == IF SigItem.info2 = "a" THEN SigItem.val ELSE SigItem.val \div 10
  <2>4. x \in Int
    BY <1>3
  <2> HIDE DEF x
  <2>5. sig' = Consumed \/ sig' = [Consumed EXCEPT !.mods[SigItem.kind] = x]
    BY <2>3 DEF x
  <2> QED BY <2>1, <2>2, <2>4, <2>5, <1>2, ConsumedFields
<1>5. SigTypeOK'
  BY <1>1, <1>2, <1>4 DEF SigTypeOK
<1>6. Phases'
  BY <1>1, <1>2, <1>4 DEF Phases
<1>7. FramesKept'
  <2>1. ~InFrame /\ ~InFrame'
    BY <1>1 DEF InFrame
  <2> QED BY <1>1, <1>2, <1>4, <2>1 DEF FramesKept
<1>8. Pending' = Pending
  BY <1>1 DEF Pending, ItemGives
<1> QED BY <1>1, <1>4, <1>5, <1>6, <1>7, <1>8, Quiet DEF SigInv

LEMMA Shifted ==
  ASSUME NEW S, NEW f \in Seq(S), Len(f) = 3, NEW x \in S
  PROVE  LET g == Append(Tail(f), x)
         IN  g \in Seq(S) /\ Len(g) = 3 /\ g[1] = f[2] /\ g[2] = f[3] /\ g[3] = x
<1> DEFINE t == Tail(f)
<1>1. f # << >>
  OBVIOUS
<1>2. t \in Seq(S) /\ Len(t) = 2 /\ \A i \in 1 .. 2 : t[i] = f[i + 1]
  BY <1>1, HeadAndTail
<1>3. t[1] = f[2] /\ t[2] = f[3]
  BY <1>2
<1> HIDE DEF t
<1>4. /\ Append(t, x) \in Seq(S) /\ Len(Append(t, x)) = 3
      /\ Append(t, x)[1] = t[1] /\ Append(t, x)[2] = t[2] /\ Append(t, x)[3] = x
  <2>1. /\ Append(t, x) \in Seq(S) /\ Len(Append(t, x)) = Len(t) + 1
        /\ \A i \in 1 .. Len(t) : Append(t, x)[i] = t[i]
        /\ Append(t, x)[Len(t) + 1] = x
    <3>1. t \in Seq(S)
      BY <1>2
    <3> QED BY <3>1, AppendProperties
  <2>2. 2 + 1 = 3 /\ 1 \in 1 .. 2 /\ 2 \in 1 .. 2
    OBVIOUS
  <2> QED BY <2>1, <2>2, <1>2
<1> QED BY <1>3, <1>4 DEF t

(* The frame that comes is put behind the others: the history has it there  *)
(* already.                                                                 *)
LEMMA ShiftKeeps == SigInv /\ SigShift => SigInv'
<1> SUFFICES ASSUME SigInv, SigShift PROVE SigInv'
  OBVIOUS
<1> DEFINE a == sig.available
           b == IF a < 3 THEN a + 1 ELSE 3
           f == sig.frames
           g == Append(Tail(f), SigItem.id)
           v == sigHist.virtual
           n == Len(v)
<1>1. /\ procState = "PROCESS" /\ procState' = "PROCESS" /\ sig.inner = 0
      /\ sig' = [sig EXCEPT !.frames = g, !.available = b, !.inner = IF b = 3 THEN 3 ELSE 0]
      /\ UNCHANGED << cbIn, fed, disk, sigHist >>
  BY DEF SigShift, Running, Return, NoTransfer, CepstBuffSize, ShiftDone
<1>2. SigTypeOK /\ Phases /\ FramesKept
  BY DEF SigInv
<1>3. SigItem.id \in Nat /\ SigItem.kind = "FRAME_PAR"
  BY <1>1, <1>2, ItemThere DEF Phases
<1>4. /\ a \in 0 .. 3 /\ f \in Seq(Nat) /\ Len(f) = 3 /\ v \in Seq(Nat) /\ n \in Nat
      /\ b \in 1 .. 3
  <2>1. /\ a \in 0 .. 3 /\ f \in Seq(Nat) /\ Len(f) = 3 /\ v \in Seq(Nat)
    BY <1>2, SigFields
  <2>2. n \in Nat
    BY <2>1
  <2> HIDE DEF a, n
  <2>3. b \in 1 .. 3
    BY <2>1
  <2> QED BY <2>1, <2>2, <2>3 DEF n
<1>5. /\ g \in Seq(Nat) /\ Len(g) = 3 /\ g[1] = f[2] /\ g[2] = f[3] /\ g[3] = SigItem.id
  BY <1>3, <1>4, Shifted, SMTT(60)
<1> HIDE DEF g, b
<1> DEFINE c == IF b = 3 THEN 3 ELSE 0
<1>6a. c \in {0} \cup 3 .. 9 /\ b \in 0 .. 3
  BY <1>4
<1> HIDE DEF c
<1>6b. sig' = [sig EXCEPT !.frames = g, !.available = b, !.inner = c]
  BY <1>1 DEF c
<1>6. /\ sig' \in SigStates /\ sig'.item = sig.item /\ sig'.ret = sig.ret
      /\ sig'.inner = c /\ sig'.frames = g /\ sig'.available = b
      /\ sig'.outFile = sig.outFile /\ sig'.buf = sig.buf /\ sig'.mods = sig.mods
  BY <1>6a, <1>6b, <1>2, <1>5 DEF SigTypeOK, SigStates
<1>7. SigTypeOK'
  BY <1>1, <1>2, <1>5, <1>6 DEF SigTypeOK
<1>8. SigItem' = SigItem
  BY <1>6 DEF SigItem
<1>9. Phases'
  BY <1>1, <1>2, <1>6, <1>8 DEF Phases
<1>10. FramesKept'
  <2>1. InFrame /\ InFrame'
    BY <1>1 DEF InFrame
  <2>2. /\ a < 3 => /\ n = 3 /\ \A i \in 1 .. a : f[3 - a + i] = v[i]
                    /\ \A i \in a + 1 .. 3 : v[i] = SigItem.id
        /\ a = 3 => n >= 4 /\ v[n] = SigItem.id /\ \A i \in 1 .. 3 : f[i] = v[n - 4 + i]
    BY <1>1, <1>2, <2>1 DEF FramesKept
  <2>3. CASE a < 2
    <3>1. b = a + 1 /\ b < 3
      BY <2>3, <1>4 DEF b
    <3>2. \A i \in 1 .. b : g[3 - b + i] = v[i]
      <4>1. a = 0 \/ a = 1
        BY <2>3, <1>4
      <4>2. a = 0 => v[1] = SigItem.id
        BY <2>2
      <4>3. a = 1 => f[3] = v[1] /\ v[2] = SigItem.id
        BY <2>2
      <4>4. a = 0 => \A i \in 1 .. b : i = 1 /\ 3 - b + i = 3
        BY <3>1
      <4>5. a = 1 => \A i \in 1 .. b : \/ i = 1 /\ 3 - b + i = 2
                                       \/ i = 2 /\ 3 - b + i = 3
        BY <3>1
      <4> QED BY <4>1, <4>2, <4>3, <4>4, <4>5, <1>5
    <3>3. \A i \in b + 1 .. 3 : v[i] = SigItem.id
      BY <2>2, <2>3, <3>1, <1>4
    <3>4. n = 3 /\ sig'.inner = 0 /\ sig'.available = b /\ sig'.frames = g /\ b # 3
      BY <1>6, <2>2, <2>3, <3>1, <1>4 DEF c
    <3> QED BY <1>1, <1>8, <2>1, <3>1, <3>2, <3>3, <3>4 DEF FramesKept
  <2>4. CASE a >= 2
    <3>1. b = 3
      BY <2>4, <1>4 DEF b
    <3>2. n >= 3 /\ g[1] = v[n - 2] /\ g[2] = v[n - 1] /\ g[3] = v[n]
      <4>1. CASE a = 2
        <5>1. f[2] = v[1] /\ f[3] = v[2] /\ v[3] = SigItem.id /\ n = 3
          BY <4>1, <2>2
        <5> QED BY <5>1, <1>5
      <4>2. CASE a = 3
        <5>1. /\ f[2] = v[n - 4 + 2] /\ f[3] = v[n - 4 + 3] /\ v[n] = SigItem.id /\ n >= 4
          BY <4>2, <2>2
        <5>2. n - 4 + 2 = n - 2 /\ n - 4 + 3 = n - 1
          BY <1>4
        <5> QED BY <5>1, <5>2, <1>4, <1>5
      <4> QED BY <4>1, <4>2, <2>4, <1>4
    <3>3. \A i \in 1 .. 3 : g[i] = v[n - 3 + i]
      <4>1. n - 3 + 1 = n - 2 /\ n - 3 + 2 = n - 1 /\ n - 3 + 3 = n
        BY <1>4
      <4>2. \A i \in 1 .. 3 : i = 1 \/ i = 2 \/ i = 3
        OBVIOUS
      <4> QED BY <4>1, <4>2, <3>2
    <3> QED BY <1>1, <1>6, <1>8, <2>1, <3>1, <3>2, <3>3 DEF FramesKept, c
  <2> QED BY <2>3, <2>4, <1>4
<1>11. Pending' = Pending
  BY <1>1, <1>6 DEF Pending, FrameGives
<1> QED BY <1>1, <1>6, <1>7, <1>9, <1>10, <1>11, Quiet DEF SigInv

LEMMA ComputeKeeps == SigInv /\ SigCompute => SigInv'
<1> SUFFICES ASSUME SigInv, SigCompute PROVE SigInv'
  OBVIOUS
<1>1. /\ procState = "PROCESS" /\ procState' = "PROCESS" /\ sig.inner \in 3 .. 8
      /\ sig' = [sig EXCEPT !.inner = @ + 1]
      /\ UNCHANGED << cbIn, fed, disk, sigHist >>
  BY DEF SigCompute, Running, Return, NoTransfer
<1>2. SigTypeOK /\ Phases /\ FramesKept
  BY DEF SigInv
<1>3. sig.inner + 1 \in 3 .. 9 /\ sig.inner # 0 /\ sig.inner + 1 # 0
  BY <1>1
<1>4. /\ sig' \in SigStates /\ sig'.item = sig.item /\ sig'.ret = sig.ret
      /\ sig'.inner = sig.inner + 1 /\ sig'.frames = sig.frames /\ sig'.available = sig.available
      /\ sig'.outFile = sig.outFile /\ sig'.buf = sig.buf /\ sig'.mods = sig.mods
  BY <1>1, <1>2, <1>3 DEF SigTypeOK, SigStates
<1>5. SigTypeOK'
  BY <1>1, <1>2, <1>4 DEF SigTypeOK
<1>6. SigItem' = SigItem
  BY <1>4 DEF SigItem
<1>7. Phases'
  BY <1>1, <1>2, <1>4, <1>6 DEF Phases
<1>8. FramesKept'
  <2>1. InFrame /\ InFrame'
    BY <1>1 DEF InFrame
  <2> QED BY <1>1, <1>2, <1>3, <1>4, <1>6, <2>1 DEF FramesKept
<1>9. Pending' = Pending
  BY <1>1, <1>4 DEF Pending, FrameGives
<1> QED BY <1>1, <1>4, <1>5, <1>7, <1>8, <1>9, Quiet DEF SigInv

(* Three frames later the oldest of the buffer is the one that is due.      *)
LEMMA SoundKeeps == SigInv /\ SigSound => SigInv'
<1> SUFFICES ASSUME SigInv, SigSound PROVE SigInv'
  OBVIOUS
<1> DEFINE two == TwoPieces(sig.frames[1], sig.mods, sigHist.nr - 2)
           v == sigHist.virtual
           n == Len(v)
<1>1. /\ procState = "PROCESS" /\ procState' = "FEED" /\ sig.inner # 0
      /\ sig' = [Consumed EXCEPT !.inner = 0, !.out = two]
      /\ UNCHANGED << cbIn, fed, disk, sigHist >>
  BY DEF SigSound, Running, Leave, NoTransfer
<1>2. SigTypeOK /\ Phases /\ FramesKept
  BY DEF SigInv
<1>3. InFrame /\ ~InFrame'
  BY <1>1 DEF InFrame
<1>4. sig.available = 3 /\ n >= 3 /\ \A i \in 1 .. 3 : sig.frames[i] = v[n - 3 + i]
  BY <1>1, <1>2, <1>3 DEF FramesKept
<1>5. n \in Nat /\ sig.frames[1] = v[n - 2]
  <2>1. n \in Nat
    BY <1>2, SigFields
  <2>2. n - 3 + 1 = n - 2
    BY <2>1
  <2> QED BY <2>1, <2>2, <1>4
<1>6. two = FrameGives
  BY <1>5 DEF FrameGives
<1>7. two \in Seq(Things) /\ two # << >>
  <2>1. SigItem.id \in Nat
    BY <1>1, <1>2, ItemThere
  <2>2. FrameGives \in Seq(Things)
    BY <1>2, <1>3, <2>1, FrameGivesTyped
  <2>3. two # << >>
    BY DEF TwoPieces
  <2> QED BY <2>2, <2>3, <1>6
<1> HIDE DEF two
<1>8. /\ sig' \in SigStates /\ sig'.ret = "COLLECT" /\ sig'.out = two
      /\ sig'.inner = 0 /\ sig'.frames = sig.frames /\ sig'.available = sig.available
      /\ sig'.outFile = sig.outFile /\ sig'.buf = sig.buf
  BY <1>1, <1>2, <1>7, ConsumedFields DEF SigStates
<1>9. SigTypeOK'
  BY <1>1, <1>2, <1>8 DEF SigTypeOK
<1>10. Phases'
  BY <1>1, <1>7, <1>8 DEF Phases
<1>11. FramesKept'
  <2>1. \A i \in 1 .. 3 : sig.frames[3 - 3 + i] = v[n - 3 + i]
    BY <1>4
  <2>2. sig'.available = 3 /\ sig'.frames = sig.frames /\ sigHist' = sigHist
    BY <1>1, <1>4, <1>8
  <2> QED BY <1>3, <1>4, <2>1, <2>2 DEF FramesKept
<1>12. Pending' = Pending
  <2>1. Pending = two
    BY <1>1, <1>6 DEF Pending
  <2>2. Pending' = two \o << >>
    BY <1>1, <1>8 DEF Pending, Behind
  <2> QED BY <2>1, <2>2, <1>7
<1> QED BY <1>1, <1>8, <1>9, <1>10, <1>11, <1>12, Quiet DEF SigInv

(* A file is opened, read and closed: each piece is the next that is due.   *)
LEMMA PlayKeeps == SigInv /\ SigPlay => SigInv'
<1> SUFFICES ASSUME SigInv, SigPlay PROVE SigInv'
  OBVIOUS
<1> DEFINE name == SigItem.name
<1>1. /\ procState = "SCHEDULE" /\ SigItem.kind = "PLAY" /\ DealWith(SigItem)
      /\ UNCHANGED << cbIn, fed, disk, sigHist >>
  BY DEF SigPlay, Scheduled, SigItem, Running, Leave, NoTransfer
<1>2. SigTypeOK /\ Phases /\ FramesKept
  BY DEF SigInv
<1>3. name \in Names
  BY <1>1, <1>2, ItemThere, ItemFacts
<1>4. \/ /\ Plays(name) /\ procState' = "PLAY"
         /\ sig' = [Consumed EXCEPT !.inFile = name, !.pos = 0, !.ret = "PLAY"]
      \/ /\ ~Plays(name) /\ procState' = "COLLECT" /\ sig' = Consumed
  BY DEF SigPlay, Leave
<1> HIDE DEF name
<1>5. /\ sig' \in SigStates
      /\ sig'.inner = sig.inner /\ sig'.frames = sig.frames /\ sig'.available = sig.available
      /\ sig'.outFile = sig.outFile /\ sig'.buf = sig.buf /\ sig'.mods = sig.mods
  <2>1. CASE sig' = Consumed
    BY <1>2, <2>1, ConsumedFields
  <2>2. CASE sig' = [Consumed EXCEPT !.inFile = name, !.pos = 0, !.ret = "PLAY"]
    BY <1>2, <1>3, <2>2, ConsumedFields DEF SigStates
  <2> QED BY <2>1, <2>2, <1>4
<1>6. Plays(name) => sig'.inFile = name /\ sig'.pos = 0 /\ name \in DOMAIN Readable
  <2>1. ASSUME sig' = [Consumed EXCEPT !.inFile = name, !.pos = 0, !.ret = "PLAY"]
        PROVE  sig'.inFile = name /\ sig'.pos = 0
    BY <1>2, <2>1, ConsumedFields DEF SigStates
  <2> QED BY <2>1, <1>4 DEF Plays
<1>7. SigTypeOK'
  BY <1>1, <1>2, <1>4, <1>5 DEF SigTypeOK
<1>8. Plays(name) => /\ NumPieces(name) \in Nat /\ 0 = PieceEnd(name, 0) /\ Made1(name, 0) = 0
  <2> SUFFICES ASSUME name \in DOMAIN Readable
               PROVE  /\ NumPieces(name) \in Nat /\ 0 = PieceEnd(name, 0) /\ Made1(name, 0) = 0
    BY <1>6
  <2>1. NumPieces(name) \in Nat /\ Half \in Nat \ {0} /\ Readable[name] \in Nat
    BY PieceCount
  <2>2. PieceEnd(name, 0) = 0
    BY <2>1 DEF PieceEnd
  <2>3. 0 \in 0 .. NumPieces(name)
    BY <2>1
  <2>4. Made1(name, PieceEnd(name, 0)) = 0
    BY <2>3, PositionTells
  <2> QED BY <2>1, <2>2, <2>4
<1>9. Phases'
  <2>1. sig.inner = 0
    BY <1>1, <1>2 DEF Phases
  <2>2. Plays(name) => 0 \in 0 .. NumPieces(name)
    BY <1>8
  <2> QED BY <1>4, <1>5, <1>6, <1>8, <2>1, <2>2 DEF Phases
<1>10. FramesKept'
  <2>1. ~InFrame /\ ~InFrame'
    BY <1>1, <1>4 DEF InFrame
  <2> QED BY <1>1, <1>2, <1>5, <2>1 DEF FramesKept
<1>11. Pending' = Pending
  <2>1. CASE Plays(name)
    <3>1. Pending = FileGives(name)
      BY <1>1, <2>1 DEF Pending, ItemGives, name
    <3>3. Pending' = StillToPlay'
      BY <1>4, <2>1 DEF Pending
    <3>4. StillToPlay' = SubSeq(FileGives(name), 0 + 1, NumPieces(name))
      BY <1>6, <1>8, <2>1, <1>1, <1>5 DEF StillToPlay, FileGives
    <3> DEFINE all == FileGives(name)
               N == NumPieces(name)
    <3>5. all \in Seq(Things) /\ Len(all) = N /\ N \in Nat
      BY <1>2, <1>6, <2>1, FileGivesTyped
    <3> HIDE DEF all, N
    <3>6. SubSeq(all, 0 + 1, N) = all
      BY <3>5
    <3> QED BY <3>1, <3>3, <3>4, <3>6 DEF all, N
  <2>2. CASE ~Plays(name)
    BY <1>1, <1>4, <2>2 DEF Pending, ItemGives, name
  <2> QED BY <2>1, <2>2
<1> QED BY <1>1, <1>5, <1>7, <1>9, <1>10, <1>11, Quiet DEF SigInv

LEMMA FilePieceKeeps == SigInv /\ SigFilePiece => SigInv'
<1> SUFFICES ASSUME SigInv, SigFilePiece PROVE SigInv'
  OBVIOUS
<1> DEFINE name == sig.inFile
           N == NumPieces(name)
           all0 == FilePieces(name, sig.mods, 0)
           n == sig.pos \div Half + 1
           piece == [all0[n] EXCEPT !.nr = sigHist.nr - Len(all0) + n]
           all == FileGives(name)
<1>1. /\ procState = "PLAY" /\ procState' = "FEED" /\ sig.pos < Readable[name]
      /\ sig' = [sig EXCEPT !.out = << piece >>, !.pos = all0[n].of[3], !.ret = "PLAY"]
      /\ UNCHANGED << cbIn, fed, disk, sigHist >>
  BY DEF SigFilePiece, Running, Leave, NoTransfer
<1>2. SigTypeOK /\ Phases /\ FramesKept
  BY DEF SigInv
<1>3. name \in DOMAIN Readable /\ N \in Nat
  BY <1>1, <1>2, PlayingAt DEF Playing
<1>4. PICK k \in 0 .. N : /\ sig.pos = PieceEnd(name, k)
                          /\ StillToPlay = SubSeq(all, k + 1, N)
  BY <1>1, <1>2, PlayingAt DEF Playing
<1>5. k < N /\ n = k + 1 /\ n \in 1 .. N
  <2>1. PieceEnd(name, N) = Readable[name] /\ Readable[name] \in Nat
    BY <1>3, PositionTells, PieceCount
  <2>2. k # N
    BY <1>1, <1>4, <2>1
  <2>3. k < N
    BY <1>3, <2>2
  <2>4. sig.pos = Half * k /\ (Half * k) \div Half = k
    BY <1>3, <1>4, <2>3, PositionTells
  <2>5. n = k + 1
    BY <2>4
  <2> QED BY <1>3, <2>3, <2>5
<1>6. /\ Len(all0) = N /\ all0[n].of[3] = PieceEnd(name, n)
      /\ all0[n] = FilePiece(name, Half * (n - 1) + 1, PieceEnd(name, n), sig.mods, 0 + n)
  <2>1. sig.mods \in Mods /\ 0 \in Int
    BY <1>2, SigFields
  <2> HIDE DEF n
  <2>2. /\ Len(all0) = N
        /\ \A i \in 1 .. N :
             /\ all0[i] = FilePiece(name, Half * (i - 1) + 1, PieceEnd(name, i), sig.mods, 0 + i)
             /\ all0[i].of[3] = PieceEnd(name, i)
    BY <2>1, <1>3, FilePiecesFacts, ZenonT(60)
  <2> QED BY <2>2, <1>5
<1>7. /\ all \in Seq(Things) /\ Len(all) = N
      /\ all[n] = FilePiece(name, Half * (n - 1) + 1, PieceEnd(name, n), sig.mods,
                            sigHist.nr - N + n)
  BY <1>2, <1>3, <1>5, FileGivesTyped
<1>8. piece = all[n]
  BY <1>6, <1>7 DEF FilePiece, Piece
<1>9. piece \in Things
  BY <1>5, <1>7, <1>8
<1>10. n \in 0 .. N /\ PieceEnd(name, n) \in Nat /\ Made1(name, PieceEnd(name, n)) = n
  <2>1. n \in 0 .. N
    BY <1>5
  <2> QED BY <2>1, <1>3, PositionTells
<1> DEFINE to == PieceEnd(name, n)
<1>11. sig' = [sig EXCEPT !.out = << piece >>, !.pos = to, !.ret = "PLAY"]
  BY <1>1, <1>6
<1> HIDE DEF piece, to, n, all, N
<1>12. /\ sig' \in SigStates /\ sig'.out = << piece >> /\ sig'.ret = "PLAY" /\ sig'.pos = to
       /\ sig'.inFile = name /\ sig'.mods = sig.mods
       /\ sig'.inner = sig.inner /\ sig'.frames = sig.frames /\ sig'.available = sig.available
       /\ sig'.outFile = sig.outFile /\ sig'.buf = sig.buf
  <2>1. << piece >> \in Seq(Things) /\ to \in Nat
    BY <1>9, <1>10 DEF to
  <2> QED BY <2>1, <1>2, <1>11 DEF SigTypeOK, SigStates
<1>13. SigTypeOK'
  BY <1>1, <1>2, <1>12 DEF SigTypeOK
<1>14. Phases'
  <2>1. << piece >> # << >> /\ sig.inner = 0
    BY <1>1, <1>2 DEF Phases
  <2> QED BY <1>1, <1>3, <1>10, <1>12, <2>1 DEF Phases, to, N
<1>15. FramesKept'
  <2>1. ~InFrame /\ ~InFrame'
    BY <1>1 DEF InFrame
  <2> QED BY <1>1, <1>2, <1>12, <2>1 DEF FramesKept
<1>16. Pending' = Pending
  <2>1. Pending = SubSeq(all, k + 1, N)
    BY <1>1, <1>4 DEF Pending, N
  <2>2. StillToPlay' = SubSeq(all, n + 1, N)
    BY <1>1, <1>10, <1>12 DEF StillToPlay, FileGives, to, all, N
  <2>3. Pending' = << piece >> \o SubSeq(all, n + 1, N)
    BY <1>1, <1>12, <2>2 DEF Pending, Behind
  <2>4. SubSeq(all, k + 1, N) = << all[k + 1] >> \o SubSeq(all, k + 2, N)
    BY <1>3, <1>5, <1>7, FirstOfRest DEF N
  <2>5. n + 1 = k + 2 /\ n = k + 1
    BY <1>5
  <2> QED BY <1>8, <2>1, <2>3, <2>4, <2>5
<1> QED BY <1>1, <1>12, <1>13, <1>14, <1>15, <1>16, Quiet DEF SigInv

LEMMA FileEndKeeps == SigInv /\ SigFileEnd => SigInv'
<1> SUFFICES ASSUME SigInv, SigFileEnd PROVE SigInv'
  OBVIOUS
<1>1. /\ procState = "PLAY" /\ procState' = "COLLECT" /\ sig.pos = Readable[sig.inFile]
      /\ sig' = [sig EXCEPT !.inFile = NoFile, !.ret = "COLLECT"]
      /\ UNCHANGED << cbIn, fed, disk, sigHist >>
  BY DEF SigFileEnd, Running, Leave, NoTransfer
<1>2. SigTypeOK /\ Phases /\ FramesKept
  BY DEF SigInv
<1>3. NoFile \in Names
  BY DEF Names
<1>4. /\ sig' \in SigStates
      /\ sig'.inner = sig.inner /\ sig'.frames = sig.frames /\ sig'.available = sig.available
      /\ sig'.outFile = sig.outFile /\ sig'.buf = sig.buf
  BY <1>1, <1>2, <1>3 DEF SigTypeOK, SigStates
<1>5. SigTypeOK'
  BY <1>1, <1>2, <1>4 DEF SigTypeOK
<1>6. Phases'
  BY <1>1, <1>2, <1>4 DEF Phases
<1>7. FramesKept'
  <2>1. ~InFrame /\ ~InFrame'
    BY <1>1 DEF InFrame
  <2> QED BY <1>1, <1>2, <1>4, <2>1 DEF FramesKept
<1>8. Pending' = Pending
  <2> DEFINE N == NumPieces(sig.inFile)
  <2>1. sig.inFile \in DOMAIN Readable /\ N \in Nat
    BY <1>1, <1>2, PlayingAt DEF Playing
  <2>2. Made1(sig.inFile, sig.pos) = N
    <3>1. Readable[sig.inFile] \in Nat
      BY <2>1, PieceCount
    <3> QED BY <3>1, <1>1 DEF Made1
  <2>3. Pending = SubSeq(FileGives(sig.inFile), N + 1, N)
    BY <1>1, <2>2 DEF Pending, StillToPlay
  <2> HIDE DEF N
  <2>4. Pending = << >>
    BY <2>1, <2>3, SubSeqEmpty
  <2>5. Pending' = << >>
    BY <1>1 DEF Pending
  <2> QED BY <2>4, <2>5
<1> QED BY <1>1, <1>4, <1>5, <1>6, <1>7, <1>8, Quiet DEF SigInv

(* Between the steps of the unit: nothing it owes changes.                  *)
LEMMA OutsideKeeps ==
  ASSUME SigInv, UNCHANGED << procState, sig, disk, sigHist >>,
         fed' \in Nat, cbIn' \in Seq(Arrived)
  PROVE  SigInv'
<1>1. SigTypeOK'
  BY DEF SigInv, SigTypeOK
<1>2. Pending' = Pending
  BY DEF Pending, ItemGives, FrameGives, FileGives, StillToPlay, Behind, SigItem, Plays
<1>3. Phases' /\ FramesKept'
  BY DEF SigInv, Phases, FramesKept, InFrame, SigItem
<1> QED BY <1>1, <1>2, <1>3, Quiet DEF SigInv

LEMMA ArriveTyped ==
  ASSUME SigTypeOK, Arrive(SigInputs)
  PROVE  fed' \in Nat /\ cbIn' \in Seq(Arrived)
<1>1. PICK in \in SigInputs : cbIn' = Append(cbIn, Numbered(in, fed + 1))
  BY DEF Arrive
<1>2. fed \in Nat /\ fed + 1 \in Nat /\ cbIn \in Seq(Arrived) /\ fed' = fed + 1
  BY DEF SigTypeOK, Arrive
<1>3. Numbered(in, fed + 1) \in Arrived
  BY <1>2 DEF Arrived
<1> QED BY <1>1, <1>2, <1>3

-----------------------------------------------------------------------------
(* An item that is taken: what it gives is due behind what was due before,  *)
(* with higher numbers.                                                     *)
Later(s) ==
  /\ sigHist'.nr >= sigHist.nr
  /\ \A i \in DOMAIN s : s[i].kind = "FRAME" =>
       /\ sigHist.nr <= s[i].nr /\ s[i].nr <= sigHist'.nr
       /\ \A j \in DOMAIN s : i < j /\ s[j].kind = "FRAME" => s[i].nr < s[j].nr

LEMMA FrameTaken ==
  ASSUME SigTypeOK, FramesKept, ~InFrame, NEW id \in Nat
  PROVE  LET v == sigHist.virtual
             first == IF Len(v) < 3 THEN 3 - Len(v) ELSE 1
             w == v \o [n \in 1 .. first |-> id]
             n == Len(w)
             a == sig.available
             f == sig.frames
         IN  /\ w \in Seq(Nat) /\ n >= 3
             /\ a < 3 => /\ n = 3
                         /\ \A i \in 1 .. a : f[3 - a + i] = w[i]
                         /\ \A i \in a + 1 .. 3 : w[i] = id
             /\ a = 3 => /\ n >= 4 /\ w[n] = id
                         /\ \A i \in 1 .. 3 : f[i] = w[n - 4 + i]
<1> DEFINE v == sigHist.virtual
           m == Len(v)
           first == IF Len(v) < 3 THEN 3 - Len(v) ELSE 1
           t == [n \in 1 .. first |-> id]
           w == v \o t
           n == Len(w)
           a == sig.available
           f == sig.frames
<1>1. v \in Seq(Nat) /\ m \in Nat /\ a \in 0 .. 3
  <2>1. v \in Seq(Nat) /\ a \in 0 .. 3
    BY SigFields
  <2> QED BY <2>1
<1>2. m >= a /\ (a < 3 => m = a) /\ \A i \in 1 .. a : f[3 - a + i] = v[m - a + i]
  BY DEF FramesKept
<1>3. first \in Nat /\ first = IF m < 3 THEN 3 - m ELSE 1
  <2>1. first = IF m < 3 THEN 3 - m ELSE 1
    OBVIOUS
  <2> HIDE DEF first, m
  <2>2. first \in Nat
    BY <2>1, <1>1
  <2> QED BY <2>1, <2>2
<1> HIDE DEF first
<1>4. t \in Seq(Nat) /\ Len(t) = first /\ \A i \in 1 .. first : t[i] = id
  BY <1>3
<1> HIDE DEF t, v, a, f
<1>5. /\ w \in Seq(Nat) /\ n = m + first
      /\ \A i \in 1 .. m : w[i] = v[i]
      /\ \A i \in 1 .. first : w[m + i] = id
  <2>1. /\ w \in Seq(Nat) /\ n = Len(v) + Len(t)
        /\ \A i \in 1 .. Len(v) + Len(t) : w[i] = IF i <= Len(v) THEN v[i] ELSE t[i - Len(v)]
    BY <1>1, <1>4, ConcatProperties
  <2> HIDE DEF w, n
  <2> DEFINE l == Len(v)
  <2>2. /\ l \in Nat /\ \A i \in 1 .. l + first : w[i] = IF i <= l THEN v[i] ELSE t[i - l]
    BY <2>1, <1>1, <1>4
  <2> HIDE DEF l
  <2>3. \A i \in 1 .. l : w[i] = v[i]
    BY <2>2, <1>3
  <2>4. ASSUME NEW i \in 1 .. first PROVE w[l + i] = id
    <3>1. l + i \in 1 .. l + first /\ ~(l + i <= l) /\ (l + i) - l = i
      BY <2>2, <1>3
    <3>2. w[l + i] = t[i]
      BY <2>2, <3>1
    <3> QED BY <3>2, <1>4
  <2> QED BY <2>1, <2>3, <2>4, <1>4 DEF l
<1> HIDE DEF w, n, m
<1>6. n >= 3
  BY <1>1, <1>3, <1>5
<1>7. ASSUME a < 3
      PROVE  /\ n = 3
             /\ \A i \in 1 .. a : f[3 - a + i] = w[i]
             /\ \A i \in a + 1 .. 3 : w[i] = id
  <2>1. m = a /\ first = 3 - a /\ n = 3
    BY <1>1, <1>2, <1>3, <1>5, <1>7
  <2>2. \A i \in 1 .. a : m - a + i = i
    BY <2>1, <1>1
  <2>3. \A i \in 1 .. a : f[3 - a + i] = w[i]
    BY <2>1, <2>2, <1>2, <1>5
  <2>4. ASSUME NEW i \in a + 1 .. 3 PROVE w[i] = id
    <3>1. i - a \in 1 .. first /\ m + (i - a) = i
      BY <2>1, <1>1
    <3> QED BY <3>1, <1>5
  <2> QED BY <2>1, <2>3, <2>4
<1>8. ASSUME a = 3
      PROVE  n >= 4 /\ w[n] = id /\ \A i \in 1 .. 3 : f[i] = w[n - 4 + i]
  <2>1. m >= 3 /\ first = 1 /\ n = m + 1
    BY <1>1, <1>2, <1>3, <1>5, <1>8
  <2>2. w[n] = id
    BY <2>1, <1>5
  <2>3. ASSUME NEW i \in 1 .. 3 PROVE f[i] = w[n - 4 + i]
    <3>1. n - 4 + i \in 1 .. m /\ n - 4 + i = m - a + i /\ 3 - a + i = i
      BY <2>1, <1>1, <1>8
    <3> QED BY <3>1, <1>2, <1>5, <1>8
  <2>4. n >= 4
    BY <2>1, <1>1
  <2> QED BY <2>2, <2>3, <2>4
<1> QED BY <1>5, <1>6, <1>7, <1>8 DEF w, n, t, first, v, a, f, m

LEMMA CollectKeeps == SigInv /\ SigCollect => SigInv'
<1> SUFFICES ASSUME SigInv, SigCollect PROVE SigInv'
  OBVIOUS
<1> DEFINE h == sigHist
<1>0. cbIn # << >> /\ cbIn \in Seq(Arrived)
  BY DEF SigInv, SigTypeOK, SigCollect, Take
<1>0a. Head(cbIn) \in Arrived /\ Tail(cbIn) \in Seq(Arrived)
  BY <1>0, HeadAndTail
<1>0b. PICK it \in Arrived : it = Head(cbIn)
  BY <1>0a
<1>1. /\ procState = "COLLECT" /\ procState' = "SCHEDULE" /\ cbIn # << >> /\ cbIn' = Tail(cbIn)
      /\ sig' = [sig EXCEPT !.item = << it >>] /\ sigHist' = SigDue(it, sigHist, sig)
      /\ UNCHANGED << fed, disk >>
  BY <1>0b DEF SigCollect, Running, Take, Leave
<1>2. SigTypeOK /\ Phases /\ FramesKept /\ Owed /\ FileSound /\ FilesComplete
  BY DEF SigInv
<1>3. it \in Arrived /\ cbIn' \in Seq(Arrived)
  BY <1>0a, <1>1
<1>4. it.kind # "FRAME" /\ it.id \in Nat /\ it \in Things /\ << it >> \in Seq(Things)
  BY <1>3, ItemFacts DEF Things
<1>5. /\ h.due \in Seq(Things) /\ h.put \in Seq(Things) /\ h.virtual \in Seq(Nat) /\ h.nr \in Nat
      /\ sig.mods \in Mods
  BY <1>2, SigFields
<1>6. /\ sig' \in SigStates /\ sig'.item = << it >>
      /\ sig'.inner = sig.inner /\ sig'.frames = sig.frames /\ sig'.available = sig.available
      /\ sig'.outFile = sig.outFile /\ sig'.buf = sig.buf /\ sig'.mods = sig.mods
      /\ sig'.ret = sig.ret
  <2>1. << it >> \in Seq(Arrived)
    BY <1>3
  <2> QED BY <1>1, <1>2, <2>1 DEF SigTypeOK, SigStates
<1>7. SigItem' = it /\ sig.inner = 0 /\ ~InFrame /\ Pending = << >>
  BY <1>1, <1>2, <1>6 DEF SigItem, Phases, InFrame, Pending
<1>8. Phases'
  BY <1>1, <1>6, <1>7 DEF Phases
<1>9. h.due = h.put
  BY <1>2, <1>5, <1>7 DEF Owed
<1>10. /\ sigHist' \in Hists /\ sigHist'.put = h.put
       /\ sigHist'.due = h.due \o ItemGives' /\ ItemGives' \in Seq(Things) /\ Later(ItemGives')
       /\ FramesKept'
  <2>0. h \in Hists
    BY <1>2 DEF SigTypeOK
  <2>a. ASSUME ~(DealWith(it) /\ it.kind = "FRAME_PAR"), sigHist'.virtual = h.virtual
        PROVE  FramesKept'
    <3>1. ~InFrame'
      BY <1>1, <1>7, <2>a DEF InFrame, DealWith
    <3> QED BY <1>2, <1>6, <1>7, <2>a, <3>1 DEF FramesKept
  <2>1. CASE ~DealWith(it)
    <3>1. sigHist' = [h EXCEPT !.due = Append(h.due, it)]
      BY <1>1, <2>1 DEF SigDue, DealWith
    <3>2. Append(h.due, it) \in Seq(Things) /\ Append(h.due, it) = h.due \o << it >>
      BY <1>4, <1>5
    <3>3. /\ sigHist' \in Hists /\ sigHist'.put = h.put /\ sigHist'.virtual = h.virtual
          /\ sigHist'.nr = h.nr /\ sigHist'.due = h.due \o << it >>
      BY <3>1, <3>2, <2>0 DEF Hists
    <3>4. ItemGives' = << it >>
      BY <1>7, <2>1 DEF ItemGives, DealWith
    <3>5. Later(<< it >>)
      BY <1>4, <1>5, <3>3 DEF Later
    <3> QED BY <1>4, <2>1, <2>a, <3>3, <3>4, <3>5
  <2>2. CASE DealWith(it) /\ it.kind = "FRAME_PAR"
    <3> DEFINE first == IF Len(h.virtual) < 3 THEN 3 - Len(h.virtual) ELSE 1
               w == h.virtual \o [n \in 1 .. first |-> it.id]
               of == w[Len(w) - 2]
               two == TwoPieces(of, sig.mods, h.nr)
    <3>1. sigHist' = [h EXCEPT !.due = @ \o two, !.virtual = w, !.nr = @ + 2]
      BY <1>1, <2>2 DEF SigDue, DealWith
    <3>2. w \in Seq(Nat) /\ Len(w) >= 3
      BY <1>2, <1>4, <1>7, FrameTaken
    <3>3. of \in Nat
      <4> HIDE DEF w
      <4>1. Len(w) \in Nat /\ Len(w) - 2 \in 1 .. Len(w)
        BY <3>2
      <4> QED BY <3>2, <4>1
    <3> HIDE DEF of
    <3>4. /\ two \in Seq(Things) /\ Len(two) = 2
          /\ two[1].nr = h.nr + 1 /\ two[2].nr = h.nr + 2
      <4>1. h.nr \in Int
        BY <1>5
      <4> QED BY <4>1, <1>5, <3>3, TwoPiecesFacts
    <3>5. h.due \o two \in Seq(Things)
      BY <1>5, <3>4
    <3>6. /\ sigHist' \in Hists /\ sigHist'.put = h.put /\ sigHist'.virtual = w
          /\ sigHist'.nr = h.nr + 2 /\ sigHist'.due = h.due \o two
      <4> HIDE DEF w, two
      <4>1. h.nr + 2 \in Nat
        BY <1>5
      <4> QED BY <3>1, <3>2, <3>5, <4>1, <2>0 DEF Hists
    <3>7. ItemGives' = two
      <4>1. ItemGives' = FrameGives'
        BY <1>7, <2>2 DEF ItemGives, DealWith
      <4>2. sigHist'.nr - 2 = h.nr
        BY <3>6, <1>5
      <4> QED BY <4>1, <4>2, <3>6, <1>6 DEF FrameGives, of
    <3> HIDE DEF two
    <3>8. Later(two)
      <4>1. DOMAIN two = 1 .. 2
        BY <3>4
      <4>2. \A i \in DOMAIN two : (i = 1 \/ i = 2)
        BY <4>1
      <4> QED BY <3>4, <3>6, <4>2, <1>5, SMTT(60) DEF Later
    <3>9. FramesKept'
      <4>1. InFrame' /\ sig'.inner = 0
        BY <1>1, <1>6, <1>7, <2>2 DEF InFrame
      <4>2. LET n == Len(w)
                a == sig.available
                f == sig.frames
            IN  /\ a < 3 => /\ n = 3
                            /\ \A i \in 1 .. a : f[3 - a + i] = w[i]
                            /\ \A i \in a + 1 .. 3 : w[i] = it.id
                /\ a = 3 => /\ n >= 4 /\ w[n] = it.id
                            /\ \A i \in 1 .. 3 : f[i] = w[n - 4 + i]
        BY <1>2, <1>4, <1>7, FrameTaken
      <4> HIDE DEF w
      <4> QED BY <4>1, <4>2, <1>6, <1>7, <3>6 DEF FramesKept
    <3> QED BY <3>4, <3>6, <3>7, <3>8, <3>9
  <2>3. CASE DealWith(it) /\ it.kind = "PLAY" /\ Plays(it.name)
    <3> DEFINE N == NumPieces(it.name)
               pieces == FilePieces(it.name, sig.mods, h.nr)
    <3>1. sigHist' = [h EXCEPT !.due = @ \o pieces, !.nr = @ + Len(pieces)]
      BY <1>1, <2>3 DEF SigDue
    <3>2. it.name \in DOMAIN Readable /\ N \in Nat
      BY <2>3, PieceCount DEF Plays
    <3>3. /\ pieces \in Seq(Things) /\ Len(pieces) = N
          /\ \A i \in 1 .. N : pieces[i].nr = h.nr + i
      <4>1. h.nr \in Int
        BY <1>5
      <4> QED BY <4>1, <1>5, <3>2, FilePiecesFacts, ZenonT(60)
    <3>4. h.due \o pieces \in Seq(Things) /\ h.nr + N \in Nat
      BY <1>5, <3>2, <3>3
    <3>5. /\ sigHist' \in Hists /\ sigHist'.put = h.put /\ sigHist'.virtual = h.virtual
          /\ sigHist'.nr = h.nr + N /\ sigHist'.due = h.due \o pieces
      <4> HIDE DEF pieces, N
      <4> QED BY <3>1, <3>3, <3>4, <2>0 DEF Hists
    <3>6. ItemGives' = pieces
      <4>1. Plays(it.name)' = Plays(it.name)
        BY <1>6 DEF Plays
      <4>2. ItemGives' = FileGives(it.name)'
        BY <1>7, <2>3, <4>1, <1>6 DEF ItemGives, DealWith, Plays
      <4>3. sigHist'.nr - N = h.nr
        BY <3>2, <3>5, <1>5
      <4> QED BY <4>2, <4>3, <1>6 DEF FileGives
    <3> HIDE DEF pieces, N
    <3>7. Later(pieces)
      <4>1. DOMAIN pieces = 1 .. N
        BY <3>3
      <4> QED BY <4>1, <3>2, <3>3, <3>5, <1>5 DEF Later
    <3>8. FramesKept'
      BY <2>3, <2>a, <3>5
    <3> QED BY <3>3, <3>5, <3>6, <3>7, <3>8
  <2>4. CASE DealWith(it) /\ it.kind # "FRAME_PAR" /\ ~(it.kind = "PLAY" /\ Plays(it.name))
    <3>1. sigHist' = h
      BY <1>1, <2>4 DEF SigDue
    <3>2. ItemGives' = << >>
      BY <1>6, <1>7, <2>4 DEF ItemGives, DealWith, Plays
    <3>3. Later(<< >>) /\ << >> \in Seq(Things) /\ h.due \o << >> = h.due
      BY <3>1, <1>5 DEF Later
    <3>4. FramesKept'
      BY <2>4, <2>a, <3>1
    <3> QED BY <3>1, <3>2, <3>3, <3>4, <2>0
  <2> QED BY <2>1, <2>2, <2>3, <2>4
<1>11. Pending' = ItemGives'
  BY <1>1 DEF Pending
<1>12. SigTypeOK'
  BY <1>1, <1>2, <1>3, <1>6, <1>10 DEF SigTypeOK
<1>13. Owed' /\ Rising(Pending)'
  BY <1>9, <1>10, <1>11 DEF Owed, Rising, Later
<1>14. FileSound'
  <2> SUFFICES ASSUME sig.outFile # NoFile PROVE FileSound'
    BY <1>6 DEF FileSound
  <2>1. Written' = Written
    BY <1>1, <1>6 DEF Written
  <2>2. /\ sig.outFile \in DOMAIN disk /\ disk[sig.outFile].open /\ Sorted(Written)
        /\ \A i \in DOMAIN Written : Written[i][1] <= h.nr
        /\ ToSet(Written) = ToSet(disk[sig.outFile].heard)
    BY <1>1, <1>2 DEF FileSound
  <2>3. \A i \in DOMAIN Written : Written[i][1] \in Int
    <3>1. Written \in Seq(Sampled)
      BY <1>2, <2>2, WrittenTyped
    <3> QED BY <3>1 DEF Sampled
  <2>4. \A j \in DOMAIN Pending' : Pending'[j].kind = "FRAME" => Pending'[j].nr \in Int
    <3>1. Pending' \in Seq(Things)
      BY <1>10, <1>11
    <3> QED BY <3>1, ThingFacts
  <2>5. sigHist'.nr \in Nat /\ sigHist'.nr >= h.nr
    BY <1>10 DEF Hists, Later
  <2>6. \A i \in DOMAIN Written : Written[i][1] <= sigHist'.nr
    BY <2>2, <2>3, <2>5, <1>5
  <2>7. BeforeAll(Written, Pending')
    <3>1. \A j \in DOMAIN Pending' : Pending'[j].kind = "FRAME" => h.nr <= Pending'[j].nr
      BY <1>10, <1>11 DEF Later
    <3> QED BY <3>1, <2>2, <2>3, <2>4, <1>5 DEF BeforeAll
  <2> QED BY <2>1, <2>2, <2>6, <2>7, <1>1, <1>6 DEF FileSound, Sorted, BeforeAll
<1>15. FilesComplete'
  BY <1>1, <1>2 DEF FilesComplete
<1> QED BY <1>8, <1>10, <1>12, <1>13, <1>14, <1>15 DEF SigInv

-----------------------------------------------------------------------------
(* Files that are opened and closed.                                        *)
LEMMA SaveKeeps == SigInv /\ SigSave => SigInv'
<1> SUFFICES ASSUME SigInv, SigSave PROVE SigInv'
  OBVIOUS
<1> DEFINE opens == sig.outFile = NoFile /\ IsWav(SigItem.name) /\ SigItem.name \in Writable
<1>1. /\ procState = "SCHEDULE" /\ procState' = "COLLECT"
      /\ SigItem.kind = "SAVE" /\ DealWith(SigItem)
      /\ UNCHANGED << cbIn, fed, sigHist >>
  BY DEF SigSave, Scheduled, SigItem, Running, Leave, NoTransfer
<1>2. SigTypeOK /\ Phases /\ FramesKept /\ FilesComplete
  BY DEF SigInv
<1>3. SigItem.name \in Names
  BY <1>1, <1>2, ItemThere, ItemFacts
<1>4. PICK name \in Names : name = SigItem.name
  BY <1>3
<1>5. \/ /\ opens /\ sig' = [Consumed EXCEPT !.outFile = name, !.buf = << >>]
         /\ disk' = [n \in DOMAIN disk \cup {name} |-> IF n = name THEN NewOut ELSE disk[n]]
      \/ ~opens /\ sig' = Consumed /\ disk' = disk
  BY <1>4 DEF SigSave
<1>6. << >> \in Seq(Sampled)
  OBVIOUS
<1>7. /\ sig' \in SigStates
      /\ sig'.inner = sig.inner /\ sig'.frames = sig.frames /\ sig'.available = sig.available
      /\ ~opens => sig'.outFile = sig.outFile /\ sig'.buf = sig.buf
      /\ opens => sig'.outFile = name /\ sig'.buf = << >>
  BY <1>2, <1>5, <1>6, ConsumedFields DEF SigStates
<1>8. NewOut \in Files
  BY <1>6 DEF NewOut, Files, DummyLen
<1>9. disk' \in [DOMAIN disk' -> Files]
  <2>1. disk \in [DOMAIN disk -> Files]
    BY <1>2 DEF SigTypeOK
  <2> QED BY <2>1, <1>5, <1>8
<1>10. SigTypeOK'
  BY <1>1, <1>2, <1>7, <1>9 DEF SigTypeOK
<1>11. Phases'
  BY <1>1, <1>2, <1>7 DEF Phases
<1>12. FramesKept'
  <2>1. ~InFrame /\ ~InFrame'
    BY <1>1 DEF InFrame
  <2> QED BY <1>1, <1>2, <1>7, <2>1 DEF FramesKept
<1>13. Pending' = << >> /\ Pending = << >>
  BY <1>1 DEF Pending, ItemGives
<1>14. CASE ~opens
  BY <1>1, <1>5, <1>7, <1>10, <1>11, <1>12, <1>13, <1>14, Quiet DEF SigInv
<1>15. CASE opens
  <2>1. /\ name \in DOMAIN disk' /\ disk'[name] = NewOut
        /\ DOMAIN disk' = DOMAIN disk \cup {name}
        /\ \A n \in DOMAIN disk' : n # name => disk'[n] = disk[n]
    BY <1>5, <1>15
  <2>2. NewOut.samples = << >> /\ NewOut.heard = << >> /\ NewOut.open
    BY DEF NewOut
  <2>3. Written' = << >>
    BY <1>7, <1>15, <2>1, <2>2 DEF Written
  <2>4. FileSound'
    BY <1>7, <1>13, <1>15, <2>1, <2>2, <2>3 DEF FileSound, Sorted, BeforeAll
  <2>5. FilesComplete'
    BY <1>2, <2>1, <2>2 DEF FilesComplete
  <2>6. Owed' /\ Rising(Pending)'
    BY <1>1, <1>13 DEF SigInv, Owed, Rising
  <2> QED BY <1>10, <1>11, <1>12, <2>4, <2>5, <2>6 DEF SigInv
<1> QED BY <1>14, <1>15

LEMMA UnsaveKeeps == SigInv /\ SigUnsave => SigInv'
<1> SUFFICES ASSUME SigInv, SigUnsave PROVE SigInv'
  OBVIOUS
<1> DEFINE name == sig.outFile
           file == disk[name]
<1>1. /\ procState = "SCHEDULE" /\ procState' = "COLLECT"
      /\ SigItem.kind = "UNSAVE" /\ DealWith(SigItem)
      /\ UNCHANGED << cbIn, fed, sigHist >>
  BY DEF SigUnsave, Scheduled, SigItem, Running, Leave, NoTransfer
<1>2. SigTypeOK /\ Phases /\ FramesKept /\ FilesComplete /\ FileSound
  BY DEF SigInv
<1>3. \/ name = NoFile /\ sig' = Consumed /\ disk' = disk
      \/ /\ name # NoFile /\ sig' = [Consumed EXCEPT !.outFile = NoFile, !.buf = << >>]
         /\ disk' = Closed(name, sig.buf) \/ disk' = Broken(name)
  BY DEF SigUnsave
<1>4. << >> \in Seq(Sampled) /\ NoFile \in Names
  BY DEF Names
<1>5. /\ sig' \in SigStates
      /\ sig'.inner = sig.inner /\ sig'.frames = sig.frames /\ sig'.available = sig.available
      /\ name = NoFile => sig'.outFile = sig.outFile /\ sig'.buf = sig.buf
      /\ sig'.outFile = NoFile
  BY <1>2, <1>3, <1>4, ConsumedFields DEF SigStates
<1>6. Phases'
  BY <1>1, <1>2, <1>5 DEF Phases
<1>7. FramesKept'
  <2>1. ~InFrame /\ ~InFrame'
    BY <1>1 DEF InFrame
  <2> QED BY <1>1, <1>2, <1>5, <2>1 DEF FramesKept
<1>8. Pending' = << >> /\ Pending = << >>
  BY <1>1 DEF Pending, ItemGives
<1>9. CASE name = NoFile
  <2>1. disk' = disk
    BY <1>3, <1>9
  <2>2. SigTypeOK'
    BY <2>1, <1>1, <1>2, <1>5 DEF SigTypeOK
  <2> QED BY <2>1, <2>2, <1>1, <1>5, <1>6, <1>7, <1>8, <1>9, Quiet DEF SigInv
<1>10. CASE name # NoFile
  <2>1. /\ name \in DOMAIN disk /\ file.open /\ Sorted(Written)
        /\ ToSet(Written) = ToSet(file.heard)
    BY <1>1, <1>2, <1>10 DEF FileSound
  <2>2. /\ file \in Files /\ Written \in Seq(Sampled) /\ Written = file.samples \o sig.buf
    BY <1>2, <2>1, WrittenTyped
  <2>2a. Len(Written) \in Nat
    BY <2>2, LenProperties
  <2>3. disk \in [DOMAIN disk -> Files]
    BY <1>2 DEF SigTypeOK
  <2>4. CASE disk' = Closed(name, sig.buf)
    <3> DEFINE new == [file EXCEPT !.samples = file.samples \o sig.buf,
                                   !.head = Len(file.samples \o sig.buf), !.open = FALSE]
    <3>1. disk' = [disk EXCEPT ![name] = new]
      <4>1. DOMAIN disk' = DOMAIN disk /\ \A n \in DOMAIN disk : n # name => disk'[n] = disk[n]
        BY <2>4 DEF Closed
      <4>2. disk'[name] = new
        BY <2>1, <2>2, <2>4 DEF Closed, Files
      <4>3. disk' = [n \in DOMAIN disk |-> disk'[n]]
        BY <2>4 DEF Closed
      <4> HIDE DEF new
      <4> QED BY <4>1, <4>2, <4>3, <2>1
    <3>2. /\ new \in Files /\ new.samples = Written /\ new.head = Len(Written)
          /\ new.heard = file.heard
      <4>1. new = [file EXCEPT !.samples = Written, !.head = Len(Written), !.open = FALSE]
        BY <2>2
      <4> HIDE DEF new
      <4> DEFINE W == Written
      <4>2. /\ new = [file EXCEPT !.samples = W, !.head = Len(W), !.open = FALSE]
            /\ W \in Seq(Sampled) /\ Len(W) \in Int
        BY <4>1, <2>2, <2>2a
      <4> HIDE DEF W, file
      <4>3. /\ new \in Files /\ new.samples = W /\ new.head = Len(W) /\ new.heard = file.heard
        BY <4>2, <2>2 DEF Files
      <4> QED BY <4>3 DEF W
    <3> HIDE DEF new
    <3>3. /\ DOMAIN disk' = DOMAIN disk /\ disk'[name] = new
          /\ \A n \in DOMAIN disk : n # name => disk'[n] = disk[n]
          /\ disk' \in [DOMAIN disk -> Files]
      BY <2>1, <2>3, <3>1, <3>2
    <3>4. SigTypeOK'
      BY <1>1, <1>2, <1>5, <3>3 DEF SigTypeOK
    <3>5. FilesComplete'
      <4> SUFFICES ASSUME NEW n \in DOMAIN disk, ~disk'[n].open, ~disk'[n].broken
                   PROVE  /\ disk'[n].head = Len(disk'[n].samples)
                          /\ ToSet(disk'[n].samples) = ToSet(disk'[n].heard)
                          /\ \A i, j \in DOMAIN disk'[n].samples :
                               i < j => disk'[n].samples[i][1] <= disk'[n].samples[j][1]
        BY <3>3 DEF FilesComplete
      <4>1. CASE n = name
        BY <4>1, <3>2, <3>3, <2>1 DEF Sorted
      <4>2. CASE n # name
        BY <4>2, <3>3, <1>2 DEF FilesComplete
      <4> QED BY <4>1, <4>2
    <3>6. FileSound' /\ Owed' /\ Rising(Pending)'
      BY <1>1, <1>5, <1>8 DEF SigInv, FileSound, Owed, Rising
    <3> QED BY <1>6, <1>7, <3>4, <3>5, <3>6 DEF SigInv
  <2>5. CASE disk' = Broken(name)
    <3>3. /\ DOMAIN disk' = DOMAIN disk /\ disk'[name].broken
          /\ \A n \in DOMAIN disk : n # name => disk'[n] = disk[n]
          /\ disk' \in [DOMAIN disk -> Files]
      BY <2>1, <2>2, <2>3, <2>5 DEF Broken, Files
    <3>4. SigTypeOK'
      BY <1>1, <1>2, <1>5, <3>3 DEF SigTypeOK
    <3>5. FilesComplete'
      BY <1>2, <3>3 DEF FilesComplete
    <3>6. FileSound' /\ Owed' /\ Rising(Pending)'
      BY <1>1, <1>5, <1>8 DEF SigInv, FileSound, Owed, Rising
    <3> QED BY <1>6, <1>7, <3>4, <3>5, <3>6 DEF SigInv
  <2> QED BY <2>4, <2>5, <1>3, <1>10
<1> QED BY <1>9, <1>10

-----------------------------------------------------------------------------
(* What stays of the pending is as good as all of it.                       *)
LEMMA RestRises ==
  ASSUME NEW s \in Seq(Things), NEW t \in Seq(Things), NEW w, Rising(s \o t)
  PROVE  Rising(t) /\ (BeforeAll(w, s \o t) => BeforeAll(w, t))
<1> DEFINE st == s \o t
           k == Len(s)
<1>1. /\ k \in Nat
      /\ \A i \in DOMAIN t : i \in Nat /\ k + i \in DOMAIN st /\ st[k + i] = t[i]
  BY ConcatAt
<1>2. Rising(st)
  OBVIOUS
<1> HIDE DEF st, k
<1>3. ASSUME NEW i \in DOMAIN t, t[i].kind = "FRAME"
      PROVE  /\ t[i].nr <= sigHist.nr
             /\ \A j \in DOMAIN t : i < j /\ t[j].kind = "FRAME" => t[i].nr < t[j].nr
  <2>1. k + i \in DOMAIN st /\ st[k + i] = t[i]
    BY <1>1
  <2>2. ASSUME NEW j \in DOMAIN t, i < j, t[j].kind = "FRAME" PROVE t[i].nr < t[j].nr
    <3>1. k + j \in DOMAIN st /\ st[k + j] = t[j] /\ k + i < k + j
      BY <1>1, <2>2
    <3> QED BY <2>1, <3>1, <1>2, <1>3, <2>2 DEF Rising
  <2> QED BY <2>1, <2>2, <1>2, <1>3 DEF Rising
<1>4. ASSUME BeforeAll(w, st) PROVE BeforeAll(w, t)
  BY <1>1, <1>4 DEF BeforeAll
<1> QED BY <1>3, <1>4 DEF Rising, st

LEMMA SavedIs ==
  ASSUME NEW fs \in Seq(Sampled), NEW bu \in Seq(Sampled), NEW t \in Seq(Sampled)
  PROVE  (fs \o Flushed(bu \o t)) \o Kept(bu \o t) = (fs \o bu) \o t
<1> DEFINE all == bu \o t
           fa == Flushed(all)
           ka == Kept(all)
<1>1. all \in Seq(Sampled)
  BY ConcatAt
<1>2. fa \in Seq(Sampled) /\ ka \in Seq(Sampled)
  <2> HIDE DEF all
  <2> QED BY <1>1, FlushedAndKept
<1> HIDE DEF fa, ka
<1>3. (fs \o fa) \o ka = fs \o (fa \o ka)
  BY <1>2, ConcatAssociative, SMTT(60)
<1>4. (fs \o bu) \o t = fs \o (bu \o t)
  BY ConcatAssociative
<1>5. fa \o ka = bu \o t
  BY <1>1, FlushedAndKept DEF fa, ka
<1> QED BY <1>3, <1>4, <1>5 DEF fa, ka

(* What is in outBuf, put into the file that is written.                    *)
LEMMA SavedSound ==
  ASSUME SigInv, procState = "FEED", Saving
  PROVE  LET file == disk[sig.outFile]
             x == sig.out[1]
             W == (file.samples \o Flushed(All)) \o Kept(All)
         IN  /\ sig.outFile \in DOMAIN disk /\ file.open /\ file \in Files
             /\ file.samples \o Flushed(All) \in Seq(Sampled) /\ Kept(All) \in Seq(Sampled)
             /\ file.heard \o Samples(x) \in Seq(Sampled)
             /\ Sorted(W)
             /\ \A i \in DOMAIN W : W[i][1] <= sigHist.nr
             /\ BeforeAll(W, Pending)
             /\ ToSet(W) = ToSet(file.heard) \cup ToSet(Samples(x))
             /\ ToSet(file.heard \o Samples(x)) = ToSet(file.heard) \cup ToSet(Samples(x))
<1> DEFINE file == disk[sig.outFile]
           x == sig.out[1]
           S == Samples(x)
           W == (file.samples \o Flushed(All)) \o Kept(All)
           P == Pending
<1>1. /\ sig.outFile \in DOMAIN disk /\ file.open /\ Sorted(Written)
      /\ \A i \in DOMAIN Written : Written[i][1] <= sigHist.nr
      /\ BeforeAll(Written, P)
      /\ \/ ToSet(Written) = ToSet(file.heard)
         \/ ToSet(Written) = ToSet(file.heard) \cup ToSet(S)
  BY DEF SigInv, FileSound, Saving
<1>2. SigTypeOK /\ Phases /\ FramesKept /\ Rising(P)
  BY DEF SigInv
<1>3. /\ file \in Files /\ file.samples \in Seq(Sampled) /\ file.heard \in Seq(Sampled)
      /\ Written \in Seq(Sampled) /\ Written = file.samples \o sig.buf
      /\ sig.buf \in Seq(Sampled) /\ sig.out \in Seq(Things) /\ sig.out # << >>
      /\ Behind \in Seq(Things) /\ P \in Seq(Things) /\ P = sig.out \o Behind
  BY <1>1, <1>2, WrittenTyped, SigFields, PendingTyped DEF Phases, Pending
<1>4. x \in Things /\ x.kind = "FRAME" /\ 1 \in DOMAIN P /\ P[1] = x
  <2>1. 1 \in 1 .. Len(sig.out) /\ x \in Things
    BY <1>3
  <2>2. 1 \in DOMAIN P /\ P[1] = x
    <3>1. DOMAIN P = 1 .. Len(sig.out) + Len(Behind) /\ \A i \in 1 .. Len(sig.out) : P[i] = sig.out[i]
      BY <1>3, ConcatAt
    <3>2. Len(sig.out) \in Nat /\ Len(Behind) \in Nat
      BY <1>3, LenProperties
    <3> QED BY <2>1, <3>1, <3>2
  <2> QED BY <2>1, <2>2 DEF Saving
<1>5. x.nr \in Int /\ S \in Seq(Sampled) /\ \A i \in DOMAIN S : S[i][1] = x.nr
  BY <1>4, ThingFacts, SamplesFacts
<1>6. All \in Seq(Sampled) /\ All = sig.buf \o S
  BY <1>3, <1>5, ConcatAt DEF All
<1>7. Flushed(All) \in Seq(Sampled) /\ Kept(All) \in Seq(Sampled) /\ Flushed(All) \o Kept(All) = All
  BY <1>6, FlushedAndKept
<1> DEFINE fs == file.samples
           fh == file.heard
           fa == Flushed(All)
           ka == Kept(All)
           wr == Written
           bu == sig.buf
<1>7a. fs \in Seq(Sampled) /\ fh \in Seq(Sampled)
  BY <1>3
<1>7b. fa \in Seq(Sampled) /\ ka \in Seq(Sampled)
  BY <1>7
<1>7c. wr \in Seq(Sampled) /\ bu \in Seq(Sampled) /\ S \in Seq(Sampled)
  BY <1>3, <1>5
<1>7d. wr = fs \o bu /\ W = (fs \o Flushed(bu \o S)) \o Kept(bu \o S)
  BY <1>3, <1>6
<1> HIDE DEF fs, fh, fa, ka, wr, bu, S, W
<1>8a. W = wr \o S /\ wr \o S \in Seq(Sampled)
  <2>1. (fs \o Flushed(bu \o S)) \o Kept(bu \o S) = (fs \o bu) \o S
    BY <1>7a, <1>7c, SavedIs, ZenonT(60)
  <2>2. wr \o S \in Seq(Sampled)
    BY <1>7c, ConcatAt
  <2> QED BY <2>1, <2>2, <1>7d
<1>8b. ToSet(wr \o S) = ToSet(wr) \cup ToSet(S)
  BY <1>7c, ConcatSet
<1>8f. ToSet(fh \o S) = ToSet(fh) \cup ToSet(S)
  BY <1>7a, <1>7c, ConcatSet
<1>8c. ASSUME NEW i \in DOMAIN W
       PROVE  \/ i \in 1 .. Len(wr) /\ W[i] = wr[i]
              \/ i - Len(wr) \in 1 .. Len(S) /\ W[i] = S[i - Len(wr)] /\ i > Len(wr)
  BY <1>7c, <1>8a, ConcatFrom
<1>8d. DOMAIN wr = 1 .. Len(wr) /\ DOMAIN S = 1 .. Len(S)
  BY <1>7c, LenProperties
<1>8. W \in Seq(Sampled)
  BY <1>8a
<1>9. fs \o fa \in Seq(Sampled) /\ fh \o S \in Seq(Sampled)
  BY <1>7a, <1>7b, <1>7c, ConcatAt
<1>10. ToSet(W) = ToSet(Written) \cup ToSet(S) /\ ToSet(fh \o S) = ToSet(file.heard) \cup ToSet(S)
  BY <1>8a, <1>8b, <1>8f DEF wr, fh
<1>11. \A i \in DOMAIN Written : Written[i][1] <= x.nr /\ Written[i][1] \in Int
  <2>1. \A i \in DOMAIN Written : Written[i] \in Sampled
    BY <1>3, ElementOfSeq, LenProperties
  <2> QED BY <2>1, <1>1, <1>4 DEF BeforeAll, Sampled
<1>12. x.nr <= sigHist.nr /\ \A j \in DOMAIN P : P[j].kind = "FRAME" => x.nr <= P[j].nr
  <2>1. x.nr <= sigHist.nr
    BY <1>2, <1>4 DEF Rising
  <2>2. ASSUME NEW j \in DOMAIN P, P[j].kind = "FRAME" PROVE x.nr <= P[j].nr
    <3>1. j \in Nat /\ j >= 1 /\ P[j] \in Things
      BY <1>3, LenProperties, ElementOfSeq
    <3>2. P[j].nr \in Int
      BY <3>1, <2>2, ThingFacts
    <3>3. 1 < j => x.nr < P[j].nr
      BY <1>2, <1>4, <2>2 DEF Rising
    <3>4. j = 1 \/ 1 < j
      BY <3>1
    <3> QED BY <3>2, <3>3, <3>4, <1>4, <1>5
  <2> QED BY <2>1, <2>2
<1> DEFINE m == Len(Written)
<1>13. ASSUME NEW i \in DOMAIN W
       PROVE  \/ i \in DOMAIN Written /\ W[i] = Written[i]
              \/ i > m /\ W[i][1] = x.nr
  BY <1>5, <1>8c, <1>8d DEF wr
<1>14. m \in Nat /\ DOMAIN Written = 1 .. m /\ DOMAIN W \subseteq Int
  <2>1. m \in Nat /\ DOMAIN Written = 1 .. m
    BY <1>3, LenProperties
  <2>3. DOMAIN W = 1 .. Len(W) /\ Len(W) \in Nat
    BY <1>8, LenProperties
  <2> QED BY <2>1, <2>3
<1> HIDE DEF m, x, P
<1>15. \A i \in DOMAIN W : W[i][1] \in Int /\ W[i][1] <= x.nr
  BY <1>5, <1>11, <1>13
<1>16. Sorted(W)
  <2> SUFFICES ASSUME NEW i \in DOMAIN W, NEW j \in DOMAIN W, i < j PROVE W[i][1] <= W[j][1]
    BY DEF Sorted
  <2>1. CASE j \in DOMAIN Written /\ W[j] = Written[j]
    <3>1. i \in DOMAIN Written /\ W[i] = Written[i]
      BY <2>1, <1>13, <1>14
    <3> QED BY <2>1, <3>1, <1>1 DEF Sorted
  <2>2. CASE j > m /\ W[j][1] = x.nr
    BY <2>2, <1>15
  <2> QED BY <2>1, <2>2, <1>13
<1>17. \A i \in DOMAIN W : W[i][1] <= sigHist.nr
  <2>1. sigHist.nr \in Nat
    BY <1>2, SigFields
  <2> QED BY <2>1, <1>5, <1>12, <1>15
<1>18. BeforeAll(W, P)
  <2> SUFFICES ASSUME NEW i \in DOMAIN W, NEW j \in DOMAIN P, P[j].kind = "FRAME"
               PROVE  W[i][1] <= P[j].nr
    BY DEF BeforeAll
  <2>1. P[j].nr \in Int
    <3>1. P[j] \in Things
      BY <1>3, LenProperties, ElementOfSeq DEF P
    <3> QED BY <3>1, ThingFacts
  <2> QED BY <2>1, <1>5, <1>12, <1>15
<1>19. ToSet(W) = ToSet(file.heard) \cup ToSet(S)
  BY <1>1, <1>10
<1> QED BY <1>1, <1>3, <1>7, <1>9, <1>10, <1>16, <1>17, <1>18, <1>19 DEF W, S, x, P, fs, fh, fa, ka

(* A file that is written stays open.                                       *)
LEMMA FileWritten ==
  ASSUME SigTypeOK, FilesComplete, NEW name \in DOMAIN disk, disk[name].open,
         NEW samples \in Seq(Sampled), NEW heard \in Seq(Sampled),
         disk' = [disk EXCEPT ![name].samples = samples, ![name].heard = heard]
  PROVE  /\ DOMAIN disk' = DOMAIN disk /\ disk' \in [DOMAIN disk' -> Files]
         /\ disk'[name].samples = samples /\ disk'[name].heard = heard /\ disk'[name].open
         /\ FilesComplete'
<1>1. disk \in [DOMAIN disk -> Files] /\ disk[name] \in Files
  BY DEF SigTypeOK
<1>2. /\ DOMAIN disk' = DOMAIN disk /\ disk' \in [DOMAIN disk -> Files]
      /\ disk'[name].samples = samples /\ disk'[name].heard = heard /\ disk'[name].open
      /\ \A n \in DOMAIN disk : n # name => disk'[n] = disk[n]
  BY <1>1 DEF Files
<1>3. FilesComplete'
  BY <1>2 DEF FilesComplete
<1> QED BY <1>2, <1>3

(* What is due is what was put, the first piece in outBuf, and the rest.    *)
LEMMA FirstGoes ==
  ASSUME NEW S, NEW put \in Seq(S), NEW out \in Seq(S), out # << >>, NEW rest \in Seq(S)
  PROVE  /\ out[1] \in S /\ Tail(out) \in Seq(S) /\ << out[1] >> \in Seq(S)
         /\ Tail(out) \o rest \in Seq(S) /\ Append(put, out[1]) \in Seq(S)
         /\ out \o rest = << out[1] >> \o (Tail(out) \o rest)
         /\ put \o (out \o rest) = Append(put, out[1]) \o (Tail(out) \o rest)
<1> DEFINE x == out[1]
           t == Tail(out)
           one == << x >>
<1>1. out = one \o t /\ x \in S /\ t \in Seq(S)
  BY HeadAndTail
<1> HIDE DEF x, t
<1>1a. x \in S /\ t \in Seq(S)
  BY <1>1
<1>2. one \in Seq(S)
  BY <1>1a
<1>2a. Append(put, x) = put \o one /\ Append(put, x) \in Seq(S)
  BY <1>1a, AppendIsConcat, AppendProperties
<1> HIDE DEF one
<1> DEFINE tr == t \o rest
<1>3. tr \in Seq(S)
  BY <1>1, ConcatAt
<1>4. (one \o t) \o rest = one \o (t \o rest)
  BY <1>1a, <1>2, ConcatAssociative, SMTT(60)
<1> HIDE DEF tr
<1>5. (put \o one) \o tr = put \o (one \o tr)
  BY <1>2, <1>3, ConcatAssociative, SMTT(60)
<1> QED BY <1>1, <1>2, <1>2a, <1>3, <1>4, <1>5 DEF x, t, one, tr

LEMMA FeedKeeps == SigInv /\ SigFeed => SigInv'
<1> SUFFICES ASSUME SigInv, SigFeed PROVE SigInv'
  OBVIOUS
<1> DEFINE x == sig.out[1]
           file == disk[sig.outFile]
           rest == Tail(sig.out) \o Behind
<1>1. /\ procState = "FEED" /\ UNCHANGED << cbIn, fed >>
      /\ procState' = IF Len(sig.out) = 1 THEN sig.ret ELSE "FEED"
      /\ sigHist' = [sigHist EXCEPT !.put = Append(sigHist.put, x)]
  BY DEF SigFeed, Running, Leave, Put
<1>2. SigTypeOK /\ Phases /\ FramesKept /\ FilesComplete /\ FileSound /\ Owed /\ Rising(Pending)
  BY DEF SigInv
<1>3. /\ sig \in SigStates /\ sigHist \in Hists /\ sig.out \in Seq(Things) /\ sig.out # << >>
      /\ Behind \in Seq(Things) /\ sigHist.put \in Seq(Things) /\ sig.ret \in {"COLLECT", "PLAY"}
      /\ Pending = sig.out \o Behind /\ sigHist.due = sigHist.put \o (sig.out \o Behind)
  BY <1>1, <1>2, SigFields, PendingTyped DEF Phases, Pending, SigTypeOK, Owed
<1>4. /\ x \in Things /\ Tail(sig.out) \in Seq(Things) /\ << x >> \in Seq(Things)
      /\ rest \in Seq(Things) /\ Append(sigHist.put, x) \in Seq(Things)
      /\ Pending = << x >> \o rest
      /\ sigHist.due = Append(sigHist.put, x) \o rest
  <2> DEFINE o == sig.out
             p == sigHist.put
             b == Behind
  <2>1. o \in Seq(Things) /\ o # << >> /\ p \in Seq(Things) /\ b \in Seq(Things)
    BY <1>3
  <2> HIDE DEF o, p, b
  <2>2. /\ o[1] \in Things /\ Tail(o) \in Seq(Things) /\ << o[1] >> \in Seq(Things)
        /\ Tail(o) \o b \in Seq(Things) /\ Append(p, o[1]) \in Seq(Things)
        /\ o \o b = << o[1] >> \o (Tail(o) \o b)
        /\ p \o (o \o b) = Append(p, o[1]) \o (Tail(o) \o b)
    BY <2>1, FirstGoes, SMTT(60)
  <2> QED BY <2>2, <1>3 DEF o, p, b
<1>5. /\ sigHist' \in Hists /\ sigHist'.put = Append(sigHist.put, x)
      /\ sigHist'.due = sigHist.due /\ sigHist'.virtual = sigHist.virtual
      /\ sigHist'.nr = sigHist.nr
  BY <1>1, <1>3, <1>4 DEF Hists
<1>6. \/ /\ Saving /\ disk' = Heard(ToFile)
         /\ sig' = [sig EXCEPT !.out = Tail(sig.out), !.buf = Kept(All)]
      \/ ~Saving /\ disk' = disk /\ sig' = [sig EXCEPT !.out = Tail(sig.out)]
  BY DEF SigFeed, PutOne
<1>7. Saving => Kept(All) \in Seq(Sampled)
  BY <1>1, SavedSound
<1>8. /\ sig' \in SigStates /\ sig'.out = Tail(sig.out) /\ sig'.ret = sig.ret
      /\ sig'.inner = sig.inner /\ sig'.frames = sig.frames /\ sig'.available = sig.available
      /\ sig'.inFile = sig.inFile /\ sig'.pos = sig.pos /\ sig'.mods = sig.mods
      /\ sig'.outFile = sig.outFile
      /\ Saving => sig'.buf = Kept(All)
      /\ ~Saving => sig'.buf = sig.buf
  BY <1>3, <1>4, <1>6, <1>7 DEF SigStates
<1>9. /\ Len(sig.out) = 1 => Tail(sig.out) = << >>
      /\ Len(sig.out) # 1 => Tail(sig.out) # << >>
  <2> DEFINE o == sig.out
  <2>0. o \in Seq(Things) /\ o # << >>
    BY <1>3
  <2> HIDE DEF o
  <2>1. Tail(o) \in Seq(Things) /\ Len(Tail(o)) = Len(o) - 1 /\ Len(o) >= 1
    BY <2>0, HeadAndTail
  <2>2. Len(o) \in Nat /\ (Tail(o) = << >> <=> Len(Tail(o)) = 0)
    BY <2>0, <2>1, EmptyLen, LenProperties
  <2> QED BY <2>1, <2>2 DEF o
<1>10. Behind' = Behind
  BY <1>5, <1>8 DEF Behind, StillToPlay, FileGives
<1>11. Pending' = rest
  <2>1. CASE Len(sig.out) = 1
    <3>1. rest = Behind
      BY <2>1, <1>3, <1>9, EmptyRight
    <3>2. Pending' = Behind'
      BY <2>1, <1>1, <1>3, <1>8 DEF Pending, Behind
    <3> QED BY <3>1, <3>2, <1>10
  <2>2. CASE Len(sig.out) # 1
    BY <2>2, <1>1, <1>8, <1>10 DEF Pending
  <2> QED BY <2>1, <2>2
<1>12. Owed'
  BY <1>4, <1>5, <1>11 DEF Owed
<1>13. /\ Rising(rest)
       /\ \A w : BeforeAll(w, Pending) => BeforeAll(w, rest)
  BY <1>2, <1>4, RestRises
<1>14. Rising(Pending)'
  BY <1>5, <1>11, <1>13 DEF Rising
<1>15. Phases'
  BY <1>1, <1>2, <1>3, <1>8, <1>9 DEF Phases
<1>16. FramesKept'
  <2>1. ~InFrame /\ ~InFrame'
    BY <1>1, <1>3 DEF InFrame
  <2> QED BY <1>2, <1>5, <1>8, <2>1 DEF FramesKept
<1>17. disk' \in [DOMAIN disk' -> Files] /\ FilesComplete' /\ FileSound'
  <2>1. CASE ~Saving
    <3>1. disk' = disk /\ Written' = Written
      BY <2>1, <1>6, <1>8 DEF Written
    <3>2. disk' \in [DOMAIN disk' -> Files] /\ FilesComplete'
      BY <3>1, <1>2 DEF SigTypeOK, FilesComplete
    <3>3. FileSound'
      <4> SUFFICES ASSUME sig.outFile # NoFile PROVE FileSound'
        BY <1>8 DEF FileSound
      <4>1. /\ sig.outFile \in DOMAIN disk /\ file.open /\ Sorted(Written)
            /\ \A i \in DOMAIN Written : Written[i][1] <= sigHist.nr
            /\ BeforeAll(Written, Pending)
            /\ ToSet(Written) = ToSet(file.heard)
        BY <2>1, <1>2 DEF FileSound, Saving
      <4>2. BeforeAll(Written, rest)
        BY <4>1, <1>13
      <4> QED BY <4>1, <4>2, <3>1, <1>5, <1>8, <1>11 DEF FileSound, Sorted, BeforeAll
    <3> QED BY <3>2, <3>3
  <2>2. CASE Saving
    <3> DEFINE new == file.samples \o Flushed(All)
               heard == file.heard \o Samples(x)
               W == new \o Kept(All)
    <3>1. /\ sig.outFile \in DOMAIN disk /\ file.open /\ file \in Files
          /\ new \in Seq(Sampled) /\ heard \in Seq(Sampled)
          /\ Sorted(W) /\ \A i \in DOMAIN W : W[i][1] <= sigHist.nr
          /\ BeforeAll(W, Pending) /\ ToSet(W) = ToSet(heard)
      BY <2>2, <1>1, SavedSound
    <3>2. disk' = [disk EXCEPT ![sig.outFile].samples = new, ![sig.outFile].heard = heard]
      <4>1. disk \in [DOMAIN disk -> Files]
        BY <1>2 DEF SigTypeOK
      <4> QED BY <2>2, <3>1, <4>1, <1>6 DEF Heard, ToFile, Files
    <3> HIDE DEF new, heard
    <3>3. /\ DOMAIN disk' = DOMAIN disk /\ disk' \in [DOMAIN disk' -> Files] /\ FilesComplete'
          /\ disk'[sig.outFile].samples = new /\ disk'[sig.outFile].heard = heard
          /\ disk'[sig.outFile].open
      BY <3>1, <3>2, <1>2, FileWritten
    <3>4. Written' = W
      BY <2>2, <3>3, <1>8 DEF Written
    <3>5. BeforeAll(W, rest)
      BY <3>1, <1>13
    <3>6. FileSound'
      BY <3>1, <3>3, <3>4, <3>5, <1>5, <1>8, <1>11, ZenonT(60) DEF FileSound, Sorted, BeforeAll
    <3> QED BY <3>3, <3>6
  <2> QED BY <2>1, <2>2
<1>18. SigTypeOK'
  BY <1>1, <1>2, <1>3, <1>5, <1>8, <1>17 DEF SigTypeOK
<1> QED BY <1>12, <1>14, <1>15, <1>16, <1>17, <1>18 DEF SigInv

LEMMA FeedFullKeeps == SigInv /\ SigFeedFull => SigInv'
<1> SUFFICES ASSUME SigInv, SigFeedFull PROVE SigInv'
  OBVIOUS
<1> DEFINE x == sig.out[1]
           file == disk[sig.outFile]
<1>1. /\ procState = "FEED" /\ procState' = "FEED" /\ UNCHANGED << cbIn, fed, sigHist >>
  BY DEF SigFeedFull, Running, Return, NoTransfer
<1>2. SigTypeOK /\ Phases /\ FramesKept /\ FilesComplete /\ Owed /\ Rising(Pending)
  BY DEF SigInv
<1>3. CASE ~Saving
  <2>1. UNCHANGED << procState, sig, disk, sigHist >> /\ fed' \in Nat /\ cbIn' \in Seq(Arrived)
    BY <1>1, <1>2, <1>3 DEF SigFeedFull, SigTypeOK
  <2> QED BY <2>1, OutsideKeeps
<1>4. CASE Saving
  <2> DEFINE new == file.samples \o Flushed(All)
             W == new \o Kept(All)
  <2>1. /\ sig.outFile \in DOMAIN disk /\ file.open /\ file \in Files
        /\ new \in Seq(Sampled) /\ Kept(All) \in Seq(Sampled)
        /\ Sorted(W) /\ \A i \in DOMAIN W : W[i][1] <= sigHist.nr
        /\ BeforeAll(W, Pending) /\ ToSet(W) = ToSet(file.heard) \cup ToSet(Samples(x))
    BY <1>1, <1>4, SavedSound
  <2>2. disk' = ToFile /\ sig' = [sig EXCEPT !.buf = Kept(All)]
    BY <1>4 DEF SigFeedFull
  <2>3. /\ sig' \in SigStates /\ sig'.out = sig.out /\ sig'.ret = sig.ret /\ sig'.item = sig.item
        /\ sig'.inner = sig.inner /\ sig'.frames = sig.frames /\ sig'.available = sig.available
        /\ sig'.inFile = sig.inFile /\ sig'.pos = sig.pos /\ sig'.mods = sig.mods
        /\ sig'.outFile = sig.outFile /\ sig'.buf = Kept(All)
    BY <1>2, <2>1, <2>2 DEF SigStates, SigTypeOK
  <2> DEFINE heard == file.heard
  <2>4. heard \in Seq(Sampled)
    BY <2>1 DEF Files
  <2>5. disk' = [disk EXCEPT ![sig.outFile].samples = new, ![sig.outFile].heard = heard]
    <3>1. disk \in [DOMAIN disk -> Files]
      BY <1>2 DEF SigTypeOK
    <3> QED BY <2>1, <2>2, <3>1 DEF ToFile, Files
  <2>5a. ToSet(W) = ToSet(heard) \cup ToSet(Samples(x))
    BY <2>1
  <2> HIDE DEF new, heard
  <2>6. /\ DOMAIN disk' = DOMAIN disk /\ disk' \in [DOMAIN disk' -> Files] /\ FilesComplete'
        /\ disk'[sig.outFile].samples = new /\ disk'[sig.outFile].heard = heard
        /\ disk'[sig.outFile].open
    BY <1>2, <2>1, <2>4, <2>5, FileWritten
  <2>7. Written' = W
    BY <2>3, <2>6 DEF Written
  <2>8. Pending' = Pending
    BY <1>1, <2>3 DEF Pending, Behind, StillToPlay, FileGives
  <2>9. FileSound'
    BY <1>1, <1>4, <2>1, <2>3, <2>5a, <2>6, <2>7, <2>8 DEF FileSound, Sorted, BeforeAll, Saving
  <2>10. SigTypeOK'
    BY <1>1, <1>2, <2>3, <2>6 DEF SigTypeOK
  <2>11. Phases'
    BY <1>1, <1>2, <2>3 DEF Phases
  <2>12. FramesKept'
    <3>1. ~InFrame /\ ~InFrame'
      BY <1>1 DEF InFrame
    <3> QED BY <1>1, <1>2, <2>3, <3>1 DEF FramesKept
  <2>13. Owed' /\ Rising(Pending)'
    BY <1>1, <1>2, <2>8 DEF Owed, Rising
  <2> QED BY <2>6, <2>9, <2>10, <2>11, <2>12, <2>13 DEF SigInv
<1> QED BY <1>3, <1>4

LEMMA CutEnd ==
  ASSUME NEW S, NEW s \in Seq(S), NEW t \in Seq(S)
  PROVE  SubSeq(s \o t, 1, Len(s)) = s /\ SubSeq(s \o t, Len(s) + 1, Len(s \o t)) = t
<1> DEFINE st == s \o t
           m == Len(s)
           n == Len(t)
           l == Len(st)
           a == SubSeq(st, 1, m)
           b == SubSeq(st, m + 1, l)
<1>1. /\ st \in Seq(S) /\ l = m + n
      /\ \A i \in 1 .. m : st[i] = s[i]
      /\ \A i \in 1 .. n : st[m + i] = t[i]
  BY ConcatAt
<1>2. m \in Nat /\ n \in Nat
  BY LenProperties
<1>2a. \A i \in 1 .. m + n : st[i] \in S
  BY <1>1, <1>2, ElementOfSeq
<1> HIDE DEF st, l, m, n
<1>3. /\ a \in Seq(S) /\ Len(a) = IF 1 <= m THEN m - 1 + 1 ELSE 0
      /\ \A i \in 1 .. m - 1 + 1 : a[i] = st[1 + i - 1]
  <2>1. \A i \in 1 .. m : st[i] \in S
    BY <1>2, <1>2a
  <2>2. 1 \in Int /\ m \in Int
    BY <1>2
  <2> QED BY <2>1, <2>2, SubSeqProperties
<1>4. /\ b \in Seq(S) /\ Len(b) = IF m + 1 <= l THEN l - (m + 1) + 1 ELSE 0
      /\ \A i \in 1 .. l - (m + 1) + 1 : b[i] = st[m + 1 + i - 1]
  <2>1. \A i \in m + 1 .. l : st[i] \in S
    BY <1>1, <1>2, <1>2a
  <2>2. m + 1 \in Int /\ l \in Int
    BY <1>1, <1>2
  <2> QED BY <2>1, <2>2, SubSeqProperties
<1> HIDE DEF a, b
<1>5. Len(a) = m /\ \A i \in 1 .. m : a[i] = s[i]
  <2>1. \A i \in 1 .. m : i \in 1 .. m - 1 + 1 /\ 1 + i - 1 = i
    BY <1>2
  <2> QED BY <2>1, <1>1, <1>2, <1>3
<1>6. Len(b) = n /\ \A i \in 1 .. n : b[i] = t[i]
  <2>1. \A i \in 1 .. n : i \in 1 .. l - (m + 1) + 1 /\ m + 1 + i - 1 = m + i
    BY <1>1, <1>2
  <2> QED BY <2>1, <1>1, <1>2, <1>4
<1>7. a = s
  BY <1>3, <1>5, SeqEqual DEF m
<1>8. b = t
  BY <1>4, <1>6, SeqEqual DEF n
<1> QED BY <1>7, <1>8 DEF a, b, st, l, m

(* What is lost with outBuf is cut out of what is due.                      *)
LEMMA CutOut ==
  ASSUME NEW S, NEW p \in Seq(S), NEW o \in Seq(S), NEW b \in Seq(S)
  PROVE  LET d == p \o (o \o b)
         IN  /\ SubSeq(d, 1, Len(p)) = p
             /\ SubSeq(d, Len(p) + Len(o) + 1, Len(d)) = b
<1> DEFINE ob == o \o b
           po == p \o o
<1>1. ob \in Seq(S) /\ po \in Seq(S)
  BY ConcatAt
<1>2. Len(po) = Len(p) + Len(o)
  BY ConcatAt
<1>3. po \o b = p \o ob
  BY ConcatAssociative
<1> HIDE DEF ob, po
<1>4. SubSeq(p \o ob, 1, Len(p)) = p
  BY <1>1, CutEnd
<1>5. SubSeq(po \o b, Len(po) + 1, Len(po \o b)) = b
  BY <1>1, CutEnd
<1> QED BY <1>2, <1>3, <1>4, <1>5 DEF ob

LEMMA FeedBrokenKeeps == SigInv /\ SigFeedBroken => SigInv'
<1> SUFFICES ASSUME SigInv, SigFeedBroken PROVE SigInv'
  OBVIOUS
<1> DEFINE name == sig.outFile
<1>1. /\ procState = "FEED" /\ procState' = sig.ret /\ UNCHANGED << cbIn, fed >>
      /\ Saving /\ disk' = Broken(name)
      /\ sig' = [sig EXCEPT !.out = << >>, !.outFile = NoFile, !.buf = << >>]
      /\ sigHist' = [sigHist EXCEPT !.due = SubSeq(sigHist.due, 1, Len(sigHist.put))
                       \o SubSeq(sigHist.due, Len(sigHist.put) + Len(sig.out) + 1, Len(sigHist.due))]
  BY DEF SigFeedBroken, Running, Leave, NoTransfer
<1>2. SigTypeOK /\ Phases /\ FramesKept /\ FilesComplete /\ FileSound /\ Owed /\ Rising(Pending)
  BY DEF SigInv
<1>3. /\ sig \in SigStates /\ sigHist \in Hists /\ sig.out \in Seq(Things)
      /\ Behind \in Seq(Things) /\ sigHist.put \in Seq(Things) /\ sig.ret \in {"COLLECT", "PLAY"}
      /\ Pending = sig.out \o Behind /\ sigHist.due = sigHist.put \o (sig.out \o Behind)
  BY <1>1, <1>2, SigFields, PendingTyped DEF Pending, SigTypeOK, Owed
<1>4. sigHist' = [sigHist EXCEPT !.due = sigHist.put \o Behind]
  <2> DEFINE o == sig.out
             p == sigHist.put
             b == Behind
  <2>1. o \in Seq(Things) /\ p \in Seq(Things) /\ b \in Seq(Things)
    BY <1>3
  <2> HIDE DEF o, p, b
  <2>2. LET d == p \o (o \o b)
        IN  /\ SubSeq(d, 1, Len(p)) = p
            /\ SubSeq(d, Len(p) + Len(o) + 1, Len(d)) = b
    BY <2>1, CutOut
  <2> QED BY <2>2, <1>1, <1>3 DEF o, p, b
<1>5. sigHist.put \o Behind \in Seq(Things)
  BY <1>3, ConcatAt
<1>6. /\ sigHist' \in Hists /\ sigHist'.put = sigHist.put /\ sigHist'.due = sigHist.put \o Behind
      /\ sigHist'.virtual = sigHist.virtual /\ sigHist'.nr = sigHist.nr
  BY <1>3, <1>4, <1>5 DEF Hists
<1>7. << >> \in Seq(Things) /\ << >> \in Seq(Sampled) /\ NoFile \in Names
  BY DEF Names
<1>8. /\ sig' \in SigStates /\ sig'.ret = sig.ret
      /\ sig'.inner = sig.inner /\ sig'.frames = sig.frames /\ sig'.available = sig.available
      /\ sig'.inFile = sig.inFile /\ sig'.pos = sig.pos /\ sig'.mods = sig.mods
      /\ sig'.outFile = NoFile
  BY <1>1, <1>3, <1>7 DEF SigStates
<1>9. Pending' = Behind
  <2>1. StillToPlay' = StillToPlay
    BY <1>6, <1>8 DEF StillToPlay, FileGives
  <2> QED BY <2>1, <1>1, <1>3 DEF Pending, Behind
<1>10. Owed'
  BY <1>6, <1>9 DEF Owed
<1>11. Rising(Pending)'
  <2>1. Rising(Behind)
    BY <1>2, <1>3, RestRises
  <2> QED BY <2>1, <1>6, <1>9 DEF Rising
<1>12. Phases'
  BY <1>1, <1>2, <1>3, <1>8 DEF Phases
<1>13. FramesKept'
  <2>1. ~InFrame /\ ~InFrame'
    BY <1>1, <1>3 DEF InFrame
  <2> QED BY <1>2, <1>6, <1>8, <2>1 DEF FramesKept
<1>14. disk' \in [DOMAIN disk' -> Files] /\ FilesComplete'
  <2>1. name \in DOMAIN disk /\ disk[name] \in Files /\ disk \in [DOMAIN disk -> Files]
    BY <1>1, <1>2 DEF FileSound, Saving, SigTypeOK
  <2>2. /\ DOMAIN disk' = DOMAIN disk /\ disk'[name].broken
        /\ \A n \in DOMAIN disk : n # name => disk'[n] = disk[n]
        /\ disk' \in [DOMAIN disk -> Files]
    BY <1>1, <2>1 DEF Broken, Files
  <2> QED BY <2>2, <1>2 DEF FilesComplete
<1>15. FileSound'
  BY <1>8 DEF FileSound
<1>16. SigTypeOK'
  BY <1>1, <1>2, <1>3, <1>6, <1>8, <1>14 DEF SigTypeOK
<1> QED BY <1>10, <1>11, <1>12, <1>13, <1>14, <1>15, <1>16 DEF SigInv

-----------------------------------------------------------------------------
(* The beginning, and resets: the frames and modifiers may stay.            *)
LEMMA NewSigTyped ==
  /\ NewSig \in SigStates /\ NewSig.frames \in Seq(Nat) /\ Len(NewSig.frames) = 3
  /\ NewSig.inner = 0 /\ NewSig.available = 0 /\ NewSig.outFile = NoFile
<1>1. /\ << >> \in Seq(Arrived) /\ << >> \in Seq(Things) /\ << >> \in Seq(Sampled)
      /\ NoFile \in Names
  BY DEF Names
<1>2. [i \in 1 .. 3 |-> 0] \in Seq(Nat) /\ Len([i \in 1 .. 3 |-> 0]) = 3
  OBVIOUS
<1>3. NewSig.frames = [i \in 1 .. 3 |-> 0]
  BY DEF NewSig, CepstBuffSize, NoFrame0
<1>4. NewSig.mods \in Mods
  BY DEF NewSig, Mods
<1> DEFINE f == [i \in 1 .. 3 |-> 0]
           m == NewSig.mods
<1>5. NewSig = [item |-> << >>, out |-> << >>, ret |-> "COLLECT", inner |-> 0,
                inFile |-> NoFile, pos |-> 0, outFile |-> NoFile, buf |-> << >>,
                frames |-> f, available |-> 0, mods |-> m]
  BY DEF NewSig, CepstBuffSize, NoFrame0
<1> HIDE DEF f, m
<1>6. f \in Seq(Nat) /\ m \in Mods /\ Len(f) = 3
  BY <1>2, <1>4 DEF f, m
<1> QED BY <1>1, <1>5, <1>6 DEF SigStates

LEMMA AtCollect ==
  ASSUME procState' = "COLLECT", cbIn' \in Seq(Arrived), fed' \in Nat,
         sig' \in SigStates, Len(sig'.frames) = 3, sig'.inner = 0, sig'.outFile = NoFile,
         sigHist' \in Hists, sigHist'.due = << >>, sigHist'.put = << >>,
         disk' \in [DOMAIN disk' -> Files], FilesComplete', FramesKept'
  PROVE  SigInv'
<1>1. SigTypeOK'
  BY DEF SigTypeOK
<1>2. Phases'
  BY DEF Phases
<1>3. Pending' = << >>
  BY DEF Pending
<1>4. Owed' /\ Rising(Pending)'
  BY <1>3 DEF Owed, Rising
<1>5. FileSound'
  BY DEF FileSound
<1> QED BY <1>1, <1>2, <1>4, <1>5 DEF SigInv

LEMMA ResetKeeps == ASSUME NEW full \in BOOLEAN PROVE SigInv /\ SigReset(full) => SigInv'
<1> SUFFICES ASSUME SigInv, SigReset(full) PROVE SigInv'
  OBVIOUS
<1> DEFINE f == sig.frames
           a == sig.available
           v == sigHist'.virtual
<1>1. /\ procState' = "COLLECT" /\ cbIn' = << >> /\ UNCHANGED << fed, disk >>
      /\ sig' = IF full THEN NewSig ELSE SoftReset(sig)
      /\ sigHist' = NewSigHist(IF full THEN << >> ELSE Loaded(sig))
  BY DEF SigReset, UnitReset
<1>2. SigTypeOK /\ FilesComplete
  BY DEF SigInv
<1>3. /\ cbIn' \in Seq(Arrived) /\ fed' \in Nat /\ disk' \in [DOMAIN disk' -> Files]
      /\ FilesComplete'
  BY <1>1, <1>2 DEF SigTypeOK, FilesComplete
<1>4. /\ f \in Seq(Nat) /\ Len(f) = 3 /\ a \in 0 .. 3 /\ sig.mods \in Mods
  BY <1>2, SigFields
<1>5. /\ NewSig \in SigStates /\ Len(NewSig.frames) = 3 /\ NewSig.inner = 0
      /\ NewSig.outFile = NoFile /\ NewSig.available = 0
  BY NewSigTyped
<1>6. /\ SoftReset(sig) \in SigStates /\ SoftReset(sig).frames = f
      /\ SoftReset(sig).inner = 0 /\ SoftReset(sig).outFile = NoFile
      /\ SoftReset(sig).available = a
  BY <1>4, <1>5 DEF SoftReset, SigStates
<1>7. /\ sig' \in SigStates /\ Len(sig'.frames) = 3 /\ sig'.inner = 0 /\ sig'.outFile = NoFile
  BY <1>1, <1>4, <1>5, <1>6
<1>8. \A w \in Seq(Nat) : /\ NewSigHist(w) \in Hists /\ NewSigHist(w).virtual = w
                          /\ NewSigHist(w).due = << >> /\ NewSigHist(w).put = << >>
  <2>1. << >> \in Seq(Things)
    OBVIOUS
  <2> QED BY <2>1 DEF NewSigHist, Hists
<1>9. /\ Loaded(sig) \in Seq(Nat) /\ Len(Loaded(sig)) = a
      /\ \A i \in 1 .. a : Loaded(sig)[i] = f[3 - a + i]
  <2>1. Loaded(sig) = SubSeq(f, 3 - a + 1, 3)
    BY DEF Loaded, CepstBuffSize
  <2>2. \A i \in 3 - a + 1 .. 3 : f[i] \in Nat
    <3>1. \A i \in 3 - a + 1 .. 3 : i \in 1 .. Len(f)
      BY <1>4
    <3> QED BY <3>1, <1>4, ElementOfSeq
  <2>3. 3 - a + 1 \in Int /\ 3 \in Int
    BY <1>4
  <2>4. /\ SubSeq(f, 3 - a + 1, 3) \in Seq(Nat)
        /\ Len(SubSeq(f, 3 - a + 1, 3)) = IF 3 - a + 1 <= 3 THEN 3 - (3 - a + 1) + 1 ELSE 0
        /\ \A i \in 1 .. 3 - (3 - a + 1) + 1 :
             SubSeq(f, 3 - a + 1, 3)[i] = f[3 - a + 1 + i - 1]
    BY <2>2, <2>3, SubSeqProperties
  <2> DEFINE ld == Loaded(sig)
  <2>5. /\ ld \in Seq(Nat) /\ Len(ld) = IF 3 - a + 1 <= 3 THEN 3 - (3 - a + 1) + 1 ELSE 0
        /\ \A i \in 1 .. 3 - (3 - a + 1) + 1 : ld[i] = f[3 - a + 1 + i - 1]
    BY <2>1, <2>4
  <2> HIDE DEF ld, a, f
  <2>6. Len(ld) = a
    BY <2>5, <1>4
  <2>7. ASSUME NEW i \in 1 .. a PROVE ld[i] = f[3 - a + i]
    <3>1. i \in 1 .. 3 - (3 - a + 1) + 1 /\ 3 - a + 1 + i - 1 = 3 - a + i
      BY <1>4
    <3> QED BY <3>1, <2>5
  <2> QED BY <2>5, <2>6, <2>7 DEF ld
<1>10. << >> \in Seq(Nat)
  OBVIOUS
<1>11. /\ sigHist' \in Hists /\ sigHist'.due = << >> /\ sigHist'.put = << >>
       /\ v = IF full THEN << >> ELSE Loaded(sig)
  BY <1>1, <1>8, <1>9, <1>10
<1>12. FramesKept'
  <2>1. ~InFrame'
    BY <1>1 DEF InFrame
  <2>2. CASE full
    <3>1. v = << >> /\ Len(v) = 0 /\ sig'.available = 0
      BY <2>2, <1>1, <1>5, <1>11
    <3> QED BY <2>1, <3>1 DEF FramesKept
  <2>3. CASE ~full
    <3>1. /\ Len(v) = a /\ sig'.available = a /\ sig'.frames = f
          /\ \A i \in 1 .. a : v[i] = f[3 - a + i]
      BY <2>3, <1>1, <1>6, <1>9, <1>11
    <3>2. \A i \in 1 .. a : Len(v) - a + i = i
      BY <3>1, <1>4
    <3>3. \A i \in 1 .. a : f[3 - a + i] = v[Len(v) - a + i]
      BY <3>1, <3>2
    <3>4. \A i \in 1 .. sig'.available :
            sig'.frames[3 - sig'.available + i] = sigHist'.virtual[Len(sigHist'.virtual) - sig'.available + i]
      BY <3>1, <3>3
    <3>5. /\ Len(sigHist'.virtual) >= sig'.available
          /\ sig'.available < 3 => Len(sigHist'.virtual) = sig'.available
      BY <3>1, <1>4
    <3> QED BY <2>1, <3>4, <3>5, Zenon DEF FramesKept
  <2> QED BY <2>2, <2>3
<1> QED BY <1>1, <1>3, <1>7, <1>11, <1>12, AtCollect

LEMMA BeginKeeps == SigInit => SigInv
<1> SUFFICES ASSUME SigInit PROVE SigInv
  OBVIOUS
<1>1. /\ procState = "COLLECT" /\ cbIn = << >> /\ fed = 0
      /\ sig = NewSig /\ disk = << >> /\ sigHist = NewSigHist(<< >>)
  BY DEF SigInit, UnitInit
<1>2. /\ sigHist \in Hists /\ sigHist.due = << >> /\ sigHist.put = << >> /\ sigHist.virtual = << >>
  <2>1. << >> \in Seq(Things) /\ << >> \in Seq(Nat)
    OBVIOUS
  <2> QED BY <2>1, <1>1 DEF NewSigHist, Hists
<1>3. DOMAIN disk = {} /\ disk \in [DOMAIN disk -> Files]
  BY <1>1
<1>4. SigTypeOK
  BY <1>1, <1>2, <1>3, NewSigTyped DEF SigTypeOK
<1>5. Phases
  BY <1>1, NewSigTyped DEF Phases
<1>6. FramesKept
  <2>1. ~InFrame /\ sig.available = 0 /\ Len(sigHist.virtual) = 0
    BY <1>1, <1>2, NewSigTyped DEF InFrame
  <2> QED BY <2>1 DEF FramesKept
<1>7. Pending = << >>
  BY <1>1 DEF Pending
<1>8. Owed /\ Rising(Pending)
  BY <1>2, <1>7 DEF Owed, Rising
<1>9. FileSound /\ FilesComplete
  BY <1>1, <1>3, NewSigTyped DEF FileSound, FilesComplete
<1> QED BY <1>4, <1>5, <1>6, <1>8, <1>9 DEF SigInv

LEMMA NextKeeps == SigInv /\ [SigNext]_sigVars => SigInv'
<1> SUFFICES ASSUME SigInv, [SigNext]_sigVars PROVE SigInv'
  OBVIOUS
<1>1. fed \in Nat /\ cbIn \in Seq(Arrived)
  BY DEF SigInv, SigTypeOK
<1>2. ASSUME UNCHANGED << cbIn, procState, fed, sig, disk, sigHist >> PROVE SigInv'
  BY <1>1, <1>2, OutsideKeeps
<1>3. CASE SigStep
  <2>1. CASE SigIdle
    <3>1. UNCHANGED << cbIn, procState, fed, sig, disk, sigHist >>
      BY <2>1 DEF SigIdle, Return, NoTransfer
    <3> QED BY <3>1, <1>2
  <2>2. CASE ~SigIdle
    BY <1>3, <2>2, CollectKeeps, ForwardKeeps, FrameKeeps, ModifyKeeps, PlayKeeps, SaveKeeps,
       UnsaveKeeps, ShiftKeeps, ComputeKeeps, SoundKeeps, FilePieceKeeps, FileEndKeeps,
       FeedKeeps, FeedFullKeeps, FeedBrokenKeeps DEF SigStep
  <2> QED BY <2>1, <2>2
<1>4. CASE SigCall
  <2>1. UNCHANGED << cbIn, procState, fed, sig, disk, sigHist >>
    BY <1>4 DEF SigCall, Call
  <2> QED BY <2>1, <1>2
<1>5. CASE Arrive(SigInputs) /\ UNCHANGED << sig, disk, sigHist >>
  <2>1. fed' \in Nat /\ cbIn' \in Seq(Arrived)
    BY <1>5, ArriveTyped DEF SigInv
  <2>2. UNCHANGED << procState, sig, disk, sigHist >>
    BY <1>5 DEF Arrive
  <2> QED BY <2>1, <2>2, OutsideKeeps
<1>6. CASE Fetch /\ UNCHANGED << sig, disk, sigHist >>
  <2>1. UNCHANGED << cbIn, procState, fed, sig, disk, sigHist >>
    BY <1>6 DEF Fetch
  <2> QED BY <2>1, <1>2
<1>7. CASE \E full \in BOOLEAN : SigReset(full)
  BY <1>7, ResetKeeps
<1>8. CASE UNCHANGED sigVars
  <2>1. UNCHANGED << cbIn, procState, fed, sig, disk, sigHist >>
    BY <1>8 DEF sigVars, unitVars
  <2> QED BY <2>1, <1>2
<1> QED BY <1>3, <1>4, <1>5, <1>6, <1>7, <1>8 DEF SigNext

(* The invariant that carries all of it: what is due is what was put and    *)
(* what the state of the unit still owes, and the file that is written has  *)
(* what came before (picosig.c sigStep, sigProcess).                        *)
THEOREM SigInvariant == SigSpec => []SigInv
<1>1. SigInit => SigInv
  BY BeginKeeps
<1>2. SigInv /\ [SigNext]_sigVars => SigInv'
  BY NextKeeps
<1> QED BY <1>1, <1>2, PTL DEF SigSpec

(* For all sizes, files and inputs: every frame gives two pieces of sound,  *)
(* of the frame two before it; files are played from their first sample to  *)
(* the last; other items keep their place; and when the unit asks for an    *)
(* item, nothing is owed (sigStep, sigProcess).                             *)
THEOREM SoundStaysInOrder == SigSpec => []SoundInOrder
<1>1. SigInv => SoundInOrder
  <2> SUFFICES ASSUME SigInv PROVE SoundInOrder
    OBVIOUS
  <2>1. SigTypeOK /\ Phases /\ FramesKept /\ sigHist.due = sigHist.put \o Pending
    BY DEF SigInv, Owed
  <2>2. sigHist.put \in Seq(Things) /\ Pending \in Seq(Things)
    BY <2>1, SigFields, PendingTyped
  <2>3. IsPrefix(sigHist.put, sigHist.due)
    BY <2>1, <2>2, PrefixOfConcat
  <2>4. procState = "COLLECT" => sigHist.put = sigHist.due
    <3>1. procState = "COLLECT" => Pending = << >>
      BY DEF Pending
    <3>2. sigHist.put \o << >> = sigHist.put
      BY <2>2, EmptyRight
    <3> QED BY <2>1, <3>1, <3>2
  <2> QED BY <2>3, <2>4 DEF SoundInOrder
<1> QED BY <1>1, SigInvariant, PTL

(* For all sizes, files and inputs, and whatever the file system and the    *)
(* output refuse: a sound file that was closed without an error has in it   *)
(* what went out while it was open, in that order, and the length in its    *)
(* header is right (picosig.c FEED, picoos_sdfPutSamples, _sdfCloseOut).    *)
THEOREM FilesStayComplete == SigSpec => []FilesComplete
<1>1. SigInv => FilesComplete
  BY DEF SigInv
<1> QED BY <1>1, SigInvariant, PTL
==============================================================================
