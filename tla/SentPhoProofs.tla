--------------------------- MODULE SentPhoProofs ----------------------------
(***************************************************************************)
(* Sentence phonology, for all sizes of its buffers, any items and any     *)
(* transducers: words and commands leave in the order in which they came,  *)
(* and no command is put twice, or lost but for want of room for its       *)
(* content, wherever the windows are cut.                                  *)
(*                                                                         *)
(* What is in the buffers is seen by its outline, the number and kind of   *)
(* each item.  What was said of the items before Progress, with the item   *)
(* in outBuf, is in order and complete (Ordered).  A window moves Progress *)
(* on only if its active range does not end before it starts (Window), for *)
(* which the left context has to fit into the phones again; and the flush  *)
(* that ends no sentence drops nothing because no sentence is open then    *)
(* (Grammar).                                                              *)
(***************************************************************************)
EXTENDS SentPho, SequenceTheorems, WellFoundedInduction, TLAPS

-----------------------------------------------------------------------------
(* Numbers: the least of a set.                                             *)
Less == OpToRel(<, Nat)
LEMMA LeastOf ==
  ASSUME NEW T, T \subseteq Nat, T # {}
  PROVE  \E m \in T : \A k \in T : m <= k
<1>1. IsWellFoundedOn(Less, Nat)
  BY NatLessThanWellFounded DEF Less
<1>2. \E x \in T : \A y \in T : << y, x >> \notin Less
  BY <1>1, WFMin, Zenon
<1>3. PICK m \in T : \A y \in T : << y, m >> \notin Less
  BY <1>2
<1>4. \A x, y \in Nat : x < y => << x, y >> \in Less
  BY DEF Less, OpToRel
<1>5. \A k \in T : k \in Nat /\ m \in Nat /\ ~(k < m)
  BY <1>3, <1>4
<1> QED  BY <1>5

-----------------------------------------------------------------------------
(* Sequences, of whatever they are.                                         *)
IsSeq(s) == \E S : s \in Seq(S)

LEMMA Lengths ==
  ASSUME NEW s, IsSeq(s)
  PROVE  Len(s) \in Nat /\ DOMAIN s = 1 .. Len(s) /\ (Len(s) = 0 <=> s = << >>)
BY DEF IsSeq

LEMMA Empty == IsSeq(<< >>) /\ Len(<< >>) = 0 /\ DOMAIN << >> = {}
<1>1. << >> \in Seq({})
  OBVIOUS
<1> QED  BY <1>1 DEF IsSeq

LEMMA Appended ==
  ASSUME NEW s, IsSeq(s), NEW e
  PROVE  /\ IsSeq(Append(s, e)) /\ Len(Append(s, e)) = Len(s) + 1
         /\ Append(s, e)[Len(s) + 1] = e /\ \A i \in 1 .. Len(s) : Append(s, e)[i] = s[i]
<1>1. PICK S : s \in Seq(S)
  BY DEF IsSeq
<1> DEFINE U == S \cup {e}
<1>2. s \in Seq(U) /\ e \in U
  BY <1>1
<1> HIDE DEF U
<1>3. Append(s, e) \in Seq(U)
  BY <1>2
<1> QED  BY <1>2, <1>3 DEF IsSeq

LEMMA Tailed ==
  ASSUME NEW s, IsSeq(s), s # << >>
  PROVE  /\ IsSeq(Tail(s)) /\ Len(s) >= 1 /\ Len(Tail(s)) = Len(s) - 1 /\ Head(s) = s[1]
         /\ \A i \in 1 .. Len(s) - 1 : Tail(s)[i] = s[i + 1]
<1>1. PICK S : s \in Seq(S)
  BY DEF IsSeq
<1>2. Tail(s) \in Seq(S)
  BY <1>1
<1> QED  BY <1>1, <1>2 DEF IsSeq

LEMMA Joined ==
  ASSUME NEW s, IsSeq(s), NEW t, IsSeq(t)
  PROVE  /\ IsSeq(s \o t) /\ Len(s \o t) = Len(s) + Len(t)
         /\ \A i \in 1 .. Len(s) : (s \o t)[i] = s[i]
         /\ \A i \in 1 .. Len(t) : (s \o t)[Len(s) + i] = t[i]
<1>1. PICK S : s \in Seq(S)
  BY DEF IsSeq
<1>2. PICK T : t \in Seq(T)
  BY DEF IsSeq
<1> DEFINE U == S \cup T
<1>3. s \in Seq(U) /\ t \in Seq(U)
  BY <1>1, <1>2
<1> HIDE DEF U
<1>4. s \o t \in Seq(U)
  BY <1>3
<1> QED  BY <1>3, <1>4 DEF IsSeq

LEMMA SameSeq ==
  ASSUME NEW s, IsSeq(s), NEW t, IsSeq(t), Len(s) = Len(t), \A i \in 1 .. Len(s) : s[i] = t[i]
  PROVE  s = t
<1>1. PICK S : s \in Seq(S)
  BY DEF IsSeq
<1>2. PICK T : t \in Seq(T)
  BY DEF IsSeq
<1> DEFINE U == S \cup T
<1>3. s \in Seq(U) /\ t \in Seq(U)
  BY <1>1, <1>2
<1> HIDE DEF U
<1> QED  BY <1>3, SeqEqual

\* The elements of s but those from the f + 1st to the t-th.
LEMMA CutOut ==
  ASSUME NEW s, IsSeq(s), NEW f \in Nat, NEW t \in Nat, f <= t, t <= Len(s)
  PROVE  LET r == SubSeq(s, 1, f) \o SubSeq(s, t + 1, Len(s))
         IN /\ IsSeq(r) /\ Len(r) = Len(s) - (t - f)
            /\ \A i \in 1 .. f : r[i] = s[i]
            /\ \A i \in f + 1 .. Len(r) : r[i] = s[i + (t - f)]
<1> DEFINE a == SubSeq(s, 1, f)
           b == SubSeq(s, t + 1, Len(s))
<1>1. PICK S : s \in Seq(S)
  BY DEF IsSeq
<1>2. Len(s) \in Nat
  BY Lengths
<1>3. IsSeq(a) /\ Len(a) = f /\ \A i \in 1 .. f : a[i] = s[i]
  <2>1. a \in Seq(S) /\ Len(a) = f /\ \A i \in 1 .. f : a[i] = s[i]
    BY <1>1, <1>2
  <2> QED  BY <2>1 DEF IsSeq
<1>4. IsSeq(b) /\ Len(b) = Len(s) - t /\ \A i \in 1 .. Len(s) - t : b[i] = s[i + t]
  <2>1. b \in Seq(S) /\ Len(b) = Len(s) - t
    BY <1>1, <1>2
  <2>2. \A i \in 1 .. Len(s) - t : b[i] = s[i + t]
    BY <1>1, <1>2
  <2> QED  BY <2>1, <2>2 DEF IsSeq
<1> HIDE DEF a, b
<1> DEFINE r == a \o b
<1>5. /\ IsSeq(r) /\ Len(r) = Len(a) + Len(b)
      /\ \A i \in 1 .. Len(a) : r[i] = a[i]
      /\ \A i \in 1 .. Len(b) : r[Len(a) + i] = b[i]
  <2>1. IsSeq(a) /\ IsSeq(b)
    BY <1>3, <1>4
  <2> QED  BY <2>1, Joined
<1> HIDE DEF r
<1>6. ASSUME NEW i \in f + 1 .. Len(r) PROVE r[i] = s[i + (t - f)]
  <2>1. i - f \in 1 .. Len(s) - t /\ i - f \in 1 .. Len(b) /\ i = Len(a) + (i - f) /\ (i - f) + t = i + (t - f)
    BY <1>2, <1>3, <1>4, <1>5
  <2> QED  BY <2>1, <1>4, <1>5
<1>7. IsSeq(r) /\ Len(r) = Len(s) - (t - f) /\ \A i \in 1 .. f : r[i] = s[i]
  BY <1>2, <1>3, <1>4, <1>5
<1> QED  BY <1>6, <1>7 DEF r, a, b

-----------------------------------------------------------------------------
(* The length of the contents is a number, and a word is spelled with at    *)
(* least one phone, wherever it stands.                                     *)
Sums(f, s, n) == f = [i \in 0 .. n |-> IF i = 0 THEN 0 ELSE f[i - 1] + s[i].len]

LEMMA SumsExist ==
  ASSUME NEW s, NEW n \in Nat
  PROVE  \E f : Sums(f, s, n)
<1> DEFINE Bad == {i \in Nat : ~\E f : Sums(f, s, i)}
<1> SUFFICES ASSUME Bad # {} PROVE FALSE
  OBVIOUS
<1>1. PICK m \in Bad : \A k \in Bad : m <= k
  <2>1. Bad \subseteq Nat
    OBVIOUS
  <2> HIDE DEF Bad
  <2> QED  BY <2>1, LeastOf
<1>2. m # 0
  <2>1. Sums([i \in 0 .. 0 |-> 0], s, 0)
    BY DEF Sums
  <2> QED  BY <2>1, <1>1
<1>3. m - 1 \in Nat /\ m - 1 \notin Bad
  BY <1>1, <1>2
<1>4. PICK g : Sums(g, s, m - 1)
  BY <1>3
<1> DEFINE f == [i \in 0 .. m |-> IF i = 0 THEN 0 ELSE g[i - 1] + s[i].len]
<1>5. \A i \in 0 .. m - 1 : f[i] = g[i]
  <2> SUFFICES ASSUME NEW i \in 0 .. m - 1 PROVE f[i] = g[i]
    OBVIOUS
  <2>1. g[i] = IF i = 0 THEN 0 ELSE g[i - 1] + s[i].len
    BY <1>4 DEF Sums
  <2>2. i \in 0 .. m
    BY <1>3
  <2> QED  BY <2>1, <2>2, Zenon
<1>6. Sums(f, s, m)
  <2>1. \A i \in 0 .. m : i # 0 => i - 1 \in 0 .. m - 1
    BY <1>1
  <2>2. \A i \in 0 .. m : i # 0 => f[i - 1] = g[i - 1]
    <3> HIDE DEF f
    <3> QED BY <2>1, <1>5
  <2>3. f = [i \in 0 .. m |-> IF i = 0 THEN 0 ELSE f[i - 1] + s[i].len]
    BY <2>2, Zenon
  <2> HIDE DEF f
  <2> QED  BY <2>3 DEF Sums
<1> QED  BY <1>1, <1>6

LEMMA SumTyped ==
  ASSUME NEW f, NEW s, NEW n \in Nat, Sums(f, s, n), \A i \in 1 .. n : s[i].len \in Nat
  PROVE  f[n] \in Nat
<1> DEFINE Bad == {i \in 0 .. n : f[i] \notin Nat}
<1>1. ASSUME Bad # {} PROVE FALSE
  <2>1. PICK m \in Bad : \A k \in Bad : m <= k
    <3>1. Bad \subseteq Nat
      OBVIOUS
    <3> HIDE DEF Bad
    <3> QED  BY <3>1, <1>1, LeastOf
  <2>2. m \in 0 .. n /\ f[m] \notin Nat
    BY <2>1
  <2>3. f[m] = IF m = 0 THEN 0 ELSE f[m - 1] + s[m].len
    BY <2>2 DEF Sums
  <2>4. m # 0 => m \in 1 .. n /\ f[m - 1] \in Nat
    BY <2>1, <2>2
  <2> QED  BY <2>2, <2>3, <2>4
<1>2. n \in 0 .. n
  OBVIOUS
<1> QED  BY <1>1, <1>2

LEMMA LenSumTyped ==
  ASSUME NEW s, IsSeq(s), \A i \in 1 .. Len(s) : s[i].len \in Nat
  PROVE  LenSum(s) \in Nat
<1> DEFINE n == Len(s)
           g == CHOOSE f : Sums(f, s, n)
<1>1. n \in Nat
  BY Lengths
<1>2. Sums(g, s, n)
  <2>1. \E f : Sums(f, s, n)
    BY <1>1, SumsExist
  <2> QED  BY <2>1, Zenon
<1>3. LenSum(s) = g[n]
  BY Zenon DEF LenSum, Sums
<1> HIDE DEF n, g
<1>4. \A i \in 1 .. n : s[i].len \in Nat
  BY DEF n
<1> QED  BY <1>1, <1>2, <1>3, <1>4, SumTyped

\* A sequence of sequences, and what its recursion computes.
Flattens(f, t, n) == f = [i \in 1 .. n |-> IF i = 1 THEN t[i] ELSE f[i - 1] \o t[i]]

LEMMA FlatExists ==
  ASSUME NEW t, NEW n \in Nat
  PROVE  \E f : Flattens(f, t, n)
<1> DEFINE Bad == {i \in Nat : ~\E f : Flattens(f, t, i)}
<1> SUFFICES ASSUME Bad # {} PROVE FALSE
  OBVIOUS
<1>1. PICK m \in Bad : \A k \in Bad : m <= k
  <2>1. Bad \subseteq Nat
    OBVIOUS
  <2> HIDE DEF Bad
  <2> QED  BY <2>1, LeastOf
<1>2. m # 0
  <2>1. Flattens([i \in 1 .. 0 |-> 0], t, 0)
    BY DEF Flattens
  <2> QED  BY <2>1, <1>1
<1>3. m - 1 \in Nat /\ m - 1 \notin Bad
  BY <1>1, <1>2
<1>4. PICK g : Flattens(g, t, m - 1)
  BY <1>3
<1> DEFINE f == [i \in 1 .. m |-> IF i = 1 THEN t[i] ELSE g[i - 1] \o t[i]]
<1>5. \A i \in 1 .. m - 1 : f[i] = g[i]
  <2> SUFFICES ASSUME NEW i \in 1 .. m - 1 PROVE f[i] = g[i]
    OBVIOUS
  <2>1. g[i] = IF i = 1 THEN t[i] ELSE g[i - 1] \o t[i]
    BY <1>4 DEF Flattens
  <2>2. i \in 1 .. m
    BY <1>3
  <2> QED  BY <2>1, <2>2
<1>6. Flattens(f, t, m)
  <2>1. \A i \in 1 .. m : i # 1 => i - 1 \in 1 .. m - 1
    BY <1>1
  <2>2. \A i \in 1 .. m : i # 1 => f[i - 1] = g[i - 1]
    <3> HIDE DEF f
    <3> QED BY <2>1, <1>5
  <2>3. f = [i \in 1 .. m |-> IF i = 1 THEN t[i] ELSE f[i - 1] \o t[i]]
    BY <2>2
  <2> HIDE DEF f
  <2> QED  BY <2>3 DEF Flattens
<1> QED  BY <1>1, <1>6

LEMMA FlatSeq ==
  ASSUME NEW t, IsSeq(t), \A i \in 1 .. Len(t) : IsSeq(t[i])
  PROVE  IsSeq(FlattenSeq(t))
<1>1. CASE Len(t) = 0
  BY <1>1 DEF FlattenSeq
<1>2. CASE Len(t) # 0
  <2> DEFINE n == Len(t)
             g == CHOOSE f : Flattens(f, t, n)
             Bad == {i \in 1 .. n : ~IsSeq(g[i])}
  <2>1. n \in Nat /\ n \in 1 .. n
    BY <1>2, Lengths
  <2>2. Flattens(g, t, n)
    <3>1. \E f : Flattens(f, t, n)
      BY <2>1, FlatExists
    <3> QED  BY <3>1, Zenon
  <2>3. FlattenSeq(t) = g[n]
    BY <1>2, Zenon DEF FlattenSeq, Flattens
  <2> HIDE DEF g
  <2>4. ASSUME Bad # {} PROVE FALSE
    <3>1. PICK m \in Bad : \A k \in Bad : m <= k
      <4>1. Bad \subseteq Nat
        OBVIOUS
      <4> HIDE DEF Bad
      <4> QED  BY <4>1, <2>4, LeastOf
    <3>2. m \in 1 .. n /\ ~IsSeq(g[m]) /\ IsSeq(t[m])
      BY <3>1
    <3>3. g[m] = IF m = 1 THEN t[m] ELSE g[m - 1] \o t[m]
      BY <3>2, <2>2 DEF Flattens
    <3>4. m # 1 => m - 1 \in 1 .. n /\ IsSeq(g[m - 1])
      BY <3>1, <3>2, <2>1
    <3>5. m # 1 => IsSeq(g[m - 1] \o t[m])
      BY <3>2, <3>4, Joined
    <3> QED  BY <3>2, <3>3, <3>5
  <2> QED  BY <2>1, <2>3, <2>4
<1> QED  BY <1>1, <1>2

LEMMA PairIs == ASSUME NEW a, NEW b PROVE IsSeq(<< a, b >>) /\ Len(<< a, b >>) = 2
<1>1. << a, b >> \in Seq({a, b})
  OBVIOUS
<1> QED  BY <1>1 DEF IsSeq

LEMMA OneIs == ASSUME NEW a PROVE IsSeq(<< a >>) /\ Len(<< a >>) = 1 /\ << a >>[1] = a
<1>1. << a >> \in Seq({a})
  OBVIOUS
<1> QED  BY <1>1 DEF IsSeq

LEMMA SpelledIs ==
  ASSUME NEW pos, NEW item, item.phones \in Seq(STRING)
  PROVE  IsSeq(Spelled(pos, item)) /\ Len(Spelled(pos, item)) >= 2
<1> DEFINE content == item.phones
           begin(n) == << Sym(pos, "ACC", SylAccent(item.acc, StressAfter(content, n))),
                          Sym(pos, "POS", item.tag) >>
           phone(n) == Sym(pos, "PH", content[n])
           of(n) == IF content[n] \in StressMarks THEN << >>
                    ELSE IF content[n] = "-" THEN << phone(n) >> \o begin(n) ELSE << phone(n) >>
           t == [n \in DOMAIN content |-> of(n)]
           rest == FlattenSeq(t)
<1>1. Spelled(pos, item) = begin(0) \o rest
  BY DEF Spelled
<1>2. \A n : IsSeq(begin(n)) /\ Len(begin(n)) = 2
  BY PairIs
<1>3. \A n : IsSeq(of(n))
  <2> SUFFICES ASSUME NEW n PROVE IsSeq(of(n))
    OBVIOUS
  <2>1. IsSeq(<< phone(n) >>)
    BY OneIs
  <2> HIDE DEF phone, begin
  <2>2. IsSeq(<< phone(n) >> \o begin(n))
    BY <2>1, <1>2, Joined
  <2> QED  BY <2>1, <2>2, Empty
<1> HIDE DEF of
<1>4. IsSeq(t) /\ Len(t) = Len(content) /\ \A i \in 1 .. Len(t) : t[i] = of(i)
  <2> DEFINE S == {of(i) : i \in DOMAIN content}
  <2>1. DOMAIN content = 1 .. Len(content) /\ Len(content) \in Nat
    OBVIOUS
  <2>2. \A i \in DOMAIN content : of(i) \in S
    OBVIOUS
  <2> HIDE DEF S
  <2>3. t \in Seq(S) /\ Len(t) = Len(content)
    BY <2>1, <2>2
  <2> QED  BY <2>1, <2>3 DEF IsSeq
<1> HIDE DEF t
<1>5. IsSeq(rest)
  BY <1>3, <1>4, FlatSeq
<1> DEFINE first == begin(0)
           all == first \o rest
<1>6. IsSeq(first) /\ Len(first) = 2
  BY <1>2
<1> HIDE DEF rest, first
<1>7. IsSeq(all) /\ Len(all) = Len(first) + Len(rest) /\ Len(rest) \in Nat
  BY <1>5, <1>6, Joined, Lengths
<1>8. Spelled(pos, item) = all
  BY <1>1 DEF first
<1> HIDE DEF all
<1> QED  BY <1>6, <1>7, <1>8

\* Pieces of the same lengths.
LEMMA FlatSameLen ==
  ASSUME NEW t, IsSeq(t), \A i \in 1 .. Len(t) : IsSeq(t[i]),
         NEW u, IsSeq(u), \A i \in 1 .. Len(u) : IsSeq(u[i]),
         Len(t) = Len(u), \A i \in 1 .. Len(t) : Len(t[i]) = Len(u[i])
  PROVE  Len(FlattenSeq(t)) = Len(FlattenSeq(u))
<1> DEFINE n == Len(t)
<1>1. n \in Nat /\ n = Len(u)
  BY Lengths
<1>2. CASE n = 0
  BY <1>2, Lengths DEF FlattenSeq
<1>3. CASE n # 0
  <2> DEFINE g == CHOOSE f : Flattens(f, t, n)
             h == CHOOSE f : Flattens(f, u, n)
             Good(i) == IsSeq(g[i]) /\ IsSeq(h[i]) /\ Len(g[i]) = Len(h[i])
             Bad == {i \in 1 .. n : ~Good(i)}
  <2>1. n \in 1 .. n
    BY <1>1, <1>3
  <2>2. Flattens(g, t, n) /\ Flattens(h, u, n)
    <3>1. (\E f : Flattens(f, t, n)) /\ (\E f : Flattens(f, u, n))
      BY <1>1, FlatExists
    <3> QED  BY <3>1, Zenon
  <2>3. FlattenSeq(t) = g[n]
    BY <1>3, Zenon DEF FlattenSeq, Flattens
  <2>4. FlattenSeq(u) = h[n]
    <3>1. Len(u) = n /\ Len(u) # 0
      BY <1>1, <1>3
    <3> HIDE DEF n
    <3> QED  BY <3>1, Zenon DEF FlattenSeq, Flattens
  <2> HIDE DEF g, h
  <2>5. ASSUME Bad # {} PROVE FALSE
    <3>1. PICK m \in Bad : \A k \in Bad : m <= k
      <4>1. Bad \subseteq Nat
        OBVIOUS
      <4> HIDE DEF Bad
      <4> QED  BY <4>1, <2>5, LeastOf
    <3>2. m \in 1 .. n /\ ~Good(m) /\ IsSeq(t[m]) /\ IsSeq(u[m]) /\ Len(t[m]) = Len(u[m])
      BY <3>1, <1>1
    <3>3. /\ g[m] = IF m = 1 THEN t[m] ELSE g[m - 1] \o t[m]
          /\ h[m] = IF m = 1 THEN u[m] ELSE h[m - 1] \o u[m]
      BY <3>2, <2>2 DEF Flattens
    <3>4. ASSUME m # 1
          PROVE  IsSeq(g[m - 1]) /\ IsSeq(h[m - 1]) /\ Len(g[m - 1]) = Len(h[m - 1])
      <4>1. m - 1 \in 1 .. n /\ ~(m <= m - 1)
        BY <3>2, <3>4, <1>1
      <4>2. m - 1 \notin Bad
        <5> HIDE DEF Bad
        <5> QED  BY <4>1, <3>1
      <4> QED  BY <4>1, <4>2
    <3>5. ASSUME m # 1
          PROVE  /\ IsSeq(g[m - 1] \o t[m]) /\ Len(g[m - 1] \o t[m]) = Len(g[m - 1]) + Len(t[m])
                 /\ IsSeq(h[m - 1] \o u[m]) /\ Len(h[m - 1] \o u[m]) = Len(h[m - 1]) + Len(u[m])
      <4> DEFINE a == g[m - 1]
                 b == t[m]
                 c == h[m - 1]
                 d == u[m]
      <4>1. IsSeq(a) /\ IsSeq(b) /\ IsSeq(c) /\ IsSeq(d)
        BY <3>2, <3>4, <3>5
      <4> HIDE DEF a, b, c, d
      <4>2. /\ IsSeq(a \o b) /\ Len(a \o b) = Len(a) + Len(b)
            /\ IsSeq(c \o d) /\ Len(c \o d) = Len(c) + Len(d)
        BY <4>1, Joined
      <4> QED  BY <4>2 DEF a, b, c, d
    <3>6. CASE m = 1
      BY <3>2, <3>3, <3>6
    <3>7. CASE m # 1
      <4>1. IsSeq(g[m]) /\ IsSeq(h[m])
        BY <3>3, <3>5, <3>7
      <4>2. Len(g[m]) = Len(g[m - 1]) + Len(t[m]) /\ Len(h[m]) = Len(h[m - 1]) + Len(u[m])
        BY <3>3, <3>5, <3>7
      <4> QED  BY <4>1, <4>2, <3>2, <3>4, <3>7
    <3> QED  BY <3>6, <3>7
  <2> QED  BY <2>1, <2>3, <2>4, <2>5
<1> QED  BY <1>2, <1>3

LEMMA SpelledSame ==
  ASSUME NEW p, NEW x, x.phones \in Seq(STRING), NEW q, NEW y, y.phones = x.phones
  PROVE  Len(Spelled(p, x)) = Len(Spelled(q, y))
<1> DEFINE content == x.phones
           begin(pos, item, n) == << Sym(pos, "ACC", SylAccent(item.acc, StressAfter(content, n))),
                                     Sym(pos, "POS", item.tag) >>
           phone(pos, n) == Sym(pos, "PH", content[n])
           of(pos, item, n) == IF content[n] \in StressMarks THEN << >>
                    ELSE IF content[n] = "-" THEN << phone(pos, n) >> \o begin(pos, item, n) ELSE << phone(pos, n) >>
           t == [n \in DOMAIN content |-> of(p, x, n)]
           u == [n \in DOMAIN content |-> of(q, y, n)]
<1>1. Spelled(p, x) = begin(p, x, 0) \o FlattenSeq(t)
  BY DEF Spelled
<1>2. Spelled(q, y) = begin(q, y, 0) \o FlattenSeq(u)
  <2>1. y.phones = content
    OBVIOUS
  <2> HIDE DEF content
  <2> QED  BY <2>1, Zenon DEF Spelled
<1>3. \A pos, item, n : IsSeq(begin(pos, item, n)) /\ Len(begin(pos, item, n)) = 2
  BY PairIs
<1>4. \A pos, item, n :
        /\ IsSeq(of(pos, item, n))
        /\ Len(of(pos, item, n)) = IF content[n] \in StressMarks THEN 0 ELSE IF content[n] = "-" THEN 3 ELSE 1
  <2> SUFFICES ASSUME NEW pos, NEW item, NEW n
               PROVE  /\ IsSeq(of(pos, item, n))
                      /\ Len(of(pos, item, n))
                           = IF content[n] \in StressMarks THEN 0 ELSE IF content[n] = "-" THEN 3 ELSE 1
    OBVIOUS
  <2> DEFINE a == << phone(pos, n) >>
             b == begin(pos, item, n)
             c == a \o b
  <2>1. IsSeq(a) /\ Len(a) = 1
    BY OneIs
  <2>2. IsSeq(b) /\ Len(b) = 2
    BY <1>3
  <2> HIDE DEF a, b
  <2>3. IsSeq(c) /\ Len(c) = 3
    <3>1. IsSeq(c) /\ Len(c) = Len(a) + Len(b)
      BY <2>1, <2>2, Joined
    <3> HIDE DEF c
    <3> QED  BY <3>1, <2>1, <2>2
  <2>4. of(pos, item, n) = IF content[n] \in StressMarks THEN << >> ELSE IF content[n] = "-" THEN c ELSE a
    BY DEF a, b
  <2> HIDE DEF c, of, content
  <2> QED  BY <2>1, <2>3, <2>4, Empty
<1> HIDE DEF of
<1>5. \A pos, item :
        LET s == [n \in DOMAIN content |-> of(pos, item, n)]
        IN IsSeq(s) /\ Len(s) = Len(content) /\ \A i \in 1 .. Len(content) : s[i] = of(pos, item, i)
  <2> SUFFICES ASSUME NEW pos, NEW item
               PROVE  LET s == [n \in DOMAIN content |-> of(pos, item, n)]
                      IN IsSeq(s) /\ Len(s) = Len(content) /\ \A i \in 1 .. Len(content) : s[i] = of(pos, item, i)
    OBVIOUS
  <2> DEFINE S == {of(pos, item, i) : i \in DOMAIN content}
             s == [n \in DOMAIN content |-> of(pos, item, n)]
  <2>1. DOMAIN content = 1 .. Len(content) /\ Len(content) \in Nat
    OBVIOUS
  <2>2. \A i \in DOMAIN content : of(pos, item, i) \in S
    OBVIOUS
  <2> HIDE DEF S
  <2>3. s \in Seq(S) /\ Len(s) = Len(content) /\ \A i \in 1 .. Len(content) : s[i] = of(pos, item, i)
    BY <2>1, <2>2
  <2> QED  BY <2>3 DEF IsSeq
<1>6. /\ IsSeq(t) /\ Len(t) = Len(content) /\ \A i \in 1 .. Len(content) : t[i] = of(p, x, i)
      /\ IsSeq(u) /\ Len(u) = Len(content) /\ \A i \in 1 .. Len(content) : u[i] = of(q, y, i)
  BY <1>5
<1> HIDE DEF t, u, content
<1>7. /\ \A i \in 1 .. Len(t) : IsSeq(t[i])
      /\ \A i \in 1 .. Len(u) : IsSeq(u[i])
      /\ \A i \in 1 .. Len(t) : Len(t[i]) = Len(u[i])
  BY <1>4, <1>6
<1>8. Len(FlattenSeq(t)) = Len(FlattenSeq(u)) /\ IsSeq(FlattenSeq(t)) /\ IsSeq(FlattenSeq(u))
  BY <1>6, <1>7, FlatSameLen, FlatSeq
<1> DEFINE a == begin(p, x, 0)
           b == begin(q, y, 0)
           c == FlattenSeq(t)
           d == FlattenSeq(u)
<1>9. IsSeq(a) /\ Len(a) = 2 /\ IsSeq(b) /\ Len(b) = 2
  BY <1>3
<1>10. Spelled(p, x) = a \o c /\ Spelled(q, y) = b \o d
  BY <1>1, <1>2
<1>11. IsSeq(c) /\ IsSeq(d) /\ Len(c) = Len(d)
  BY <1>8
<1> HIDE DEF a, b, c, d
<1>12. Len(a \o c) = Len(a) + Len(c) /\ Len(b \o d) = Len(b) + Len(d)
  BY <1>9, <1>11, Joined
<1> QED  BY <1>9, <1>10, <1>11, <1>12

-----------------------------------------------------------------------------
(* What the phones of the items from .. to - 1 would take when the sentence  *)
(* were parsed from there: a word has no bound of its own behind a bound.    *)
Supp(h, from, i) ==
  \E k \in from .. i - 1 : h[k + 1].kind \in Bounds /\ \A m \in k + 1 .. i - 1 : h[m + 1].kind \notin WithPhones
Cost(h, from, i) ==
  CASE h[i + 1].kind = "WORD"    -> (IF Supp(h, from, i) THEN 0 ELSE 1) + Len(Spelled(0, h[i + 1]))
    [] h[i + 1].kind = "SBEG"    -> 2
    [] h[i + 1].kind \in Bounds \ {"SBEG"} -> 1
    [] OTHER                     -> 0
Measures(f, h, from, to) ==
  /\ f \in [from .. to -> Nat] /\ f[from] = 0
  /\ \A i \in from .. to - 1 : f[i] + Cost(h, from, i) <= f[i + 1]
  /\ \A i, j \in from .. to : i <= j => f[i] <= f[j]

ItemOK(x) ==
  /\ {"id", "kind", "phones", "len"} \subseteq DOMAIN x
  /\ x.id \in Nat \ {0} /\ x.len \in Nat /\ x.phones \in Seq(STRING)
  /\ x.kind # "SYLL" /\ (x.kind \in Bounds => x.len = 0)

LEMMA CostTyped ==
  ASSUME NEW h, NEW from, NEW i, ItemOK(h[i + 1])
  PROVE  Cost(h, from, i) \in Nat
<1>1. IsSeq(Spelled(0, h[i + 1]))
  BY SpelledIs DEF ItemOK
<1>2. Len(Spelled(0, h[i + 1])) \in Nat
  BY <1>1, Lengths
<1> QED  BY <1>2 DEF Cost, Bounds

LEMMA SuppNext ==
  ASSUME NEW h, NEW from \in Nat, NEW i \in Nat, from <= i
  PROVE  Supp(h, from, i + 1) <=> IF h[i + 1].kind \in WithPhones THEN h[i + 1].kind \in Bounds ELSE Supp(h, from, i)
<1>1. CASE h[i + 1].kind \in WithPhones
  <2>1. ASSUME NEW k \in from .. i, \A m \in k + 1 .. i : h[m + 1].kind \notin WithPhones
        PROVE  k = i
    BY <1>1, <2>1
  <2> QED  BY <1>1, <2>1 DEF Supp
<1>2. CASE h[i + 1].kind \notin WithPhones
  <2>1. h[i + 1].kind \notin Bounds
    BY <1>2 DEF WithPhones
  <2>2. ASSUME Supp(h, from, i) PROVE Supp(h, from, i + 1)
    <3>1. PICK k \in from .. i - 1 : h[k + 1].kind \in Bounds /\ \A m \in k + 1 .. i - 1 : h[m + 1].kind \notin WithPhones
      BY <2>2 DEF Supp
    <3>2. \A m \in k + 1 .. i : h[m + 1].kind \notin WithPhones
      BY <3>1, <1>2
    <3> QED  BY <3>1, <3>2 DEF Supp
  <2>3. ASSUME Supp(h, from, i + 1) PROVE Supp(h, from, i)
    <3>1. PICK k \in from .. i : h[k + 1].kind \in Bounds /\ \A m \in k + 1 .. i : h[m + 1].kind \notin WithPhones
      BY <2>3 DEF Supp
    <3>2. k # i
      BY <3>1, <2>1
    <3> QED  BY <3>1, <3>2 DEF Supp
  <2> QED  BY <1>2, <2>2, <2>3
<1> QED  BY <1>1, <1>2

LEMMA SuppNone == ASSUME NEW h, NEW i \in Nat PROVE ~Supp(h, i, i)
BY DEF Supp

\* The items of h from .. to - 1 stand in g, d places before.
Moved(h, g, from, to, d) ==
  \A i \in from .. to - 1 :
    ItemOK(h[i + 1]) /\ g[i - d + 1].kind = h[i + 1].kind /\ g[i - d + 1].phones = h[i + 1].phones

LEMMA SuppMoved ==
  ASSUME NEW h, NEW g, NEW from \in Nat, NEW to \in Nat, NEW d \in Nat, d <= from, Moved(h, g, from, to, d),
         NEW i \in from .. to
  PROVE  Supp(g, from - d, i - d) <=> Supp(h, from, i)
<1>1. \A k \in from .. to - 1 : g[k - d + 1].kind = h[k + 1].kind
  BY DEF Moved
<1>2. ASSUME Supp(h, from, i) PROVE Supp(g, from - d, i - d)
  <2>1. PICK k \in from .. i - 1 : h[k + 1].kind \in Bounds /\ \A m \in k + 1 .. i - 1 : h[m + 1].kind \notin WithPhones
    BY <1>2 DEF Supp
  <2>2. k - d \in from - d .. i - d - 1 /\ g[k - d + 1].kind \in Bounds
    BY <1>1, <2>1
  <2>3. ASSUME NEW m \in k - d + 1 .. i - d - 1 PROVE g[m + 1].kind \notin WithPhones
    <3>1. m + d \in k + 1 .. i - 1 /\ m + d \in from .. to - 1 /\ (m + d) - d + 1 = m + 1
      OBVIOUS
    <3> QED  BY <3>1, <1>1, <2>1
  <2> QED  BY <2>2, <2>3 DEF Supp
<1>3. ASSUME Supp(g, from - d, i - d) PROVE Supp(h, from, i)
  <2>1. PICK k \in from - d .. i - d - 1 :
          g[k + 1].kind \in Bounds /\ \A m \in k + 1 .. i - d - 1 : g[m + 1].kind \notin WithPhones
    BY <1>3 DEF Supp
  <2>2. k + d \in from .. i - 1 /\ k + d \in from .. to - 1 /\ (k + d) - d + 1 = k + 1
    OBVIOUS
  <2>3. h[k + d + 1].kind \in Bounds
    BY <1>1, <2>1, <2>2
  <2>4. ASSUME NEW m \in k + d + 1 .. i - 1 PROVE h[m + 1].kind \notin WithPhones
    <3>1. m - d \in k + 1 .. i - d - 1 /\ m \in from .. to - 1
      OBVIOUS
    <3> QED  BY <3>1, <1>1, <2>1
  <2> QED  BY <2>2, <2>3, <2>4 DEF Supp
<1> QED  BY <1>2, <1>3

LEMMA CostMoved ==
  ASSUME NEW h, NEW g, NEW from \in Nat, NEW to \in Nat, NEW d \in Nat, d <= from, Moved(h, g, from, to, d),
         NEW i \in from .. to - 1
  PROVE  Cost(g, from - d, i - d) = Cost(h, from, i)
<1> DEFINE x == h[i + 1]
           y == g[i - d + 1]
<1>1. y.kind = x.kind /\ y.phones = x.phones
  BY DEF Moved
<1>2. Supp(g, from - d, i - d) <=> Supp(h, from, i)
  <2>1. i \in from .. to
    OBVIOUS
  <2> QED  BY <2>1, SuppMoved
<1>3. Len(Spelled(0, x)) = Len(Spelled(0, y))
  <2>1. x.phones \in Seq(STRING) /\ y.phones = x.phones
    BY <1>1 DEF ItemOK, Moved
  <2> HIDE DEF x, y
  <2> QED  BY <2>1, SpelledSame
<1> DEFINE v == Cost(g, from - d, i - d)
           w == Cost(h, from, i)
<1>4. w = CASE x.kind = "WORD"    -> (IF Supp(h, from, i) THEN 0 ELSE 1) + Len(Spelled(0, x))
            [] x.kind = "SBEG"    -> 2
            [] x.kind \in Bounds \ {"SBEG"} -> 1
            [] OTHER              -> 0
  BY DEF Cost
<1>5. v = CASE y.kind = "WORD"    -> (IF Supp(g, from - d, i - d) THEN 0 ELSE 1) + Len(Spelled(0, y))
            [] y.kind = "SBEG"    -> 2
            [] y.kind \in Bounds \ {"SBEG"} -> 1
            [] OTHER              -> 0
  BY DEF Cost
<1> HIDE DEF v, w, x, y
<1>6. v = w
  BY <1>1, <1>2, <1>3, <1>4, <1>5 DEF Bounds
<1> QED  BY <1>6 DEF v, w

LEMMA CostsMoved ==
  ASSUME NEW h, NEW g, NEW from \in Nat, NEW to \in Nat, NEW d \in Nat, d <= from, Moved(h, g, from, to, d)
  PROVE  \A j \in from .. to - 1 : Cost(g, from - d, j - d) = Cost(h, from, j)
BY CostMoved

LEMMA MeasureStart ==
  ASSUME NEW h, NEW from \in Nat
  PROVE  \E f : Measures(f, h, from, from)
<1> DEFINE f == [i \in from .. from |-> 0]
<1>1. f \in [from .. from -> Nat] /\ f[from] = 0 /\ \A i \in from .. from : f[i] = 0
  OBVIOUS
<1> HIDE DEF f
<1>2. Measures(f, h, from, from)
  BY <1>1 DEF Measures
<1> QED  BY <1>2

LEMMA MeasureNext ==
  ASSUME NEW h, NEW from \in Nat, NEW to \in Nat, from <= to, NEW f, Measures(f, h, from, to), ItemOK(h[to + 1])
  PROVE  \E g : /\ Measures(g, h, from, to + 1) /\ g[to + 1] = f[to] + Cost(h, from, to)
                /\ \A i \in from .. to : g[i] = f[i]
<1> DEFINE c == Cost(h, from, to)
           g == [i \in from .. to + 1 |-> IF i = to + 1 THEN f[to] + c ELSE f[i]]
<1>1. c \in Nat
  BY CostTyped
<1>2. f \in [from .. to -> Nat] /\ to \in from .. to /\ f[to] \in Nat
  BY DEF Measures
<1> HIDE DEF c
<1>3. g \in [from .. to + 1 -> Nat] /\ g[to + 1] = f[to] + c /\ \A i \in from .. to : g[i] = f[i]
  BY <1>1, <1>2
<1> HIDE DEF g
<1>4. \A i \in from .. to + 1 - 1 : g[i] + Cost(h, from, i) <= g[i + 1]
  <2> SUFFICES ASSUME NEW i \in from .. to PROVE g[i] + Cost(h, from, i) <= g[i + 1]
    OBVIOUS
  <2>1. CASE i = to
    <3>1. g[i] = f[to] /\ g[i + 1] = f[to] + c
      BY <1>3, <2>1
    <3> QED  BY <3>1, <2>1, <1>1, <1>2 DEF c
  <2>2. CASE i # to
    <3>1. i \in from .. to - 1 /\ i + 1 \in from .. to
      BY <2>2
    <3>2. g[i] = f[i] /\ g[i + 1] = f[i + 1]
      BY <3>1, <1>3
    <3> QED  BY <3>1, <3>2 DEF Measures
  <2> QED  BY <2>1, <2>2
<1>5. \A i, j \in from .. to + 1 : i <= j => g[i] <= g[j]
  <2> SUFFICES ASSUME NEW i \in from .. to + 1, NEW j \in from .. to + 1, i <= j PROVE g[i] <= g[j]
    OBVIOUS
  <2>1. CASE j = to + 1
    <3>1. CASE i = to + 1
      BY <3>1, <2>1, <1>3
    <3>2. CASE i # to + 1
      <4>1. i \in from .. to /\ f[i] \in Nat /\ f[i] <= f[to]
        BY <3>2, <1>2 DEF Measures
      <4>2. g[i] = f[i] /\ g[j] = f[to] + c
        BY <4>1, <2>1, <1>3
      <4> QED  BY <4>1, <4>2, <1>1, <1>2
    <3> QED  BY <3>1, <3>2
  <2>2. CASE j # to + 1
    <3>1. i \in from .. to /\ j \in from .. to
      BY <2>2
    <3>2. g[i] = f[i] /\ g[j] = f[j]
      BY <3>1, <1>3
    <3> QED  BY <3>1, <3>2 DEF Measures
  <2> QED  BY <2>1, <2>2
<1>6. g[from] = 0
  <2>1. from \in from .. to
    OBVIOUS
  <2> QED  BY <2>1, <1>3 DEF Measures
<1>7. Measures(g, h, from, to + 1)
  BY <1>3, <1>4, <1>5, <1>6 DEF Measures
<1> QED  BY <1>3, <1>7 DEF c

LEMMA MeasureMoved ==
  ASSUME NEW h, NEW g, NEW from \in Nat, NEW to \in Nat, from <= to, NEW d \in Nat, d <= from,
         Moved(h, g, from, to, d),
         NEW f, Measures(f, h, from, to)
  PROVE  \E e : Measures(e, g, from - d, to - d) /\ \A i \in from .. to : e[i - d] = f[i]
<1>0. \A j \in from .. to - 1 : Cost(g, from - d, j - d) = Cost(h, from, j)
  BY CostsMoved
<1> DEFINE e == [i \in from - d .. to - d |-> f[i + d]]
<1>1. \A i \in from - d .. to - d : i + d \in from .. to
  OBVIOUS
<1>2. \A i \in from .. to : f[i] \in Nat
  BY DEF Measures
<1>3. e \in [from - d .. to - d -> Nat] /\ \A i \in from - d .. to - d : e[i] = f[i + d]
  BY <1>1, <1>2
<1> HIDE DEF e
<1>4. ASSUME NEW i \in from .. to PROVE e[i - d] = f[i]
  <2>1. i - d \in from - d .. to - d /\ (i - d) + d = i
    OBVIOUS
  <2> QED  BY <2>1, <1>3
<1>5. ASSUME NEW i \in from - d .. to - d - 1 PROVE e[i] + Cost(g, from - d, i) <= e[i + 1]
  <2> DEFINE j == i + d
  <2>1. j \in from .. to - 1 /\ j + 1 \in from .. to /\ j \in from .. to /\ j - d = i /\ (j + 1) - d = i + 1
    OBVIOUS
  <2> HIDE DEF j
  <2>3. Cost(g, from - d, j - d) = Cost(h, from, j)
    BY <2>1, <1>0
  <2>4. e[j - d] = f[j] /\ e[(j + 1) - d] = f[j + 1]
    BY <2>1, <1>4
  <2>5. f[j] + Cost(h, from, j) <= f[j + 1]
    BY <2>1 DEF Measures
  <2> QED  BY <2>1, <2>3, <2>4, <2>5
<1>6. ASSUME NEW i \in from - d .. to - d, NEW j \in from - d .. to - d, i <= j PROVE e[i] <= e[j]
  <2>1. i + d \in from .. to /\ j + d \in from .. to /\ i + d <= j + d
    BY <1>6
  <2>2. f[i + d] <= f[j + d]
    BY <2>1 DEF Measures
  <2> QED  BY <2>2, <1>3
<1>7. e[from - d] = 0
  <2>1. from \in from .. to
    OBVIOUS
  <2> QED  BY <2>1, <1>4 DEF Measures
<1>8. Measures(e, g, from - d, to - d)
  BY <1>3, <1>5, <1>6, <1>7 DEF Measures
<1> QED  BY <1>4, <1>8

-----------------------------------------------------------------------------
(* Windows: what fits, and where no sentence ends.                           *)
NoEnd(h, from, to) == \A i \in from .. to - 1 : h[i + 1].kind \notin SentEnd
Sized(h, from, to, most) == \E f : Measures(f, h, from, to) /\ f[to] <= most

\* The left context, of which rd items are looked at and gave n phones.
Context(h, start, rd, n) ==
  \E f : Measures(f, h, 0, start) /\ f[start] <= SpPhonCap /\ (rd <= start => n <= f[rd])

LEMMA MovedPart ==
  ASSUME NEW h, NEW g, NEW from \in Nat, NEW to \in Nat, NEW d \in Nat, Moved(h, g, from, to, d),
         NEW a \in Nat, NEW b \in Nat, from <= a, b <= to
  PROVE  Moved(h, g, a, b, d)
BY DEF Moved

LEMMA NoEndMoved ==
  ASSUME NEW h, NEW g, NEW from \in Nat, NEW to \in Nat, NEW d \in Nat, d <= from, Moved(h, g, from, to, d),
         NoEnd(h, from, to)
  PROVE  NoEnd(g, from - d, to - d)
<1> SUFFICES ASSUME NEW i \in from - d .. to - d - 1 PROVE g[i + 1].kind \notin SentEnd
  BY DEF NoEnd
<1>1. i + d \in from .. to - 1 /\ (i + d) - d = i
  OBVIOUS
<1>2. g[(i + d) - d + 1].kind = h[(i + d) + 1].kind
  BY <1>1 DEF Moved
<1>3. h[(i + d) + 1].kind \notin SentEnd
  BY <1>1 DEF NoEnd
<1> QED  BY <1>1, <1>2, <1>3

LEMMA SizedMoved ==
  ASSUME NEW h, NEW g, NEW from \in Nat, NEW to \in Nat, from <= to, NEW d \in Nat, d <= from,
         Moved(h, g, from, to, d), NEW most, Sized(h, from, to, most)
  PROVE  Sized(g, from - d, to - d, most)
<1>1. PICK f : Measures(f, h, from, to) /\ f[to] <= most
  BY DEF Sized
<1>2. PICK e : Measures(e, g, from - d, to - d) /\ \A i \in from .. to : e[i - d] = f[i]
  BY <1>1, MeasureMoved
<1>3. e[to - d] = f[to]
  BY <1>2
<1> QED  BY <1>1, <1>2, <1>3 DEF Sized

LEMMA ContextMoved ==
  ASSUME NEW h, NEW g, NEW start \in Nat, Moved(h, g, 0, start, 0), NEW rd \in Nat, NEW n, Context(h, start, rd, n)
  PROVE  Context(g, start, rd, n)
<1>1. PICK f : Measures(f, h, 0, start) /\ f[start] <= SpPhonCap /\ (rd <= start => n <= f[rd])
  BY DEF Context
<1>2. PICK e : Measures(e, g, 0 - 0, start - 0) /\ \A i \in 0 .. start : e[i - 0] = f[i]
  BY <1>1, MeasureMoved
<1>3. Measures(e, g, 0, start) /\ \A i \in 0 .. start : e[i] = f[i]
  BY <1>2
<1>4. e[start] = f[start] /\ (rd <= start => e[rd] = f[rd])
  BY <1>3
<1> QED  BY <1>1, <1>3, <1>4 DEF Context

LEMMA SizedNothing == ASSUME NEW h, NEW from \in Nat, NEW most \in Nat PROVE Sized(h, from, from, most)
<1>1. PICK f : Measures(f, h, from, from)
  BY MeasureStart
<1>2. f[from] = 0
  BY <1>1 DEF Measures
<1> QED  BY <1>1, <1>2 DEF Sized

LEMMA SizedMost ==
  ASSUME NEW h, NEW from \in Nat, NEW to \in Nat, from <= to, NEW m \in Int, NEW n \in Int, m <= n, Sized(h, from, to, m)
  PROVE  Sized(h, from, to, n)
<1>1. PICK f : Measures(f, h, from, to) /\ f[to] <= m
  BY DEF Sized
<1>2. f[to] \in Nat
  BY <1>1 DEF Measures
<1>3. f[to] <= n
  BY <1>1, <1>2
<1> QED  BY <1>1, <1>3 DEF Sized

LEMMA SizedNext ==
  ASSUME NEW h, NEW from \in Nat, NEW to \in Nat, from <= to, ItemOK(h[to + 1]), NEW m \in Int, NEW c \in Int,
         Sized(h, from, to, m), Cost(h, from, to) <= c
  PROVE  Sized(h, from, to + 1, m + c)
<1>1. PICK f : Measures(f, h, from, to) /\ f[to] <= m
  BY DEF Sized
<1>2. PICK g : Measures(g, h, from, to + 1) /\ g[to + 1] = f[to] + Cost(h, from, to)
  BY <1>1, MeasureNext
<1>3. f[to] \in Nat /\ Cost(h, from, to) \in Nat
  BY <1>1, CostTyped DEF Measures
<1>4. g[to + 1] <= m + c
  BY <1>1, <1>2, <1>3
<1> QED  BY <1>2, <1>4 DEF Sized

LEMMA ContextStarts == ASSUME NEW h, NEW start \in Nat, Sized(h, 0, start, SpPhonCap) PROVE Context(h, start, 0, 0)
<1>1. PICK f : Measures(f, h, 0, start) /\ f[start] <= SpPhonCap
  BY DEF Sized
<1>2. f[0] = 0
  BY <1>1 DEF Measures
<1> QED  BY <1>1, <1>2 DEF Context

LEMMA ContextSized == ASSUME NEW h, NEW start, NEW rd, NEW n, Context(h, start, rd, n) PROVE Sized(h, 0, start, SpPhonCap)
BY DEF Context, Sized

\* In the context there is room for the next item, if it adds no more than it costs.
LEMMA ContextNext ==
  ASSUME NEW h, NEW start \in Nat, NEW rd \in Nat, NEW n \in Int, Context(h, start, rd, n),
         NEW c \in Int, rd < start => c <= Cost(h, 0, rd), ItemOK(h[rd + 1])
  PROVE  Context(h, start, rd + 1, n + c) /\ (rd < start => n + c <= SpPhonCap)
<1>1. PICK f : Measures(f, h, 0, start) /\ f[start] <= SpPhonCap /\ (rd <= start => n <= f[rd])
  BY DEF Context
<1>2. ASSUME rd < start PROVE n + c <= f[rd + 1] /\ n + c <= SpPhonCap
  <2>1. rd \in 0 .. start - 1 /\ rd \in 0 .. start /\ rd + 1 \in 0 .. start /\ start \in 0 .. start
    BY <1>2
  <2>2. f[rd] \in Nat /\ f[rd + 1] \in Nat /\ f[start] \in Nat /\ Cost(h, 0, rd) \in Nat
    BY <1>1, <2>1, CostTyped DEF Measures
  <2>3. f[rd] + Cost(h, 0, rd) <= f[rd + 1] /\ f[rd + 1] <= f[start]
    BY <1>1, <2>1 DEF Measures
  <2>4. n <= f[rd] /\ c <= Cost(h, 0, rd) /\ SpPhonCap \in Nat /\ f[start] <= SpPhonCap
    BY <1>1, <1>2, SpAssumption
  <2> QED  BY <2>2, <2>3, <2>4
<1>3. rd + 1 <= start => n + c <= f[rd + 1]
  BY <1>2
<1> QED  BY <1>1, <1>2, <1>3 DEF Context

-----------------------------------------------------------------------------
(* Sentences: a sentence is open before the k-th waiting item if it is begun *)
(* behind the b-th, or one was open there (flag), and has not ended.         *)
OpenBefore(w, b, flag, k) ==
  \/ \E j \in b + 1 .. k - 1 : w[j].kind = "SBEG" /\ \A m \in j + 1 .. k - 1 : w[m].kind \notin SentEnd
  \/ flag /\ \A m \in b + 1 .. k - 1 : w[m].kind \notin SentEnd
GrammarOf(w, b, flag, opened) ==
  /\ \A k \in b + 1 .. Len(w) : w[k].kind \in {"SBEG", "TERM"} \/ OpenBefore(w, b, flag, k)
  /\ opened => OpenBefore(w, b, flag, Len(w) + 1)

\* The items of w are those of v, or those of v but the ones from the f + 1st to the t-th.
Like(v, w) ==
  /\ IsSeq(v) /\ IsSeq(w) /\ Len(w) = Len(v)
  /\ \A j \in 1 .. Len(v) : w[j].id = v[j].id /\ w[j].kind = v[j].kind
CutLike(v, w, f, t) ==
  /\ IsSeq(v) /\ IsSeq(w) /\ Len(w) = Len(v) - (t - f)
  /\ \A j \in 1 .. f : w[j].id = v[j].id /\ w[j].kind = v[j].kind
  /\ \A j \in f + 1 .. Len(w) : w[j].id = v[j + (t - f)].id /\ w[j].kind = v[j + (t - f)].kind
Extended(v, w, x) ==
  /\ IsSeq(v) /\ IsSeq(w) /\ Len(w) = Len(v) + 1
  /\ \A j \in 1 .. Len(v) : w[j].id = v[j].id /\ w[j].kind = v[j].kind
  /\ w[Len(v) + 1].id = x.id /\ w[Len(v) + 1].kind = x.kind

LEMMA OpenLike ==
  ASSUME NEW v, NEW w, NEW n \in Nat, \A j \in 1 .. n : w[j].kind = v[j].kind, NEW b \in Nat,
         NEW flag, NEW k \in 1 .. n + 1
  PROVE  OpenBefore(v, b, flag, k) => OpenBefore(w, b, flag, k)
<1>1. \A m \in b + 1 .. k - 1 : w[m].kind = v[m].kind
  OBVIOUS
<1>2. ASSUME NEW j \in b + 1 .. k - 1, v[j].kind = "SBEG", \A m \in j + 1 .. k - 1 : v[m].kind \notin SentEnd
      PROVE  w[j].kind = "SBEG" /\ \A m \in j + 1 .. k - 1 : w[m].kind \notin SentEnd
  <2>1. \A m \in j + 1 .. k - 1 : m \in b + 1 .. k - 1
    OBVIOUS
  <2> QED  BY <1>1, <1>2, <2>1
<1> QED  BY <1>1, <1>2 DEF OpenBefore

LEMMA GrammarLike ==
  ASSUME NEW v, NEW w, Like(v, w), NEW b \in Nat, NEW flag, NEW opened, GrammarOf(v, b, flag, opened)
  PROVE  GrammarOf(w, b, flag, opened)
<1>1. Len(v) \in Nat /\ Len(w) = Len(v) /\ \A j \in 1 .. Len(v) : w[j].kind = v[j].kind
  BY Lengths DEF Like
<1>2. \A k \in b + 1 .. Len(w) : k \in 1 .. Len(v) + 1 /\ w[k].kind = v[k].kind
  BY <1>1
<1>3. \A k \in 1 .. Len(v) + 1 : OpenBefore(v, b, flag, k) => OpenBefore(w, b, flag, k)
  BY <1>1, OpenLike
<1>4. \A k \in b + 1 .. Len(w) : w[k].kind \in {"SBEG", "TERM"} \/ OpenBefore(w, b, flag, k)
  BY <1>1, <1>2, <1>3 DEF GrammarOf
<1>5. opened => OpenBefore(w, b, flag, Len(w) + 1)
  <2>1. Len(v) + 1 \in 1 .. Len(v) + 1
    BY <1>1
  <2> QED  BY <2>1, <1>1, <1>3 DEF GrammarOf
<1> QED  BY <1>4, <1>5 DEF GrammarOf

\* An item that may follow arrives.
LEMMA GrammarArrive ==
  ASSUME NEW v, NEW w, NEW x, Extended(v, w, x), NEW b \in Nat, b <= Len(v), NEW flag,
         NEW opened, NEW later, GrammarOf(v, b, flag, opened),
         x.kind \in {"SBEG", "TERM"} \/ opened,
         later => x.kind = "SBEG" \/ (opened /\ x.kind \notin SentEnd)
  PROVE  GrammarOf(w, b, flag, later)
<1> DEFINE n == Len(v)
<1>1. n \in Nat /\ Len(w) = n + 1 /\ (\A j \in 1 .. n : w[j].kind = v[j].kind) /\ w[n + 1].kind = x.kind
  BY Lengths DEF Extended
<1> HIDE DEF n
<1>2. \A k \in 1 .. n + 1 : OpenBefore(v, b, flag, k) => OpenBefore(w, b, flag, k)
  BY <1>1, OpenLike
<1>3. opened => OpenBefore(w, b, flag, n + 1)
  <2>1. n + 1 \in 1 .. n + 1
    BY <1>1
  <2> QED  BY <2>1, <1>2 DEF GrammarOf, n
<1>4. ASSUME NEW k \in b + 1 .. Len(w)
      PROVE  w[k].kind \in {"SBEG", "TERM"} \/ OpenBefore(w, b, flag, k)
  <2>1. CASE k = n + 1
    BY <2>1, <1>1, <1>3
  <2>2. CASE k # n + 1
    <3>1. k \in b + 1 .. n /\ k \in 1 .. n + 1 /\ w[k].kind = v[k].kind
      BY <2>2, <1>1
    <3>2. v[k].kind \in {"SBEG", "TERM"} \/ OpenBefore(v, b, flag, k)
      BY <3>1 DEF GrammarOf, n
    <3> QED  BY <3>1, <3>2, <1>2
  <2> QED  BY <2>1, <2>2
<1>5. ASSUME later PROVE OpenBefore(w, b, flag, n + 2)
  <2>1. CASE x.kind = "SBEG"
    <3>1. n + 1 \in b + 1 .. (n + 2) - 1 /\ w[n + 1].kind = "SBEG"
      BY <1>1, <2>1 DEF n
    <3>2. \A m \in (n + 1) + 1 .. (n + 2) - 1 : FALSE
      BY <1>1
    <3> QED  BY <3>1, <3>2 DEF OpenBefore
  <2>2. CASE opened /\ x.kind \notin SentEnd
    <3>1. OpenBefore(w, b, flag, n + 1)
      BY <2>2, <1>3
    <3>2. w[n + 1].kind \notin SentEnd
      BY <2>2, <1>1
    <3>3. CASE flag /\ \A m \in b + 1 .. (n + 1) - 1 : w[m].kind \notin SentEnd
      <4>1. \A m \in b + 1 .. (n + 2) - 1 : w[m].kind \notin SentEnd
        BY <3>2, <3>3, <1>1
      <4> QED  BY <3>3, <4>1 DEF OpenBefore
    <3>4. CASE \E j \in b + 1 .. (n + 1) - 1 : w[j].kind = "SBEG" /\ \A m \in j + 1 .. (n + 1) - 1 : w[m].kind \notin SentEnd
      <4>1. PICK j \in b + 1 .. (n + 1) - 1 : w[j].kind = "SBEG" /\ \A m \in j + 1 .. (n + 1) - 1 : w[m].kind \notin SentEnd
        BY <3>4
      <4>2. j \in b + 1 .. (n + 2) - 1 /\ \A m \in j + 1 .. (n + 2) - 1 : w[m].kind \notin SentEnd
        BY <3>2, <4>1, <1>1
      <4> QED  BY <4>1, <4>2 DEF OpenBefore
    <3> QED  BY <3>1, <3>3, <3>4 DEF OpenBefore
  <2> QED  BY <1>5, <2>1, <2>2
<1>6. later => OpenBefore(w, b, flag, Len(w) + 1)
  <2>1. Len(w) + 1 = n + 2
    BY <1>1
  <2> QED  BY <2>1, <1>5
<1> QED  BY <1>4, <1>6 DEF GrammarOf

LEMMA OpenNext ==
  ASSUME NEW w, NEW b \in Nat, NEW flag, NEW later, NEW k \in Nat, k >= b + 2, OpenBefore(w, b, flag, k),
         w[b + 1].kind \in SentEnd \/ (flag \/ w[b + 1].kind = "SBEG" => later)
  PROVE  OpenBefore(w, b + 1, later, k)
<1>1. CASE flag /\ \A m \in b + 1 .. k - 1 : w[m].kind \notin SentEnd
  <2>1. b + 1 \in b + 1 .. k - 1 /\ \A m \in (b + 1) + 1 .. k - 1 : m \in b + 1 .. k - 1
    OBVIOUS
  <2> QED  BY <1>1, <2>1 DEF OpenBefore
<1>2. CASE \E j \in b + 1 .. k - 1 : w[j].kind = "SBEG" /\ \A m \in j + 1 .. k - 1 : w[m].kind \notin SentEnd
  <2>1. PICK j \in b + 1 .. k - 1 : w[j].kind = "SBEG" /\ \A m \in j + 1 .. k - 1 : w[m].kind \notin SentEnd
    BY <1>2
  <2>2. CASE j = b + 1
    <3>1. later /\ \A m \in (b + 1) + 1 .. k - 1 : w[m].kind \notin SentEnd
      BY <2>1, <2>2 DEF SentEnd
    <3> QED  BY <3>1 DEF OpenBefore
  <2>3. CASE j # b + 1
    <3>1. j \in (b + 1) + 1 .. k - 1
      BY <2>3
    <3> QED  BY <2>1, <3>1 DEF OpenBefore
  <2> QED  BY <2>2, <2>3
<1> QED  BY <1>1, <1>2 DEF OpenBefore

\* One more item is looked at.
LEMMA GrammarNext ==
  ASSUME NEW w, IsSeq(w), NEW b \in Nat, b < Len(w), NEW flag, NEW opened, GrammarOf(w, b, flag, opened),
         NEW later, w[b + 1].kind \in SentEnd \/ (flag \/ w[b + 1].kind = "SBEG" => later)
  PROVE  GrammarOf(w, b + 1, later, opened)
<1>1. Len(w) \in Nat
  BY Lengths
<1>2. \A k \in Nat : k >= b + 2 /\ OpenBefore(w, b, flag, k) => OpenBefore(w, b + 1, later, k)
  BY OpenNext
<1>3. \A k \in (b + 1) + 1 .. Len(w) : k \in Nat /\ k >= b + 2 /\ k \in b + 1 .. Len(w)
  OBVIOUS
<1>4. Len(w) + 1 \in Nat /\ Len(w) + 1 >= b + 2
  BY <1>1
<1>5. \A k \in (b + 1) + 1 .. Len(w) : w[k].kind \in {"SBEG", "TERM"} \/ OpenBefore(w, b + 1, later, k)
  BY <1>2, <1>3 DEF GrammarOf
<1>6. opened => OpenBefore(w, b + 1, later, Len(w) + 1)
  BY <1>2, <1>4 DEF GrammarOf
<1> QED  BY <1>5, <1>6 DEF GrammarOf

LEMMA GrammarMore ==
  ASSUME NEW w, NEW b, NEW flag, NEW opened, GrammarOf(w, b, flag, opened), NEW later, flag => later
  PROVE  GrammarOf(w, b, later, opened)
BY DEF GrammarOf, OpenBefore

\* What was looked at behind the e-th item is to be looked at again.
LEMMA GrammarBack ==
  ASSUME NEW w, IsSeq(w), NEW b \in Nat, b <= Len(w), NEW flag, NEW opened, GrammarOf(w, b, flag, opened),
         NEW e \in Nat, e <= b, \A j \in e + 1 .. b : w[j].kind \notin SentEnd, flag \/ e = b
  PROVE  GrammarOf(w, e, flag, opened)
<1>1. CASE e = b
  BY <1>1
<1>2. CASE flag
  <2>1. ASSUME NEW k \in Nat, k >= b + 1, OpenBefore(w, b, flag, k) PROVE OpenBefore(w, e, flag, k)
    <3>1. CASE \A m \in b + 1 .. k - 1 : w[m].kind \notin SentEnd
      <4>1. \A m \in e + 1 .. k - 1 : w[m].kind \notin SentEnd
        BY <3>1
      <4> QED  BY <4>1, <1>2 DEF OpenBefore
    <3>2. CASE \E j \in b + 1 .. k - 1 : w[j].kind = "SBEG" /\ \A m \in j + 1 .. k - 1 : w[m].kind \notin SentEnd
      <4>1. \A j \in b + 1 .. k - 1 : j \in e + 1 .. k - 1
        OBVIOUS
      <4> QED  BY <3>2, <4>1 DEF OpenBefore
    <3> QED  BY <2>1, <3>1, <3>2 DEF OpenBefore
  <2>2. Len(w) \in Nat
    BY Lengths
  <2>3. ASSUME NEW k \in e + 1 .. Len(w) PROVE w[k].kind \in {"SBEG", "TERM"} \/ OpenBefore(w, e, flag, k)
    <3>1. CASE k <= b
      <4>1. \A m \in e + 1 .. k - 1 : w[m].kind \notin SentEnd
        BY <3>1
      <4> QED  BY <4>1, <1>2 DEF OpenBefore
    <3>2. CASE k > b
      <4>1. k \in Nat /\ k >= b + 1 /\ k \in b + 1 .. Len(w)
        BY <3>2, <2>2
      <4> QED  BY <4>1, <2>1 DEF GrammarOf
    <3> QED  BY <3>1, <3>2
  <2>4. opened => OpenBefore(w, e, flag, Len(w) + 1)
    <3>1. Len(w) + 1 \in Nat /\ Len(w) + 1 >= b + 1
      BY <2>2
    <3> QED  BY <3>1, <2>1 DEF GrammarOf
  <2> QED  BY <2>3, <2>4 DEF GrammarOf
<1> QED  BY <1>1, <1>2

\* Items that were looked at are taken out.
LEMMA GrammarShift ==
  ASSUME NEW v, NEW w, NEW f \in Nat, NEW t \in Nat, f <= t, CutLike(v, w, f, t), NEW b \in Nat, t <= b, b <= Len(v),
         NEW flag, NEW opened, GrammarOf(v, b, flag, opened)
  PROVE  GrammarOf(w, b - (t - f), flag, opened)
<1> DEFINE d == t - f
           c == b - d
<1>1. d \in Nat /\ c \in Nat /\ f <= c /\ c + d = b /\ Len(v) \in Nat /\ Len(w) \in Nat /\ Len(w) = Len(v) - d /\ c <= Len(w)
  BY Lengths DEF CutLike
<1>2. \A j \in f + 1 .. Len(w) : w[j].kind = v[j + d].kind
  BY DEF CutLike
<1> HIDE DEF d
<1>3. \A j \in c + 1 .. Len(w) : j + d \in b + 1 .. Len(v) /\ w[j].kind = v[j + d].kind
  BY <1>1, <1>2
<1> HIDE DEF c
<1>4. ASSUME NEW k \in c + 1 .. Len(w) + 1, OpenBefore(v, b, flag, k + d) PROVE OpenBefore(w, c, flag, k)
  <2>1. CASE flag /\ \A m \in b + 1 .. (k + d) - 1 : v[m].kind \notin SentEnd
    <3>1. ASSUME NEW m \in c + 1 .. k - 1 PROVE w[m].kind \notin SentEnd
      <4>1. m + d \in b + 1 .. (k + d) - 1 /\ m \in c + 1 .. Len(w)
        BY <1>1
      <4> QED  BY <4>1, <2>1, <1>3
    <3> QED  BY <2>1, <3>1 DEF OpenBefore
  <2>2. CASE \E j \in b + 1 .. (k + d) - 1 : v[j].kind = "SBEG" /\ \A m \in j + 1 .. (k + d) - 1 : v[m].kind \notin SentEnd
    <3>1. PICK j \in b + 1 .. (k + d) - 1 : v[j].kind = "SBEG" /\ \A m \in j + 1 .. (k + d) - 1 : v[m].kind \notin SentEnd
      BY <2>2
    <3>2. j - d \in c + 1 .. k - 1 /\ j - d \in c + 1 .. Len(w) /\ (j - d) + d = j
      BY <1>1
    <3>3. w[j - d].kind = "SBEG"
      BY <3>1, <3>2, <1>3
    <3>4. ASSUME NEW m \in (j - d) + 1 .. k - 1 PROVE w[m].kind \notin SentEnd
      <4>1. m + d \in j + 1 .. (k + d) - 1 /\ m \in c + 1 .. Len(w)
        BY <1>1, <3>2
      <4> QED  BY <4>1, <3>1, <1>3
    <3> QED  BY <3>2, <3>3, <3>4 DEF OpenBefore
  <2>3. \/ flag /\ \A m \in b + 1 .. (k + d) - 1 : v[m].kind \notin SentEnd
        \/ \E j \in b + 1 .. (k + d) - 1 : v[j].kind = "SBEG" /\ \A m \in j + 1 .. (k + d) - 1 : v[m].kind \notin SentEnd
    BY <1>4, Zenon DEF OpenBefore
  <2> QED  BY <2>1, <2>2, <2>3
<1>5. \A k \in c + 1 .. Len(w) : w[k].kind \in {"SBEG", "TERM"} \/ OpenBefore(w, c, flag, k)
  <2> SUFFICES ASSUME NEW k \in c + 1 .. Len(w) PROVE w[k].kind \in {"SBEG", "TERM"} \/ OpenBefore(w, c, flag, k)
    OBVIOUS
  <2>1. k + d \in b + 1 .. Len(v) /\ w[k].kind = v[k + d].kind /\ k \in c + 1 .. Len(w) + 1
    BY <1>1, <1>3
  <2>2. v[k + d].kind \in {"SBEG", "TERM"} \/ OpenBefore(v, b, flag, k + d)
    BY <2>1 DEF GrammarOf
  <2> QED  BY <2>1, <2>2, <1>4
<1>6. opened => OpenBefore(w, c, flag, Len(w) + 1)
  <2>1. Len(w) + 1 \in c + 1 .. Len(w) + 1 /\ (Len(w) + 1) + d = Len(v) + 1
    BY <1>1
  <2>2. opened => OpenBefore(v, b, flag, (Len(w) + 1) + d)
    BY <2>1 DEF GrammarOf
  <2> QED  BY <2>1, <2>2, <1>4
<1> QED  BY <1>5, <1>6 DEF GrammarOf, c, d

\* An item that is not a bound gets lost.
LEMMA GrammarLost ==
  ASSUME NEW v, NEW w, NEW n \in Nat, n < Len(v), CutLike(v, w, n, n + 1), v[n + 1].kind \notin Bounds,
         NEW b \in Nat, b <= n, NEW flag, NEW opened, GrammarOf(v, b, flag, opened), NEW later, later => opened
  PROVE  GrammarOf(w, b, flag, later)
<1>1. Len(v) \in Nat /\ Len(w) \in Nat /\ Len(w) = Len(v) - 1
  BY Lengths DEF CutLike
<1>2. \A j \in 1 .. n : w[j].kind = v[j].kind
  BY DEF CutLike
<1>3. ASSUME NEW j \in n + 1 .. Len(w) PROVE w[j].kind = v[j + 1].kind
  <2>1. w[j].kind = v[j + ((n + 1) - n)].kind
    BY DEF CutLike
  <2>2. (n + 1) - n = 1
    OBVIOUS
  <2> QED  BY <2>1, <2>2
<1> DEFINE at(k) == IF k <= n THEN k ELSE k + 1
<1>4. \A k \in 1 .. Len(w) : w[k].kind = v[at(k)].kind
  BY <1>1, <1>2, <1>3
<1>5. v[n + 1].kind # "SBEG" /\ v[n + 1].kind \notin SentEnd
  BY DEF Bounds, SentEnd
<1>6. ASSUME NEW k \in b + 1 .. Len(w) + 1, OpenBefore(v, b, flag, at(k)) PROVE OpenBefore(w, b, flag, k)
  <2>1. \A m \in b + 1 .. k - 1 : m \in 1 .. Len(w) /\ at(m) \in b + 1 .. at(k) - 1
    BY <1>1
  <2>2. CASE flag /\ \A m \in b + 1 .. at(k) - 1 : v[m].kind \notin SentEnd
    <3>1. \A m \in b + 1 .. k - 1 : w[m].kind \notin SentEnd
      <4> HIDE DEF at
      <4> QED  BY <2>1, <2>2, <1>4
    <3> QED  BY <2>2, <3>1 DEF OpenBefore
  <2>3. CASE \E j \in b + 1 .. at(k) - 1 : v[j].kind = "SBEG" /\ \A m \in j + 1 .. at(k) - 1 : v[m].kind \notin SentEnd
    <3>1. PICK j \in b + 1 .. at(k) - 1 : v[j].kind = "SBEG" /\ \A m \in j + 1 .. at(k) - 1 : v[m].kind \notin SentEnd
      BY <2>3
    <3>2. j # n + 1
      BY <3>1, <1>5
    <3> DEFINE i == IF j <= n THEN j ELSE j - 1
    <3>3. i \in b + 1 .. k - 1 /\ at(i) = j
      BY <3>2, <1>1
    <3>4. \A m \in i + 1 .. k - 1 : at(m) \in j + 1 .. at(k) - 1 /\ m \in 1 .. Len(w)
      BY <3>2, <3>3, <1>1
    <3> HIDE DEF i, at
    <3>5. w[i].kind = "SBEG"
      BY <3>1, <3>3, <2>1, <1>4
    <3>6. \A m \in i + 1 .. k - 1 : w[m].kind \notin SentEnd
      BY <3>1, <3>4, <1>4
    <3> QED  BY <3>3, <3>5, <3>6 DEF OpenBefore
  <2> HIDE DEF at
  <2> QED  BY <1>6, <2>2, <2>3 DEF OpenBefore
<1>7. \A k \in b + 1 .. Len(w) : at(k) \in b + 1 .. Len(v) /\ k \in 1 .. Len(w) /\ k \in b + 1 .. Len(w) + 1
  BY <1>1
<1>8. at(Len(w) + 1) = Len(v) + 1 /\ Len(w) + 1 \in b + 1 .. Len(w) + 1
  BY <1>1
<1> HIDE DEF at
<1>9. \A k \in b + 1 .. Len(w) : w[k].kind \in {"SBEG", "TERM"} \/ OpenBefore(w, b, flag, k)
  <2> SUFFICES ASSUME NEW k \in b + 1 .. Len(w) PROVE w[k].kind \in {"SBEG", "TERM"} \/ OpenBefore(w, b, flag, k)
    OBVIOUS
  <2>1. v[at(k)].kind \in {"SBEG", "TERM"} \/ OpenBefore(v, b, flag, at(k))
    BY <1>7 DEF GrammarOf
  <2> QED  BY <2>1, <1>4, <1>6, <1>7
<1>10. later => OpenBefore(w, b, flag, Len(w) + 1)
  <2>1. later => OpenBefore(v, b, flag, at(Len(w) + 1))
    BY <1>8 DEF GrammarOf
  <2> QED  BY <2>1, <1>6, <1>8
<1> QED  BY <1>9, <1>10 DEF GrammarOf

LEMMA OpenExtended ==
  ASSUME NEW s, NEW t, NEW x, Extended(s, t, x), Open(t)
  PROVE  x.kind = "SBEG" \/ (Open(s) /\ x.kind \notin SentEnd)
<1> DEFINE n == Len(s)
<1>1. /\ n \in Nat /\ Len(t) = n + 1 /\ (\A j \in 1 .. n : t[j].kind = s[j].kind) /\ t[n + 1].kind = x.kind
      /\ DOMAIN s = 1 .. n /\ DOMAIN t = 1 .. n + 1
  BY Lengths DEF Extended
<1>2. PICK k \in DOMAIN t : t[k].kind = "SBEG" /\ \A m \in k + 1 .. Len(t) : t[m].kind \notin SentEnd
  BY DEF Open
<1> HIDE DEF n
<1>3. CASE k = n + 1
  BY <1>1, <1>2, <1>3
<1>4. CASE k # n + 1
  <2>1. k \in 1 .. n /\ n + 1 \in k + 1 .. Len(t) /\ s[k].kind = "SBEG"
    BY <1>1, <1>2, <1>4
  <2>2. \A m \in k + 1 .. n : s[m].kind \notin SentEnd
    BY <1>1, <1>2, <2>1
  <2> QED  BY <1>1, <1>2, <2>1, <2>2 DEF Open, n
<1> QED  BY <1>3, <1>4

LEMMA OpenLost ==
  ASSUME NEW s, NEW t, NEW n \in Nat, n < Len(s), CutLike(s, t, n, n + 1), s[n + 1].kind \notin Bounds, Open(t)
  PROVE  Open(s)
<1>1. /\ Len(s) \in Nat /\ Len(t) \in Nat /\ Len(t) = Len(s) - 1
      /\ DOMAIN s = 1 .. Len(s) /\ DOMAIN t = 1 .. Len(t)
  BY Lengths DEF CutLike
<1>2. \A j \in 1 .. n : t[j].kind = s[j].kind
  BY DEF CutLike
<1>3. ASSUME NEW j \in n + 1 .. Len(t) PROVE t[j].kind = s[j + 1].kind
  <2>1. t[j].kind = s[j + ((n + 1) - n)].kind
    BY DEF CutLike
  <2>2. (n + 1) - n = 1
    OBVIOUS
  <2> QED  BY <2>1, <2>2
<1>4. s[n + 1].kind \notin SentEnd
  BY DEF Bounds, SentEnd
<1>5. PICK k \in DOMAIN t : t[k].kind = "SBEG" /\ \A m \in k + 1 .. Len(t) : t[m].kind \notin SentEnd
  BY DEF Open
<1> DEFINE i == IF k <= n THEN k ELSE k + 1
<1>6. i \in DOMAIN s /\ s[i].kind = "SBEG"
  BY <1>1, <1>2, <1>3, <1>5
<1>7. ASSUME NEW m \in i + 1 .. Len(s) PROVE s[m].kind \notin SentEnd
  <2>1. CASE m <= n
    <3>1. m \in k + 1 .. Len(t) /\ m \in 1 .. n
      BY <2>1, <1>1, <1>5
    <3> QED  BY <3>1, <1>2, <1>5
  <2>2. CASE m = n + 1
    BY <2>2, <1>4
  <2>3. CASE m > n + 1
    <3>1. m - 1 \in k + 1 .. Len(t) /\ m - 1 \in n + 1 .. Len(t) /\ (m - 1) + 1 = m
      BY <2>3, <1>1, <1>5
    <3> QED  BY <3>1, <1>3, <1>5
  <2> QED  BY <2>1, <2>2, <2>3, <1>1, <1>5
<1> QED  BY <1>6, <1>7 DEF Open

\* The item was no bound, so what follows is open as before.
LEMMA OpenKept ==
  ASSUME NEW s, NEW t, NEW n \in Nat, n < Len(s), CutLike(s, t, n, n + 1), s[n + 1].kind \notin Bounds, Open(s)
  PROVE  Open(t)
<1>1. /\ Len(s) \in Nat /\ Len(t) \in Nat /\ Len(t) = Len(s) - 1
      /\ DOMAIN s = 1 .. Len(s) /\ DOMAIN t = 1 .. Len(t)
  BY Lengths DEF CutLike
<1>2. \A j \in 1 .. n : t[j].kind = s[j].kind
  BY DEF CutLike
<1>3. ASSUME NEW j \in n + 1 .. Len(t) PROVE t[j].kind = s[j + 1].kind
  <2>1. t[j].kind = s[j + ((n + 1) - n)].kind
    BY DEF CutLike
  <2>2. (n + 1) - n = 1
    OBVIOUS
  <2> QED  BY <2>1, <2>2
<1>4. s[n + 1].kind # "SBEG"
  BY DEF Bounds
<1>5. PICK k \in DOMAIN s : s[k].kind = "SBEG" /\ \A m \in k + 1 .. Len(s) : s[m].kind \notin SentEnd
  BY DEF Open
<1>6. k \in 1 .. Len(s) /\ k # n + 1
  BY <1>1, <1>4, <1>5
<1> DEFINE i == IF k <= n THEN k ELSE k - 1
<1>7. i \in DOMAIN t /\ t[i].kind = "SBEG"
  <2>1. CASE k <= n
    BY <2>1, <1>1, <1>2, <1>5, <1>6
  <2>2. CASE k > n
    <3>1. k - 1 \in n + 1 .. Len(t) /\ (k - 1) + 1 = k /\ i = k - 1
      BY <2>2, <1>1, <1>6
    <3> QED  BY <3>1, <1>1, <1>3, <1>5
  <2> QED  BY <2>1, <2>2, <1>6
<1>8. ASSUME NEW m \in i + 1 .. Len(t) PROVE t[m].kind \notin SentEnd
  <2>1. CASE m <= n
    <3>1. m \in k + 1 .. Len(s) /\ m \in 1 .. n
      BY <2>1, <1>1, <1>6
    <3> QED  BY <3>1, <1>2, <1>5
  <2>2. CASE m > n
    <3>1. m + 1 \in k + 1 .. Len(s) /\ m \in n + 1 .. Len(t)
      BY <2>2, <1>1, <1>6
    <3> QED  BY <3>1, <1>3, <1>5
  <2> QED  BY <2>1, <2>2, <1>1, <1>6
<1> HIDE DEF i
<1> QED  BY <1>7, <1>8 DEF Open

LEMMA OpenAfter ==
  ASSUME NEW s, NEW t, NEW x, Extended(s, t, x), x.kind = "SBEG" \/ (Open(s) /\ x.kind \notin SentEnd)
  PROVE  Open(t)
<1> DEFINE n == Len(s)
<1>1. /\ n \in Nat /\ Len(t) = n + 1 /\ (\A j \in 1 .. n : t[j].kind = s[j].kind) /\ t[n + 1].kind = x.kind
      /\ DOMAIN s = 1 .. n /\ DOMAIN t = 1 .. n + 1
  BY Lengths DEF Extended
<1>2. CASE x.kind = "SBEG"
  <2>1. n + 1 \in DOMAIN t /\ \A m \in (n + 1) + 1 .. Len(t) : t[m].kind \notin SentEnd
    BY <1>1
  <2> QED  BY <2>1, <1>1, <1>2 DEF Open
<1>3. CASE Open(s) /\ x.kind \notin SentEnd
  <2>1. PICK k \in DOMAIN s : s[k].kind = "SBEG" /\ \A m \in k + 1 .. Len(s) : s[m].kind \notin SentEnd
    BY <1>3 DEF Open
  <2> HIDE DEF n
  <2>2. k \in DOMAIN t /\ t[k].kind = "SBEG"
    BY <1>1, <2>1
  <2>3. \A m \in k + 1 .. Len(t) : t[m].kind \notin SentEnd
    <3> SUFFICES ASSUME NEW m \in k + 1 .. Len(t) PROVE t[m].kind \notin SentEnd
      OBVIOUS
    <3>1. m = n + 1 \/ (m \in 1 .. n /\ m \in k + 1 .. n)
      BY <1>1, <2>1
    <3> QED  BY <3>1, <1>1, <1>3, <2>1 DEF n
  <2> QED  BY <2>2, <2>3 DEF Open
<1> QED  BY <1>2, <1>3

LEMMA OpenSame ==
  ASSUME NEW s, NEW t, Like(s, t)
  PROVE  Open(t) <=> Open(s)
<1>1. Len(t) = Len(s) /\ DOMAIN s = 1 .. Len(s) /\ DOMAIN t = 1 .. Len(s) /\ \A j \in 1 .. Len(s) : t[j].kind = s[j].kind
  BY Lengths DEF Like
<1> QED  BY <1>1 DEF Open

-----------------------------------------------------------------------------
(* Order: w is what waits, n items of it in headx, of which p are passed; s   *)
(* is what was said, and c what came; mid: the next word was begun.           *)
Silent == WithPhones \union {"SIL"}
Rising(w, top) ==
  /\ \A j \in 1 .. Len(w) : w[j].id \in 1 .. top
  /\ \A i, j \in 1 .. Len(w) : i < j => w[i].id < w[j].id
Known(w, n, c) == \A j \in 1 .. n : \E k \in 1 .. Len(c) : c[k].id = w[j].id /\ c[k].kind = w[j].kind
Spoken(s) ==
  /\ \A m \in 1 .. Len(s) : s[m].id \in Nat
  /\ \A i, m \in 1 .. Len(s) : i < m /\ s[i].id # 0 /\ s[m].id # 0 =>
       s[i].id < s[m].id \/ (s[i].id = s[m].id /\ s[i].kind = "SYLL" /\ s[m].kind = "SYLL")
Ahead(s, w, p, mid) ==
  \A m \in 1 .. Len(s) : s[m].id # 0 => \A j \in p + 1 .. Len(w) :
    s[m].id < w[j].id \/ (mid /\ j = p + 1 /\ s[m].id = w[j].id /\ s[m].kind = "SYLL")
Heeded(s, c, top) ==
  \A m \in 1 .. Len(s) : s[m].id # 0 => s[m].id <= top /\ \E k \in 1 .. Len(c) : Of(s[m], c[k])
Complete(s, w, n, p, c) ==
  \A k \in 1 .. Len(c) : c[k].kind \notin Silent =>
    \/ \E m \in 1 .. Len(s) : Of(s[m], c[k])
    \/ \E j \in p + 1 .. n : w[j].id = c[k].id /\ w[j].kind = c[k].kind
Ordered(w, n, p, mid, s, c, top) ==
  /\ Rising(w, top) /\ Known(w, n, c) /\ Spoken(s)
  /\ Ahead(s, w, p, mid) /\ Heeded(s, c, top) /\ Complete(s, w, n, p, c)

LEMMA OrderedLike ==
  ASSUME NEW v, NEW w, Like(v, w), NEW n \in Nat, n <= Len(v), NEW p \in Nat, NEW mid, NEW s, NEW c, NEW top \in Nat,
         Ordered(v, n, p, mid, s, c, top)
  PROVE  Ordered(w, n, p, mid, s, c, top)
<1>1. Len(w) = Len(v) /\ Len(v) \in Nat /\ \A j \in 1 .. Len(v) : w[j].id = v[j].id /\ w[j].kind = v[j].kind
  BY Lengths DEF Like
<1>2. Rising(w, top)
  BY <1>1 DEF Ordered, Rising
<1>3. Known(w, n, c)
  <2>1. \A j \in 1 .. n : j \in 1 .. Len(v)
    BY <1>1
  <2> QED  BY <2>1, <1>1 DEF Ordered, Known
<1>4. Ahead(s, w, p, mid)
  <2>1. \A j \in p + 1 .. Len(w) : j \in p + 1 .. Len(v) /\ w[j].id = v[j].id
    BY <1>1
  <2> QED  BY <2>1 DEF Ordered, Ahead
<1>5. Complete(s, w, n, p, c)
  <2>1. \A j \in p + 1 .. n : w[j].id = v[j].id /\ w[j].kind = v[j].kind
    BY <1>1
  <2> QED  BY <2>1 DEF Ordered, Complete
<1> QED  BY <1>2, <1>3, <1>4, <1>5 DEF Ordered

\* The next item is passed; of a word, the syllables were said.
LEMMA OrderedPass ==
  ASSUME NEW w, IsSeq(w), NEW n \in Nat, n <= Len(w), NEW p \in Nat, p < n, NEW mid, NEW s, NEW c, NEW top \in Nat,
         Ordered(w, n, p, mid, s, c, top), w[p + 1].kind \in Silent
  PROVE  Ordered(w, n, p + 1, FALSE, s, c, top)
<1>1. Len(w) \in Nat
  BY Lengths
<1>2. Ahead(s, w, p + 1, FALSE)
  <2> SUFFICES ASSUME NEW m \in 1 .. Len(s), s[m].id # 0, NEW j \in (p + 1) + 1 .. Len(w) PROVE s[m].id < w[j].id
    BY DEF Ahead
  <2>1. j \in p + 1 .. Len(w) /\ j # p + 1
    OBVIOUS
  <2> QED  BY <2>1 DEF Ordered, Ahead
<1>3. Complete(s, w, n, p + 1, c)
  <2> SUFFICES ASSUME NEW k \in 1 .. Len(c), c[k].kind \notin Silent
               PROVE  \/ \E m \in 1 .. Len(s) : Of(s[m], c[k])
                      \/ \E j \in (p + 1) + 1 .. n : w[j].id = c[k].id /\ w[j].kind = c[k].kind
    BY DEF Complete
  <2>1. CASE \E m \in 1 .. Len(s) : Of(s[m], c[k])
    BY <2>1
  <2>2. CASE \E j \in p + 1 .. n : w[j].id = c[k].id /\ w[j].kind = c[k].kind
    <3>1. PICK j \in p + 1 .. n : w[j].id = c[k].id /\ w[j].kind = c[k].kind
      BY <2>2
    <3>2. j # p + 1
      BY <3>1
    <3>3. j \in (p + 1) + 1 .. n
      BY <3>2
    <3> QED  BY <3>1, <3>3
  <2> QED  BY <2>1, <2>2 DEF Ordered, Complete
<1> QED  BY <1>2, <1>3 DEF Ordered

LEMMA OrderedBegin ==
  ASSUME NEW w, NEW n, NEW p, NEW mid, NEW s, NEW c, NEW top, Ordered(w, n, p, mid, s, c, top)
  PROVE  Ordered(w, n, p, TRUE, s, c, top)
BY DEF Ordered, Ahead

\* One more is said that is of what came and is nowhere behind what waits.
LEMMA OrderedSay ==
  ASSUME NEW w, NEW n, NEW p, NEW mid, NEW s, IsSeq(s), NEW c, NEW top, Ordered(w, n, p, mid, s, c, top),
         NEW e, e.id \in Nat, NEW q, NEW after,
         \A m \in 1 .. Len(s) : s[m].id # 0 /\ e.id # 0 =>
           s[m].id < e.id \/ (s[m].id = e.id /\ s[m].kind = "SYLL" /\ e.kind = "SYLL"),
         e.id # 0 => e.id <= top /\ \E k \in 1 .. Len(c) : Of(e, c[k]),
         Ahead(s, w, q, after),
         e.id # 0 => \A j \in q + 1 .. Len(w) :
           e.id < w[j].id \/ (after /\ j = q + 1 /\ e.id = w[j].id /\ e.kind = "SYLL"),
         \A k \in 1 .. Len(c) : c[k].kind \notin Silent =>
           \/ \E m \in 1 .. Len(s) : Of(s[m], c[k])
           \/ Of(e, c[k])
           \/ \E j \in q + 1 .. n : w[j].id = c[k].id /\ w[j].kind = c[k].kind
  PROVE  Ordered(w, n, q, after, Append(s, e), c, top)
<1> DEFINE t == Append(s, e)
           l == Len(s)
<1>1. l \in Nat /\ Len(t) = l + 1 /\ t[l + 1] = e /\ \A i \in 1 .. l : t[i] = s[i]
  BY Lengths, Appended
<1> HIDE DEF t
<1>2. \A i \in 1 .. Len(t) : i = l + 1 \/ i \in 1 .. l
  BY <1>1
<1>3. Spoken(t)
  <2>1. \A i \in 1 .. Len(t) : t[i].id \in Nat
    BY <1>1, <1>2 DEF Ordered, Spoken
  <2>2. ASSUME NEW i \in 1 .. Len(t), NEW m \in 1 .. Len(t), i < m, t[i].id # 0, t[m].id # 0
        PROVE  t[i].id < t[m].id \/ (t[i].id = t[m].id /\ t[i].kind = "SYLL" /\ t[m].kind = "SYLL")
    <3>1. i \in 1 .. l /\ t[i] = s[i]
      BY <1>1, <2>2
    <3>2. CASE m = l + 1
      BY <1>1, <2>2, <3>1, <3>2
    <3>3. CASE m # l + 1
      <4>1. m \in 1 .. l /\ t[m] = s[m]
        BY <1>1, <3>3
      <4> QED  BY <2>2, <3>1, <4>1 DEF Ordered, Spoken
    <3> QED  BY <3>2, <3>3
  <2> QED  BY <2>1, <2>2 DEF Spoken
<1>4. Ahead(t, w, q, after)
  <2> SUFFICES ASSUME NEW m \in 1 .. Len(t), t[m].id # 0, NEW j \in q + 1 .. Len(w)
               PROVE  t[m].id < w[j].id \/ (after /\ j = q + 1 /\ t[m].id = w[j].id /\ t[m].kind = "SYLL")
    BY DEF Ahead
  <2>1. CASE m = l + 1
    BY <1>1, <2>1
  <2>2. CASE m \in 1 .. l
    <3>1. t[m] = s[m]
      BY <1>1, <2>2
    <3> QED  BY <2>2, <3>1 DEF Ahead
  <2> QED  BY <1>2, <2>1, <2>2
<1>5. Heeded(t, c, top)
  <2> SUFFICES ASSUME NEW m \in 1 .. Len(t), t[m].id # 0
               PROVE  t[m].id <= top /\ \E k \in 1 .. Len(c) : Of(t[m], c[k])
    BY DEF Heeded
  <2>1. CASE m = l + 1
    BY <1>1, <2>1
  <2>2. CASE m \in 1 .. l
    <3>1. t[m] = s[m]
      BY <1>1, <2>2
    <3> QED  BY <2>2, <3>1 DEF Ordered, Heeded
  <2> QED  BY <1>2, <2>1, <2>2
<1>6. Complete(t, w, n, q, c)
  <2> SUFFICES ASSUME NEW k \in 1 .. Len(c), c[k].kind \notin Silent
               PROVE  \/ \E m \in 1 .. Len(t) : Of(t[m], c[k])
                      \/ \E j \in q + 1 .. n : w[j].id = c[k].id /\ w[j].kind = c[k].kind
    BY DEF Complete
  <2>1. CASE \E m \in 1 .. Len(s) : Of(s[m], c[k])
    <3>1. PICK m \in 1 .. l : Of(s[m], c[k])
      BY <2>1
    <3>2. m \in 1 .. Len(t) /\ t[m] = s[m]
      BY <1>1
    <3> QED  BY <3>1, <3>2
  <2>2. CASE Of(e, c[k])
    <3>1. l + 1 \in 1 .. Len(t)
      BY <1>1
    <3> QED  BY <3>1, <1>1, <2>2
  <2>3. CASE \E j \in q + 1 .. n : w[j].id = c[k].id /\ w[j].kind = c[k].kind
    BY <2>3
  <2> QED  BY <2>1, <2>2, <2>3
<1> QED  BY <1>3, <1>4, <1>5, <1>6 DEF Ordered, t

\* An item the unit makes itself.
LEMMA OrderedMade ==
  ASSUME NEW w, NEW n, NEW p, NEW mid, NEW s, IsSeq(s), NEW c, NEW top, Ordered(w, n, p, mid, s, c, top),
         NEW e, e.id = 0
  PROVE  Ordered(w, n, p, mid, Append(s, e), c, top)
<1>1. Ahead(s, w, p, mid)
  BY DEF Ordered
<1>2. \A k \in 1 .. Len(c) : c[k].kind \notin Silent =>
        \/ \E m \in 1 .. Len(s) : Of(s[m], c[k])
        \/ \E j \in p + 1 .. n : w[j].id = c[k].id /\ w[j].kind = c[k].kind
  BY DEF Ordered, Complete
<1>3. /\ e.id \in Nat
      /\ \A m \in 1 .. Len(s) : s[m].id # 0 /\ e.id # 0 =>
           s[m].id < e.id \/ (s[m].id = e.id /\ s[m].kind = "SYLL" /\ e.kind = "SYLL")
      /\ e.id # 0 => e.id <= top /\ \E k \in 1 .. Len(c) : Of(e, c[k])
      /\ e.id # 0 => \A j \in p + 1 .. Len(w) :
           e.id < w[j].id \/ (mid /\ j = p + 1 /\ e.id = w[j].id /\ e.kind = "SYLL")
  OBVIOUS
<1>4. \A k \in 1 .. Len(c) : c[k].kind \notin Silent =>
           \/ \E m \in 1 .. Len(s) : Of(s[m], c[k])
           \/ Of(e, c[k])
           \/ \E j \in p + 1 .. n : w[j].id = c[k].id /\ w[j].kind = c[k].kind
  BY <1>2
<1> QED  BY <1>1, <1>3, <1>4, OrderedSay

\* A command leaves.
LEMMA OrderedItem ==
  ASSUME NEW w, IsSeq(w), NEW n \in Nat, n <= Len(w), NEW p \in Nat, p < n, NEW s, IsSeq(s), NEW c, NEW top \in Nat,
         Ordered(w, n, p, FALSE, s, c, top),
         NEW e, e.id = w[p + 1].id, e.kind = w[p + 1].kind, w[p + 1].kind \notin Silent
  PROVE  Ordered(w, n, p + 1, FALSE, Append(s, e), c, top)
<1>1. Len(w) \in Nat /\ p + 1 \in 1 .. Len(w) /\ p + 1 \in 1 .. n /\ p + 1 \in p + 1 .. Len(w)
  BY Lengths
<1>2. e.id \in Nat /\ e.id \in 1 .. top
  BY <1>1 DEF Ordered, Rising
<1>3. \A m \in 1 .. Len(s) : s[m].id # 0 => s[m].id < e.id
  BY <1>1 DEF Ordered, Ahead
<1>4. ASSUME NEW k \in 1 .. Len(c), c[k].id = w[p + 1].id, c[k].kind = w[p + 1].kind PROVE Of(e, c[k])
  BY <1>4 DEF Of, Silent, WithPhones
<1>5. \E k \in 1 .. Len(c) : Of(e, c[k])
  BY <1>1, <1>4 DEF Ordered, Known
<1>6. ASSUME NEW j \in (p + 1) + 1 .. Len(w) PROVE j \in p + 1 .. Len(w) /\ j # p + 1 /\ e.id < w[j].id
  <2>1. j \in 1 .. Len(w) /\ p + 1 < j
    BY <1>1
  <2> QED  BY <2>1, <1>1 DEF Ordered, Rising
<1>7. Ahead(s, w, p + 1, FALSE)
  BY <1>6 DEF Ordered, Ahead
<1>8. ASSUME NEW k \in 1 .. Len(c), c[k].kind \notin Silent
      PROVE  \/ \E m \in 1 .. Len(s) : Of(s[m], c[k])
             \/ Of(e, c[k])
             \/ \E j \in (p + 1) + 1 .. n : w[j].id = c[k].id /\ w[j].kind = c[k].kind
  <2>1. CASE \E j \in p + 1 .. n : w[j].id = c[k].id /\ w[j].kind = c[k].kind
    <3>1. PICK j \in p + 1 .. n : w[j].id = c[k].id /\ w[j].kind = c[k].kind
      BY <2>1
    <3>2. CASE j = p + 1
      BY <3>1, <3>2, <1>4
    <3>3. CASE j # p + 1
      <4>1. j \in (p + 1) + 1 .. n
        BY <3>3
      <4> QED  BY <4>1, <3>1
    <3> QED  BY <3>2, <3>3
  <2> QED  BY <2>1, <1>8 DEF Ordered, Complete
<1> DEFINE q == p + 1
<1> HIDE DEF q
<1>9. /\ Ahead(s, w, q, FALSE)
      /\ \A j \in q + 1 .. Len(w) : e.id < w[j].id
      /\ \A k \in 1 .. Len(c) : c[k].kind \notin Silent =>
           \/ \E m \in 1 .. Len(s) : Of(s[m], c[k])
           \/ Of(e, c[k])
           \/ \E j \in q + 1 .. n : w[j].id = c[k].id /\ w[j].kind = c[k].kind
  BY <1>6, <1>7, <1>8 DEF q
<1>10. e.id <= top
  BY <1>2
<1>11. Ordered(w, n, q, FALSE, Append(s, e), c, top)
  BY <1>2, <1>3, <1>5, <1>9, <1>10, OrderedSay
<1> QED  BY <1>11 DEF q

\* A syllable of the word that was begun leaves.
LEMMA OrderedSyllable ==
  ASSUME NEW w, IsSeq(w), NEW n \in Nat, n <= Len(w), NEW p \in Nat, p < n, NEW s, IsSeq(s), NEW c, NEW top \in Nat,
         Ordered(w, n, p, TRUE, s, c, top),
         NEW e, e.id = w[p + 1].id, e.kind = "SYLL", w[p + 1].kind = "WORD"
  PROVE  Ordered(w, n, p, TRUE, Append(s, e), c, top)
<1>1. Len(w) \in Nat /\ p + 1 \in 1 .. Len(w) /\ p + 1 \in 1 .. n /\ p + 1 \in p + 1 .. Len(w)
  BY Lengths
<1>2. e.id \in Nat /\ e.id \in 1 .. top
  BY <1>1 DEF Ordered, Rising
<1>3. \A m \in 1 .. Len(s) : s[m].id # 0 => s[m].id < e.id \/ (s[m].id = e.id /\ s[m].kind = "SYLL")
  BY <1>1 DEF Ordered, Ahead
<1>4. \E k \in 1 .. Len(c) : Of(e, c[k])
  <2>1. PICK k \in 1 .. Len(c) : c[k].id = w[p + 1].id /\ c[k].kind = w[p + 1].kind
    BY <1>1 DEF Ordered, Known
  <2>2. Of(e, c[k])
    BY <2>1 DEF Of
  <2> QED  BY <2>2
<1>5. ASSUME NEW j \in p + 1 .. Len(w), j # p + 1 PROVE e.id < w[j].id
  <2>1. j \in 1 .. Len(w) /\ p + 1 < j
    BY <1>1, <1>5
  <2> QED  BY <2>1, <1>1 DEF Ordered, Rising
<1>6. Ahead(s, w, p, TRUE)
  BY DEF Ordered
<1>7. \A k \in 1 .. Len(c) : c[k].kind \notin Silent =>
        \/ \E m \in 1 .. Len(s) : Of(s[m], c[k])
        \/ \E j \in p + 1 .. n : w[j].id = c[k].id /\ w[j].kind = c[k].kind
  BY DEF Ordered, Complete
<1>8. e.id <= top
  BY <1>2
<1>9. \A j \in p + 1 .. Len(w) : e.id < w[j].id \/ (j = p + 1 /\ e.id = w[j].id)
  BY <1>5
<1> QED  BY <1>2, <1>3, <1>4, <1>6, <1>7, <1>8, <1>9, OrderedSay

\* Items that were passed are taken out.
LEMMA OrderedCut ==
  ASSUME NEW v, NEW w, NEW f \in Nat, NEW t \in Nat, f <= t, CutLike(v, w, f, t), NEW n \in Nat, n <= Len(v),
         NEW p \in Nat, t <= p, p <= n, NEW s, NEW c, NEW top \in Nat, Ordered(v, n, p, FALSE, s, c, top)
  PROVE  Ordered(w, n - (t - f), p - (t - f), FALSE, s, c, top)
<1> DEFINE d == t - f
           at(j) == IF j <= f THEN j ELSE j + d
<1>1. d \in Nat /\ f + d = t /\ Len(v) \in Nat /\ Len(w) \in Nat /\ Len(w) = Len(v) - d
  BY Lengths DEF CutLike
<1>2. \A j \in f + 1 .. Len(w) : w[j].id = v[j + d].id /\ w[j].kind = v[j + d].kind
  BY DEF CutLike
<1>3. \A j \in 1 .. f : w[j].id = v[j].id /\ w[j].kind = v[j].kind
  BY DEF CutLike
<1> HIDE DEF d
<1>4. \A j \in 1 .. Len(w) : at(j) \in 1 .. Len(v) /\ w[j].id = v[at(j)].id /\ w[j].kind = v[at(j)].kind
  BY <1>1, <1>2, <1>3
<1>5. \A i, j \in 1 .. Len(w) : i < j => at(i) < at(j)
  BY <1>1
<1>6. \A j \in 1 .. n - d : j \in 1 .. Len(w) /\ at(j) \in 1 .. n
  BY <1>1
<1>7. \A j \in p - d + 1 .. Len(w) : j \in 1 .. Len(w) /\ at(j) = j + d /\ at(j) \in p + 1 .. Len(v)
  BY <1>1
<1>8. \A i \in p + 1 .. n : i - d \in p - d + 1 .. n - d /\ i - d \in p - d + 1 .. Len(w) /\ at(i - d) = i
  BY <1>1
<1> HIDE DEF at
<1>9. Rising(w, top)
  BY <1>4, <1>5 DEF Ordered, Rising
<1>10. Known(w, n - d, c)
  BY <1>4, <1>6 DEF Ordered, Known
<1>11. Ahead(s, w, p - d, FALSE)
  BY <1>4, <1>7 DEF Ordered, Ahead
<1>12. Complete(s, w, n - d, p - d, c)
  <2> SUFFICES ASSUME NEW k \in 1 .. Len(c), c[k].kind \notin Silent
               PROVE  \/ \E m \in 1 .. Len(s) : Of(s[m], c[k])
                      \/ \E j \in p - d + 1 .. n - d : w[j].id = c[k].id /\ w[j].kind = c[k].kind
    BY DEF Complete
  <2>1. CASE \E i \in p + 1 .. n : v[i].id = c[k].id /\ v[i].kind = c[k].kind
    <3>1. PICK i \in p + 1 .. n : v[i].id = c[k].id /\ v[i].kind = c[k].kind
      BY <2>1
    <3>2. w[i - d].id = v[i].id /\ w[i - d].kind = v[i].kind /\ i - d \in p - d + 1 .. n - d
      BY <1>4, <1>7, <1>8
    <3> QED  BY <3>1, <3>2
  <2> QED  BY <2>1 DEF Ordered, Complete
<1> QED  BY <1>9, <1>10, <1>11, <1>12 DEF Ordered, d

\* One that had not been taken yet gets lost.
LEMMA OrderedLost ==
  ASSUME NEW v, NEW w, NEW n \in Nat, n < Len(v), CutLike(v, w, n, n + 1),
         NEW p \in Nat, p <= n, NEW s, NEW c, NEW top \in Nat, Ordered(v, n, p, FALSE, s, c, top)
  PROVE  Ordered(w, n, p, FALSE, s, c, top)
<1> DEFINE at(j) == IF j <= n THEN j ELSE j + 1
<1>1. Len(v) \in Nat /\ Len(w) \in Nat /\ Len(w) = Len(v) - 1
  BY Lengths DEF CutLike
<1>2. \A j \in 1 .. n : w[j].id = v[j].id /\ w[j].kind = v[j].kind
  BY DEF CutLike
<1>3. ASSUME NEW j \in n + 1 .. Len(w) PROVE w[j].id = v[j + 1].id /\ w[j].kind = v[j + 1].kind
  <2>1. w[j].id = v[j + ((n + 1) - n)].id /\ w[j].kind = v[j + ((n + 1) - n)].kind
    BY DEF CutLike
  <2>2. (n + 1) - n = 1
    OBVIOUS
  <2> QED  BY <2>1, <2>2
<1>4. \A j \in 1 .. Len(w) : at(j) \in 1 .. Len(v) /\ w[j].id = v[at(j)].id /\ w[j].kind = v[at(j)].kind
  BY <1>1, <1>2, <1>3
<1>5. \A i, j \in 1 .. Len(w) : i < j => at(i) < at(j)
  BY <1>1
<1>6. \A j \in p + 1 .. Len(w) : j \in 1 .. Len(w) /\ at(j) \in p + 1 .. Len(v)
  BY <1>1
<1> HIDE DEF at
<1>7. Rising(w, top)
  BY <1>4, <1>5 DEF Ordered, Rising
<1>8. Known(w, n, c)
  BY <1>2 DEF Ordered, Known
<1>9. Ahead(s, w, p, FALSE)
  BY <1>4, <1>6 DEF Ordered, Ahead
<1>10. Complete(s, w, n, p, c)
  <2>1. \A j \in p + 1 .. n : w[j].id = v[j].id /\ w[j].kind = v[j].kind
    BY <1>2
  <2> QED  BY <2>1, SMTT(60) DEF Ordered, Complete
<1> QED  BY <1>7, <1>8, <1>9, <1>10 DEF Ordered

LEMMA OrderedArrive ==
  ASSUME NEW v, NEW w, NEW x, Extended(v, w, x), NEW n \in Nat, n <= Len(v), NEW p \in Nat, NEW mid, NEW s, NEW c,
         p <= Len(v), mid => p < Len(v), NEW top \in Nat, Ordered(v, n, p, mid, s, c, top), x.id = top + 1
  PROVE  Ordered(w, n, p, mid, s, c, top + 1)
<1>1. /\ Len(v) \in Nat /\ Len(w) = Len(v) + 1 /\ w[Len(v) + 1].id = top + 1
      /\ \A j \in 1 .. Len(v) : w[j].id = v[j].id /\ w[j].kind = v[j].kind
  BY Lengths DEF Extended
<1>2. \A j \in 1 .. Len(v) : w[j].id \in 1 .. top
  BY <1>1 DEF Ordered, Rising
<1>3. Rising(w, top + 1)
  <2>1. \A j \in 1 .. Len(w) : j = Len(v) + 1 \/ j \in 1 .. Len(v)
    BY <1>1
  <2>2. \A j \in 1 .. Len(w) : w[j].id \in 1 .. top + 1
    BY <1>1, <1>2, <2>1
  <2>3. ASSUME NEW i \in 1 .. Len(w), NEW j \in 1 .. Len(w), i < j PROVE w[i].id < w[j].id
    <3>1. i \in 1 .. Len(v)
      BY <2>3, <1>1
    <3>2. CASE j = Len(v) + 1
      BY <3>1, <3>2, <1>1, <1>2
    <3>3. CASE j \in 1 .. Len(v)
      BY <3>1, <3>3, <2>3, <1>1 DEF Ordered, Rising
    <3> QED  BY <2>1, <3>2, <3>3
  <2> QED  BY <2>2, <2>3 DEF Rising
<1>4. Known(w, n, c)
  <2>1. \A j \in 1 .. n : j \in 1 .. Len(v)
    BY <1>1
  <2> QED  BY <1>1, <2>1 DEF Ordered, Known
<1>5. \A m \in 1 .. Len(s) : s[m].id # 0 => s[m].id \in Nat /\ s[m].id <= top
  BY DEF Ordered, Heeded, Spoken
<1>6. Ahead(s, w, p, mid)
  <2> SUFFICES ASSUME NEW m \in 1 .. Len(s), s[m].id # 0, NEW j \in p + 1 .. Len(w)
               PROVE  s[m].id < w[j].id \/ (mid /\ j = p + 1 /\ s[m].id = w[j].id /\ s[m].kind = "SYLL")
    BY DEF Ahead
  <2>1. CASE j = Len(v) + 1
    BY <2>1, <1>1, <1>5
  <2>2. CASE j # Len(v) + 1
    <3>1. j \in p + 1 .. Len(v) /\ w[j].id = v[j].id
      BY <2>2, <1>1
    <3> QED  BY <3>1 DEF Ordered, Ahead
  <2> QED  BY <2>1, <2>2
<1>7. Heeded(s, c, top + 1)
  <2>1. \A m \in 1 .. Len(s) : s[m].id # 0 => s[m].id <= top + 1
    BY <1>5
  <2> QED  BY <2>1 DEF Ordered, Heeded
<1>8. Complete(s, w, n, p, c)
  <2>1. \A j \in p + 1 .. n : w[j].id = v[j].id /\ w[j].kind = v[j].kind
    BY <1>1
  <2> QED  BY <2>1 DEF Ordered, Complete
<1> QED  BY <1>3, <1>4, <1>6, <1>7, <1>8 DEF Ordered

\* An item is taken.
LEMMA OrderedTake ==
  ASSUME NEW w, NEW n \in Nat, NEW p \in Nat, p <= n, NEW mid, NEW s, NEW c, IsSeq(c), NEW top,
         Ordered(w, n, p, mid, s, c, top), NEW x, x.id = w[n + 1].id, x.kind = w[n + 1].kind
  PROVE  Ordered(w, n + 1, p, mid, s, Append(c, x), top)
<1> DEFINE d == Append(c, x)
           l == Len(c)
<1>1. l \in Nat /\ Len(d) = l + 1 /\ d[l + 1] = x /\ \A i \in 1 .. l : d[i] = c[i] /\ i \in 1 .. Len(d)
  BY Lengths, Appended
<1>2. l + 1 \in 1 .. Len(d)
  BY <1>1
<1> HIDE DEF d
<1>3. Known(w, n + 1, d)
  <2> SUFFICES ASSUME NEW j \in 1 .. n + 1
               PROVE  \E k \in 1 .. Len(d) : d[k].id = w[j].id /\ d[k].kind = w[j].kind
    BY DEF Known
  <2>1. CASE j = n + 1
    BY <2>1, <1>1, <1>2
  <2>2. CASE j # n + 1
    <3>1. j \in 1 .. n
      BY <2>2
    <3>2. PICK k \in 1 .. l : c[k].id = w[j].id /\ c[k].kind = w[j].kind
      BY <3>1 DEF Ordered, Known
    <3> QED  BY <3>2, <1>1
  <2> QED  BY <2>1, <2>2
<1>4. Heeded(s, d, top)
  <2>1. ASSUME NEW m \in 1 .. Len(s), s[m].id # 0 PROVE \E k \in 1 .. Len(d) : Of(s[m], d[k])
    <3>1. PICK k \in 1 .. l : Of(s[m], c[k])
      BY <2>1 DEF Ordered, Heeded
    <3>2. d[k] = c[k] /\ k \in 1 .. Len(d)
      BY <1>1
    <3> QED  BY <3>1, <3>2
  <2> QED  BY <2>1 DEF Ordered, Heeded
<1>5. Complete(s, w, n + 1, p, d)
  <2> SUFFICES ASSUME NEW k \in 1 .. Len(d), d[k].kind \notin Silent
               PROVE  \/ \E m \in 1 .. Len(s) : Of(s[m], d[k])
                      \/ \E j \in p + 1 .. n + 1 : w[j].id = d[k].id /\ w[j].kind = d[k].kind
    BY DEF Complete
  <2>1. CASE k = l + 1
    <3>1. n + 1 \in p + 1 .. n + 1
      OBVIOUS
    <3> QED  BY <3>1, <2>1, <1>1
  <2>2. CASE k # l + 1
    <3>1. k \in 1 .. l /\ d[k] = c[k]
      BY <2>2, <1>1
    <3>2. \A j \in p + 1 .. n : j \in p + 1 .. n + 1
      OBVIOUS
    <3> QED  BY <3>1, <3>2 DEF Ordered, Complete
  <2> QED  BY <2>1, <2>2
<1> QED  BY <1>3, <1>4, <1>5 DEF Ordered, d

-----------------------------------------------------------------------------
(* The invariant.                                                            *)
ItemsOK(s) == IsSeq(s) /\ \A i \in 1 .. Len(s) : ItemOK(s[i])

\* The items in headx and before it, and what was put with what is in outBuf.
Waiting == spHeadx \o cbIn
Said == IF spOut = << >> THEN told ELSE Append(told, spOut[1])
Follow == IF procState = "FEED" THEN spOut[2] ELSE procState

Early == {"INIT", "COLLECT", "PARSE"}
Between == {"TRANSDUCE", "BOUNDS", "ALIGN"}
Late == {"RECOMB", "SYL", "FEED", "SHIFT"}
Putting == {"RECOMB", "SYL"}

\* How many of the items are looked at, and how many are passed, what they say is said.
Base ==
  IF procState \in {"COLLECT", "PARSE"} THEN spPar.rd ELSE IF procState = "INIT" THEN 0 ELSE spWin.end
Progress ==
  IF Follow \in Putting THEN (IF spAli.out < spWin.start THEN spWin.start ELSE spAli.out)
  ELSE IF Follow = "SHIFT" THEN spWin.end ELSE spWin.start

Types ==
  /\ ItemsOK(spHeadx) /\ ItemsOK(cbIn) /\ ItemsOK(stored) /\ IsSeq(told) /\ fed \in Nat
  /\ spWin \in [start : Nat, pen : Int, end : Int]
  /\ spPar \in [rd : Nat, started : BOOLEAN, suppress : BOOLEAN]
  /\ "out" \in DOMAIN spAli /\ spAli.out \in Nat

Turn ==
  /\ procState \in Early \cup Between \cup Late
  /\ procState # "FEED" => spOut = << >>
  /\ procState = "FEED" =>
       /\ Len(spOut) = 2 /\ spOut[2] \in Putting \cup {"SHIFT"}
       /\ spOut[2] \in Putting => spWin.start <= spAli.out
  /\ Follow \in Putting => spAli.out <= spWin.end
  /\ Follow = "SYL" => spWin.start <= spAli.out /\ spAli.out < spWin.end /\ spHeadx[spAli.out + 1].kind = "WORD"

\* While items are looked at: what the phones hold since the end of the active range.
LookedOK(h, win, par, phon) ==
  /\ IsSeq(phon)
  /\ par.rd <= Len(h) /\ NoEnd(h, 0, par.rd) /\ (~par.started => par.rd = 0)
  /\ Context(h, win.start, par.rd, Len(phon))
  /\ Supp(h, 0, par.rd) => par.suppress
  /\ win.end = Invalid => win.pen = Invalid
  /\ win.end # Invalid =>
       /\ win.start <= win.end /\ win.end < par.rd /\ Sized(h, win.end, par.rd, Len(phon) + 1)
       /\ par.suppress <=> Supp(h, win.end, par.rd)
  /\ win.pen # Invalid => win.start <= win.pen /\ win.pen < win.end /\ Sized(h, win.pen, win.end, SpPhonCap)

\* While they are put out.
RangeOK(h, win, par) ==
  /\ win.start <= win.end /\ win.end <= Len(h)
  /\ win.pen # Invalid =>
       /\ win.start <= win.pen /\ win.pen <= win.end
       /\ Sized(h, win.pen, win.end, SpPhonCap) /\ NoEnd(h, win.pen, win.end)
  /\ ~par.started => win.pen = win.end \/ (win.pen = Invalid /\ win.start = 0)

Window ==
  /\ spWin.start <= Len(spHeadx) /\ NoEnd(spHeadx, 0, spWin.start) /\ Sized(spHeadx, 0, spWin.start, SpPhonCap)
  /\ procState \in Early /\ ~spPar.started => spWin.start = 0
  /\ procState \in {"COLLECT", "PARSE"} => LookedOK(spHeadx, spWin, spPar, spPhon)
  /\ procState \notin Early => RangeOK(spHeadx, spWin, spPar)

Grammar == GrammarOf(Waiting, Base, spPar.started, Open(stored \o cbIn))
Order == Ordered(Waiting, Len(spHeadx), Progress, Follow = "SYL", Said, stored, fed)

SpInv == Types /\ Turn /\ Window /\ Grammar /\ Order

-----------------------------------------------------------------------------
(* Items that stay, whatever becomes of the bounds before them.              *)
Kept(h, g) ==
  /\ IsSeq(g) /\ Len(g) = Len(h)
  /\ \A i \in 1 .. Len(h) : ItemOK(g[i]) /\ g[i].id = h[i].id /\ g[i].kind = h[i].kind
       /\ g[i].phones = h[i].phones /\ g[i].len = h[i].len

LEMMA KeptSame == ASSUME NEW h, ItemsOK(h) PROVE Kept(h, h)
BY DEF Kept, ItemsOK

LEMMA KeptOK == ASSUME NEW h, NEW g, Kept(h, g) PROVE ItemsOK(g)
BY DEF Kept, ItemsOK

LEMMA KeptMoved == ASSUME NEW h, ItemsOK(h), NEW g, Kept(h, g) PROVE Moved(h, g, 0, Len(h), 0)
<1>1. Len(h) \in Nat
  BY Lengths DEF ItemsOK
<1>2. \A i \in 0 .. Len(h) - 1 : i + 1 \in 1 .. Len(h) /\ i - 0 + 1 = i + 1
  BY <1>1
<1> QED  BY <1>2 DEF Kept, ItemsOK, Moved

LEMMA KeptLike ==
  ASSUME NEW h, ItemsOK(h), NEW g, Kept(h, g), NEW t, ItemsOK(t)
  PROVE  Like(h \o t, g \o t)
<1> DEFINE v == h \o t
           w == g \o t
           n == Len(h)
<1>1. IsSeq(h) /\ IsSeq(g) /\ IsSeq(t) /\ Len(g) = n /\ n \in Nat /\ Len(t) \in Nat
  BY Lengths DEF ItemsOK, Kept
<1>2. /\ IsSeq(v) /\ Len(v) = n + Len(t)
      /\ \A i \in 1 .. n : v[i] = h[i]
      /\ \A i \in 1 .. Len(t) : v[n + i] = t[i]
  BY <1>1, Joined
<1>3. /\ IsSeq(w) /\ Len(w) = n + Len(t)
      /\ \A i \in 1 .. n : w[i] = g[i]
      /\ \A i \in 1 .. Len(t) : w[n + i] = t[i]
  <2>1. IsSeq(g) /\ IsSeq(t)
    BY <1>1
  <2>2. /\ IsSeq(w) /\ Len(w) = Len(g) + Len(t)
        /\ \A i \in 1 .. Len(g) : w[i] = g[i]
        /\ \A i \in 1 .. Len(t) : w[Len(g) + i] = t[i]
    BY <2>1, Joined
  <2> HIDE DEF w, n
  <2> QED  BY <1>1, <2>2
<1>4. \A i \in 1 .. n : g[i].id = h[i].id /\ g[i].kind = h[i].kind
  BY DEF Kept
<1> HIDE DEF v, w, n
<1>5. ASSUME NEW j \in 1 .. Len(v) PROVE w[j].id = v[j].id /\ w[j].kind = v[j].kind
  <2>1. CASE j <= n
    BY <2>1, <1>1, <1>2, <1>3, <1>4
  <2>2. CASE j > n
    <3>1. j - n \in 1 .. Len(t) /\ n + (j - n) = j
      BY <2>2, <1>1, <1>2
    <3> QED  BY <3>1, <1>2, <1>3
  <2> QED  BY <2>1, <2>2, <1>1
<1> QED  BY <1>2, <1>3, <1>5 DEF Like, v, w

LEMMA SizedKept ==
  ASSUME NEW h, NEW g, NEW from \in Nat, NEW to \in Nat, from <= to, Moved(h, g, from, to, 0),
         NEW most, Sized(h, from, to, most)
  PROVE  Sized(g, from, to, most)
<1>1. Sized(g, from - 0, to - 0, most)
  BY SizedMoved
<1>2. from - 0 = from /\ to - 0 = to
  OBVIOUS
<1> QED  BY <1>1, <1>2

LEMMA NoEndKept ==
  ASSUME NEW h, NEW g, NEW from \in Nat, NEW to \in Nat, Moved(h, g, from, to, 0), NoEnd(h, from, to)
  PROVE  NoEnd(g, from, to)
<1>1. NoEnd(g, from - 0, to - 0)
  BY NoEndMoved
<1>2. from - 0 = from /\ to - 0 = to
  OBVIOUS
<1> QED  BY <1>1, <1>2

LEMMA SuppKept ==
  ASSUME NEW h, NEW g, NEW from \in Nat, NEW to \in Nat, from <= to, Moved(h, g, from, to, 0)
  PROVE  Supp(g, from, to) <=> Supp(h, from, to)
<1>1. to \in from .. to
  OBVIOUS
<1>2. Supp(g, from - 0, to - 0) <=> Supp(h, from, to)
  BY <1>1, SuppMoved
<1>3. from - 0 = from /\ to - 0 = to
  OBVIOUS
<1> QED  BY <1>2, <1>3

WinType == [start : Nat, pen : Int, end : Int]
ParType == [rd : Nat, started : BOOLEAN, suppress : BOOLEAN]

LEMMA LookedKept ==
  ASSUME NEW h, NEW g, Len(h) \in Nat, Len(g) \in Nat, Len(h) <= Len(g), Moved(h, g, 0, Len(h), 0),
         NEW win \in WinType, win.start <= Len(h), NEW par \in ParType, NEW phon, LookedOK(h, win, par, phon)
  PROVE  LookedOK(g, win, par, phon)
<1> DEFINE n == Len(h)
           start == win.start
           end == win.end
           pen == win.pen
           rd == par.rd
<1>1. n \in Nat /\ start \in Nat /\ end \in Int /\ pen \in Int /\ rd \in Nat
  BY DEF WinType, ParType
<1>2. /\ IsSeq(phon) /\ rd <= n /\ NoEnd(h, 0, rd) /\ (~par.started => rd = 0)
      /\ Context(h, start, rd, Len(phon))
      /\ Supp(h, 0, rd) => par.suppress
      /\ end = Invalid => pen = Invalid
      /\ end # Invalid =>
           /\ start <= end /\ end < rd /\ Sized(h, end, rd, Len(phon) + 1)
           /\ par.suppress <=> Supp(h, end, rd)
      /\ pen # Invalid => start <= pen /\ pen < end /\ Sized(h, pen, end, SpPhonCap)
  BY DEF LookedOK
<1>3. start <= n /\ n <= Len(g)
  OBVIOUS
<1>4. Moved(h, g, 0, n, 0)
  OBVIOUS
<1> HIDE DEF n, start, end, pen, rd
<1>5. Moved(h, g, 0, rd, 0) /\ Moved(h, g, 0, start, 0)
  BY <1>1, <1>2, <1>3, <1>4, MovedPart
<1>6. NoEnd(g, 0, rd) /\ Context(g, start, rd, Len(phon)) /\ (Supp(g, 0, rd) <=> Supp(h, 0, rd))
  <2>1. NoEnd(g, 0, rd)
    BY <1>1, <1>2, <1>5, NoEndKept
  <2>2. Context(g, start, rd, Len(phon))
    BY <1>1, <1>2, <1>5, ContextMoved
  <2>3. Supp(g, 0, rd) <=> Supp(h, 0, rd)
    BY <1>1, <1>5, SuppKept
  <2> QED  BY <2>1, <2>2, <2>3
<1>7. ASSUME end # Invalid PROVE Sized(g, end, rd, Len(phon) + 1) /\ (Supp(g, end, rd) <=> Supp(h, end, rd))
  <2>1. end \in Nat /\ end <= rd /\ Sized(h, end, rd, Len(phon) + 1)
    BY <1>1, <1>2, <1>7
  <2>2. Moved(h, g, end, rd, 0)
    BY <1>1, <1>2, <1>4, <2>1, MovedPart
  <2> QED  BY <1>1, <2>1, <2>2, SizedKept, SuppKept
<1>8. ASSUME pen # Invalid PROVE Sized(g, pen, end, SpPhonCap)
  <2>1. end # Invalid /\ pen \in Nat /\ end \in Nat /\ pen <= end /\ end <= n /\ Sized(h, pen, end, SpPhonCap)
    BY <1>1, <1>2, <1>8
  <2>2. Moved(h, g, pen, end, 0)
    BY <1>1, <1>4, <2>1, MovedPart
  <2> QED  BY <2>1, <2>2, SizedKept
<1>9. rd <= Len(g)
  BY <1>1, <1>2, <1>3
<1> QED  BY <1>2, <1>6, <1>7, <1>8, <1>9 DEF LookedOK, start, end, pen, rd

LEMMA RangeKept ==
  ASSUME NEW h, NEW g, Len(h) \in Nat, Len(g) = Len(h), Moved(h, g, 0, Len(h), 0),
         NEW win \in WinType, NEW par \in ParType, RangeOK(h, win, par)
  PROVE  RangeOK(g, win, par)
<1> DEFINE n == Len(h)
           start == win.start
           end == win.end
           pen == win.pen
<1>1. n \in Nat /\ start \in Nat /\ end \in Int /\ pen \in Int
  BY DEF WinType
<1>2. /\ start <= end /\ end <= n
      /\ pen # Invalid => start <= pen /\ pen <= end /\ Sized(h, pen, end, SpPhonCap) /\ NoEnd(h, pen, end)
      /\ ~par.started => pen = end \/ (pen = Invalid /\ start = 0)
  BY DEF RangeOK
<1>3. Moved(h, g, 0, n, 0) /\ Len(g) = n
  OBVIOUS
<1> HIDE DEF n, start, end, pen
<1>4. ASSUME pen # Invalid PROVE Sized(g, pen, end, SpPhonCap) /\ NoEnd(g, pen, end)
  <2>1. pen \in Nat /\ end \in Nat /\ pen <= end /\ end <= n
    BY <1>1, <1>2, <1>4
  <2>2. Moved(h, g, pen, end, 0)
    BY <1>1, <1>3, <2>1, MovedPart
  <2> QED  BY <1>2, <1>4, <2>1, <2>2, SizedKept, NoEndKept
<1> QED  BY <1>2, <1>3, <1>4 DEF RangeOK, start, end, pen

\* A bound is put before an item, or gets another type.
LEMMA ExceptKept ==
  ASSUME NEW h, ItemsOK(h), NEW g, DOMAIN g = DOMAIN h, g = [i \in DOMAIN g |-> g[i]],
         \A i \in 1 .. Len(h) :
           /\ DOMAIN g[i] = DOMAIN h[i]
           /\ g[i].id = h[i].id /\ g[i].kind = h[i].kind /\ g[i].phones = h[i].phones /\ g[i].len = h[i].len
  PROVE  Kept(h, g)
<1> DEFINE n == Len(h)
           U == {g[i] : i \in 1 .. n}
<1>1. n \in Nat /\ DOMAIN g = 1 .. n
  BY Lengths DEF ItemsOK
<1>2. \A i \in 1 .. n : g[i] \in U
  OBVIOUS
<1>3. \A i \in 1 .. n : ItemOK(g[i])
  BY DEF ItemsOK, ItemOK
<1> HIDE DEF U, n
<1>4. g \in [1 .. n -> U]
  BY <1>1, <1>2
<1>5. g \in Seq(U) /\ Len(g) = n
  BY <1>1, <1>4
<1>6. IsSeq(g)
  BY <1>5 DEF IsSeq
<1> QED  BY <1>3, <1>5, <1>6 DEF Kept, n

LEMMA WithBoundKept ==
  ASSUME NEW h, ItemsOK(h), NEW i, NEW bound
  PROVE  Kept(h, WithBound(h, i, bound))
<1> DEFINE g == [h EXCEPT ![i + 1].bound = bound]
<1>1. DOMAIN g = DOMAIN h /\ g = [j \in DOMAIN g |-> g[j]]
  OBVIOUS
<1>2. DOMAIN h = 1 .. Len(h)
  BY Lengths DEF ItemsOK
<1>3. ASSUME NEW j \in 1 .. Len(h)
      PROVE  /\ DOMAIN g[j] = DOMAIN h[j]
             /\ g[j].id = h[j].id /\ g[j].kind = h[j].kind /\ g[j].phones = h[j].phones /\ g[j].len = h[j].len
  <2>1. {"id", "kind", "phones", "len"} \subseteq DOMAIN h[j]
    BY DEF ItemsOK, ItemOK
  <2>2. g[j] = IF j = i + 1 THEN [h[j] EXCEPT !.bound = bound] ELSE h[j]
    BY <1>2
  <2> HIDE DEF g
  <2> QED  BY <2>1, <2>2
<1> HIDE DEF g
<1>4. Kept(h, g)
  BY <1>1, <1>3, ExceptKept
<1> QED  BY <1>4 DEF g, WithBound

LEMMA WithTypeKept ==
  ASSUME NEW h, ItemsOK(h), NEW i, NEW type
  PROVE  Kept(h, WithType(h, i, type))
<1> DEFINE g == [h EXCEPT ![i + 1].bound.type = type]
<1>1. DOMAIN g = DOMAIN h /\ g = [j \in DOMAIN g |-> g[j]]
  OBVIOUS
<1>2. DOMAIN h = 1 .. Len(h)
  BY Lengths DEF ItemsOK
<1>3. ASSUME NEW j \in 1 .. Len(h)
      PROVE  /\ DOMAIN g[j] = DOMAIN h[j]
             /\ g[j].id = h[j].id /\ g[j].kind = h[j].kind /\ g[j].phones = h[j].phones /\ g[j].len = h[j].len
  <2>1. {"id", "kind", "phones", "len"} \subseteq DOMAIN h[j]
    BY DEF ItemsOK, ItemOK
  <2>2. g[j] = IF j = i + 1 THEN [h[j] EXCEPT !.bound.type = type] ELSE h[j]
    BY <1>2
  <2> HIDE DEF g
  <2> QED  BY <2>1, <2>2
<1> HIDE DEF g
<1>4. Kept(h, g)
  BY <1>1, <1>3, ExceptKept
<1> QED  BY <1>4, KeptSame DEF g, WithType

LEMMA KeptTwice ==
  ASSUME NEW h, NEW g, Kept(h, g), NEW f, Kept(g, f)
  PROVE  Kept(h, f)
BY DEF Kept

LEMMA TypesKept ==
  ASSUME ItemsOK(spHeadx), NEW brk, NEW i, NEW orig, NEW origType, NEW bound, SetTypes(brk, i, orig, origType, bound)
  PROVE  Kept(spHeadx, spHeadx')
<1> DEFINE fromPhrase == orig # "PHR0"
           toPhrase == bound.strength # "PHR0"
           type == IF fromPhrase THEN origType ELSE brk.type
           before == IF toPhrase /\ ~fromPhrase THEN WithType(spHeadx, brk.pos, "P")
                     ELSE IF ~toPhrase /\ fromPhrase THEN WithType(spHeadx, brk.pos, origType)
                     ELSE spHeadx
           now == SideBound(bound.strength, IF toPhrase THEN type ELSE "NA", bound.sil)
<1>1. Kept(spHeadx, before)
  BY WithTypeKept, KeptSame
<1>2. spHeadx' = WithBound(before, i, now)
  BY DEF SetTypes
<1> HIDE DEF before, now
<1>3. Kept(before, WithBound(before, i, now))
  BY <1>1, KeptOK, WithBoundKept
<1> QED  BY <1>1, <1>2, <1>3, KeptTwice

-----------------------------------------------------------------------------
(* What no step behind the parser changes.                                   *)
LEMMA OrderedOther ==
  ASSUME NEW w, NEW n, NEW p, NEW mid, NEW s, NEW c, NEW top, Ordered(w, n, p, mid, s, c, top), NEW other, mid => other
  PROVE  Ordered(w, n, p, other, s, c, top)
BY DEF Ordered, Ahead

LEMMA LateKept ==
  ASSUME SpInv, procState \notin Early, procState' \notin Early,
         UNCHANGED << spWin, spPar, cbIn, stored, fed >>, Kept(spHeadx, spHeadx'), IsSeq(told'),
         "out" \in DOMAIN spAli', spAli'.out \in Nat
  PROVE  /\ Types' /\ Window' /\ Grammar' /\ ItemsOK(spHeadx') /\ Len(spHeadx') = Len(spHeadx) /\ IsSeq(Waiting')
         /\ Len(Waiting') >= Len(spHeadx)
         /\ \A i \in 1 .. Len(spHeadx) :
              /\ Waiting'[i].id = spHeadx[i].id /\ Waiting'[i].kind = spHeadx[i].kind
              /\ spHeadx'[i].id = spHeadx[i].id /\ spHeadx'[i].kind = spHeadx[i].kind
         /\ Ordered(Waiting', Len(spHeadx), Progress, Follow = "SYL", Said, stored, fed)
<1>1. /\ ItemsOK(spHeadx) /\ ItemsOK(cbIn) /\ ItemsOK(stored) /\ fed \in Nat
      /\ spWin \in WinType /\ spPar \in ParType
  BY DEF SpInv, Types, WinType, ParType
<1>2. ItemsOK(spHeadx') /\ Len(spHeadx') = Len(spHeadx) /\ Len(spHeadx) \in Nat
  <2>1. IsSeq(spHeadx)
    BY <1>1 DEF ItemsOK
  <2> QED  BY <2>1, KeptOK, Lengths DEF Kept
<1>3. Types'
  BY <1>1, <1>2 DEF SpInv, Types
<1>4. Moved(spHeadx, spHeadx', 0, Len(spHeadx), 0)
  BY <1>1, KeptMoved
<1>5. Window'
  <2> DEFINE n == Len(spHeadx)
             start == spWin.start
  <2>1. start \in Nat /\ start <= n /\ NoEnd(spHeadx, 0, start) /\ Sized(spHeadx, 0, start, SpPhonCap)
    BY <1>1 DEF SpInv, Window, WinType
  <2>2. RangeOK(spHeadx, spWin, spPar)
    BY DEF SpInv, Window
  <2>3. RangeOK(spHeadx', spWin, spPar)
    BY <1>1, <1>2, <1>4, <2>2, RangeKept
  <2>4. Moved(spHeadx, spHeadx', 0, start, 0)
    <3>1. 0 \in Nat /\ n \in Nat /\ 0 <= 0
      BY <1>2
    <3> HIDE DEF n, start
    <3>2. Moved(spHeadx, spHeadx', 0, n, 0)
      BY <1>4 DEF n
    <3> QED  BY <2>1, <3>1, <3>2, MovedPart
  <2> HIDE DEF start
  <2>5. NoEnd(spHeadx', 0, start) /\ Sized(spHeadx', 0, start, SpPhonCap)
    BY <2>1, <2>4, NoEndKept, SizedKept
  <2>6. start' = start
    BY DEF start
  <2> QED  BY <1>2, <2>1, <2>3, <2>5, <2>6 DEF Window, start, Early
<1>6. Like(Waiting, Waiting')
  BY <1>1, KeptLike DEF Waiting
<1>7. Base = spWin.end /\ Base' = spWin.end /\ spWin.end \in Nat
  <2>1. spWin.start \in Nat /\ spWin.end \in Int /\ spWin.start <= spWin.end
    BY <1>1 DEF SpInv, Window, RangeOK, WinType
  <2> QED  BY <2>1 DEF Base, Early
<1>8. Grammar'
  <2>1. GrammarOf(Waiting, spWin.end, spPar.started, Open(stored \o cbIn))
    BY <1>7 DEF SpInv, Grammar
  <2>2. GrammarOf(Waiting', spWin.end, spPar.started, Open(stored \o cbIn))
    BY <1>6, <1>7, <2>1, GrammarLike
  <2>3. spWin'.end = spWin.end /\ spPar'.started = spPar.started /\ (stored \o cbIn)' = stored \o cbIn
    OBVIOUS
  <2>4. Base' = spWin.end
    BY <1>7
  <2> QED  BY <2>2, <2>3, <2>4 DEF Grammar
<1>9. /\ IsSeq(Waiting) /\ Len(Waiting) \in Nat /\ Len(spHeadx) <= Len(Waiting)
      /\ \A i \in 1 .. Len(spHeadx) : Waiting[i] = spHeadx[i]
  <2>1. IsSeq(spHeadx) /\ IsSeq(cbIn)
    BY <1>1 DEF ItemsOK
  <2>2. /\ IsSeq(Waiting) /\ Len(Waiting) = Len(spHeadx) + Len(cbIn)
        /\ \A i \in 1 .. Len(spHeadx) : Waiting[i] = spHeadx[i]
    BY <2>1, Joined DEF Waiting
  <2>3. Len(cbIn) \in Nat /\ Len(spHeadx) \in Nat
    BY <2>1, Lengths
  <2> QED  BY <2>2, <2>3
<1>10. Progress \in Nat
  BY <1>1, <1>7 DEF Progress, SpInv, Types, WinType
<1>11. Ordered(Waiting', Len(spHeadx), Progress, Follow = "SYL", Said, stored, fed)
  <2> DEFINE mid == Follow = "SYL"
  <2>1. Ordered(Waiting, Len(spHeadx), Progress, mid, Said, stored, fed)
    BY DEF SpInv, Order
  <2> HIDE DEF mid
  <2>2. Ordered(Waiting', Len(spHeadx), Progress, mid, Said, stored, fed)
    BY <1>1, <1>2, <1>6, <1>9, <1>10, <2>1, OrderedLike
  <2> QED  BY <2>2 DEF mid
<1>12. \A i \in 1 .. Len(spHeadx) :
         /\ Waiting'[i].id = spHeadx[i].id /\ Waiting'[i].kind = spHeadx[i].kind
         /\ spHeadx'[i].id = spHeadx[i].id /\ spHeadx'[i].kind = spHeadx[i].kind
  BY <1>6, <1>9 DEF Like, Kept
<1> QED  BY <1>2, <1>3, <1>5, <1>6, <1>8, <1>9, <1>11, <1>12 DEF Like

\* The order, when the items stay.
LEMMA OrderKept ==
  ASSUME NEW p, NEW mid, NEW s,
         Ordered(Waiting', Len(spHeadx), p, mid, s, stored, fed), UNCHANGED << stored, fed >>,
         Len(spHeadx') = Len(spHeadx), Progress' = p, mid => Follow' = "SYL", Said' = s
  PROVE  Order'
<1> DEFINE after == Follow' = "SYL"
<1>1. Ordered(Waiting', Len(spHeadx), p, after, s, stored, fed)
  <2>1. mid => after
    OBVIOUS
  <2> HIDE DEF after
  <2> QED  BY <2>1, OrderedOther
<1> QED  BY <1>1 DEF Order, after

-----------------------------------------------------------------------------
(* TRANSDUCE, BOUNDS and ALIGN.                                              *)
LEMMA StepBetween ==
  ASSUME SpInv, procState \in Between, procState' \in Between \cup {"RECOMB"},
         procState' = "RECOMB" => spAli'.out = 0, "out" \in DOMAIN spAli', spAli'.out \in Nat,
         UNCHANGED << spWin, spPar, cbIn, stored, fed, told, spOut >>, Kept(spHeadx, spHeadx')
  PROVE  SpInv'
<1>1. procState \notin Early /\ procState' \notin Early /\ procState # "FEED" /\ procState' # "FEED"
  BY DEF Early, Between
<1>2. IsSeq(told')
  BY DEF SpInv, Types
<1>3. /\ Types' /\ Window' /\ Grammar' /\ Len(spHeadx') = Len(spHeadx)
      /\ Ordered(Waiting', Len(spHeadx), Progress, Follow = "SYL", Said, stored, fed)
  BY <1>1, <1>2, LateKept
<1>4. spWin.start \in Nat /\ spWin.end \in Int /\ spWin.start <= spWin.end
  BY <1>1 DEF SpInv, Types, Window, RangeOK
<1>5. Follow = procState /\ Follow' = procState'
  BY <1>1 DEF Follow
<1>6. Turn'
  BY <1>1, <1>4, <1>5 DEF SpInv, Turn, Between, Late, Putting
<1>7. Progress = spWin.start /\ Progress' = spWin.start /\ Follow # "SYL"
  BY <1>4, <1>5 DEF Progress, Between, Putting
<1>8. Said' = Said
  BY DEF Said
<1>9. Order'
  <2> DEFINE mid == Follow = "SYL"
  <2>1. ~mid /\ Ordered(Waiting', Len(spHeadx), Progress, mid, Said, stored, fed)
    BY <1>3, <1>7
  <2> HIDE DEF mid
  <2> QED  BY <1>3, <1>7, <1>8, <2>1, OrderKept
<1> QED  BY <1>3, <1>6, <1>9 DEF SpInv

LEMMA StepTransduce == ASSUME SpInv, SpTransduce PROVE SpInv'
<1>1. /\ procState = "TRANSDUCE" /\ procState' = "BOUNDS"
      /\ UNCHANGED << spWin, spPar, cbIn, stored, fed, told, spOut, spHeadx >>
      /\ spAli' = [spAli EXCEPT !.out = 0, !.phon = 1]
  BY DEF SpTransduce, Running, Go, NoTransfer, spHist
<1>2. "out" \in DOMAIN spAli' /\ spAli'.out \in Nat
  BY <1>1 DEF SpInv, Types
<1>3. Kept(spHeadx, spHeadx')
  BY <1>1, KeptSame DEF SpInv, Types
<1>4. procState \in Between /\ procState' \in Between \cup {"RECOMB"} /\ procState' # "RECOMB"
  BY <1>1 DEF Between
<1> QED  BY <1>1, <1>2, <1>3, <1>4, StepBetween

LEMMA StepBounds == ASSUME SpInv, SpBounds PROVE SpInv'
<1>1. /\ procState = "BOUNDS" /\ procState' = "ALIGN"
      /\ UNCHANGED << spWin, spPar, cbIn, stored, fed, told, spOut, spHeadx >>
      /\ spAli' = [spAli EXCEPT !.out = IF @ < spWin.start THEN spWin.start ELSE @,
                                !.phon = AfterItems(1, spWin.start),
                                !.suppress = SuppressAfter(spAli.out, spWin.start, FALSE)]
  BY DEF SpBounds, Running, Go, NoTransfer, spHist
<1>2. "out" \in DOMAIN spAli' /\ spAli'.out \in Nat
  BY <1>1 DEF SpInv, Types
<1>3. Kept(spHeadx, spHeadx')
  BY <1>1, KeptSame DEF SpInv, Types
<1>4. procState \in Between /\ procState' \in Between \cup {"RECOMB"} /\ procState' # "RECOMB"
  BY <1>1 DEF Between
<1> QED  BY <1>1, <1>2, <1>3, <1>4, StepBetween

LEMMA AlignStays ==
  ASSUME SpInv, procState = "ALIGN", NEW suppress, AlignNext(suppress), AlignOnly, Kept(spHeadx, spHeadx')
  PROVE  SpInv'
<1>1. /\ procState' = "ALIGN" /\ UNCHANGED << spWin, spPar, cbIn, stored, fed, told, spOut >>
  BY DEF AlignOnly, Stay, NoTransfer, spHist
<1>2. "out" \in DOMAIN spAli' /\ spAli'.out \in Nat
  BY DEF SpInv, Types, AlignNext, NextPos
<1>3. procState \in Between /\ procState' \in Between \cup {"RECOMB"} /\ procState' # "RECOMB"
  BY <1>1 DEF Between
<1> QED  BY <1>1, <1>2, <1>3, StepBetween

LEMMA StepAlignBound == ASSUME SpInv, SpAlignBound PROVE SpInv'
<1>1. procState = "ALIGN" /\ AlignNext(spAli.suppress \/ Aligned.kind \in Bounds) /\ AlignOnly
  BY DEF SpAlignBound, Aligning, Running
<1>2. ItemsOK(spHeadx)
  BY DEF SpInv, Types
<1>3. \E brk, i, orig, origType, bound : SetTypes(brk, i, orig, origType, bound)
  BY DEF SpAlignBound, SetBound
<1>4. Kept(spHeadx, spHeadx')
  BY <1>2, <1>3, TypesKept
<1> QED  BY <1>1, <1>4, AlignStays

LEMMA StepAlignSil == ASSUME SpInv, SpAlignSil PROVE SpInv'
<1>1. procState = "ALIGN" /\ AlignNext(spAli.suppress) /\ AlignOnly /\ spHeadx' = spHeadx
  BY DEF SpAlignSil, Aligning, Running
<1>2. Kept(spHeadx, spHeadx')
  BY <1>1, KeptSame DEF SpInv, Types
<1> QED  BY <1>1, <1>2, AlignStays

LEMMA StepAlignOther == ASSUME SpInv, SpAlignOther PROVE SpInv'
<1>1. procState = "ALIGN" /\ AlignNext(spAli.suppress /\ Aligned.kind # "WORD") /\ AlignOnly
  BY DEF SpAlignOther, Aligning, Running
<1>2. ItemsOK(spHeadx)
  BY DEF SpInv, Types
<1>3. (\E brk, i, orig, origType, bound : SetTypes(brk, i, orig, origType, bound)) \/ spHeadx' = spHeadx
  BY DEF SpAlignOther, SetBreak
<1>4. Kept(spHeadx, spHeadx')
  BY <1>2, <1>3, TypesKept, KeptSame
<1> QED  BY <1>1, <1>4, AlignStays

LEMMA StepAlignError == ASSUME SpInv, SpAlignError PROVE SpInv'
<1>1. /\ procState = "ALIGN" /\ procState' = "BOUNDS"
      /\ UNCHANGED << spWin, spPar, cbIn, stored, fed, told, spOut, spHeadx, spAli >>
  BY DEF SpAlignError, Aligning, Running, Leave, NoTransfer, spHist
<1>2. "out" \in DOMAIN spAli' /\ spAli'.out \in Nat
  BY <1>1 DEF SpInv, Types
<1>3. Kept(spHeadx, spHeadx')
  BY <1>1, KeptSame DEF SpInv, Types
<1>4. procState \in Between /\ procState' \in Between \cup {"RECOMB"} /\ procState' # "RECOMB"
  BY <1>1 DEF Between
<1> QED  BY <1>1, <1>2, <1>3, <1>4, StepBetween

LEMMA StepAlignEnd == ASSUME SpInv, SpAlignEnd PROVE SpInv'
<1>1. /\ procState = "ALIGN" /\ procState' = "RECOMB"
      /\ UNCHANGED << spWin, spPar, cbIn, stored, fed, told, spOut, spHeadx >>
      /\ spAli' = [out |-> 0, phon |-> 1, suppress |-> FALSE, word |-> spAli.word]
  BY DEF SpAlignEnd, Running, Leave, NoTransfer, spHist
<1>2. "out" \in DOMAIN spAli' /\ spAli'.out = 0 /\ spAli'.out \in Nat
  BY <1>1
<1>3. Kept(spHeadx, spHeadx')
  BY <1>1, KeptSame DEF SpInv, Types
<1>4. procState \in Between /\ procState' \in Between \cup {"RECOMB"}
  BY <1>1 DEF Between
<1> QED  BY <1>1, <1>2, <1>3, <1>4, StepBetween

-----------------------------------------------------------------------------
(* RECOMB and SYL.                                                           *)
LEMMA PuttingHere ==
  ASSUME SpInv, procState \in Putting
  PROVE  /\ spOut = << >> /\ Said = told /\ IsSeq(told) /\ Follow = procState /\ procState \notin Early
         /\ spWin.start \in Nat /\ spWin.end \in Nat /\ spAli.out \in Nat /\ "out" \in DOMAIN spAli
         /\ spWin.start <= spWin.end /\ spWin.end <= Len(spHeadx) /\ Len(spHeadx) \in Nat /\ spAli.out <= spWin.end
         /\ Progress = IF spAli.out < spWin.start THEN spWin.start ELSE spAli.out
         /\ ItemsOK(spHeadx) /\ fed \in Nat
         /\ procState = "SYL" =>
              spWin.start <= spAli.out /\ spAli.out < spWin.end /\ spHeadx[spAli.out + 1].kind = "WORD"
<1>1. procState # "FEED" /\ procState \notin Early /\ Follow = procState
  BY DEF Putting, Early, Follow
<1>2. spOut = << >>
  BY <1>1 DEF SpInv, Turn
<1>3. spWin \in WinType /\ RangeOK(spHeadx, spWin, spPar) /\ ItemsOK(spHeadx)
  BY <1>1 DEF SpInv, Types, Window, WinType
<1>4. Len(spHeadx) \in Nat
  BY <1>3, Lengths DEF ItemsOK
<1>5. spWin.start \in Nat /\ spWin.end \in Nat /\ spWin.start <= spWin.end /\ spWin.end <= Len(spHeadx)
  BY <1>3, <1>4 DEF WinType, RangeOK
<1>6. IsSeq(told) /\ fed \in Nat /\ spAli.out \in Nat /\ "out" \in DOMAIN spAli
  BY DEF SpInv, Types
<1>7. spAli.out <= spWin.end
  BY <1>1 DEF SpInv, Turn
<1>8. Progress = IF spAli.out < spWin.start THEN spWin.start ELSE spAli.out
  BY <1>1 DEF Progress
<1>9. procState = "SYL" =>
        spWin.start <= spAli.out /\ spAli.out < spWin.end /\ spHeadx[spAli.out + 1].kind = "WORD"
  BY <1>1 DEF SpInv, Turn
<1> QED  BY <1>1, <1>2, <1>3, <1>4, <1>5, <1>6, <1>7, <1>8, <1>9 DEF Said

LEMMA PuttingKept ==
  ASSUME SpInv, procState \in Putting, procState' \in Late, UNCHANGED << spWin, spPar, cbIn, stored, fed, told >>,
         Kept(spHeadx, spHeadx'), "out" \in DOMAIN spAli', spAli'.out \in Nat
  PROVE  /\ Types' /\ Window' /\ Grammar' /\ Len(spHeadx') = Len(spHeadx) /\ IsSeq(Waiting')
         /\ Len(Waiting') >= Len(spHeadx)
         /\ \A i \in 1 .. Len(spHeadx) :
              /\ Waiting'[i].id = spHeadx[i].id /\ Waiting'[i].kind = spHeadx[i].kind
              /\ spHeadx'[i].id = spHeadx[i].id /\ spHeadx'[i].kind = spHeadx[i].kind
         /\ Ordered(Waiting', Len(spHeadx), Progress, procState = "SYL", told, stored, fed)
<1>1. procState \notin Early /\ procState' \notin Early
  BY DEF Putting, Early, Late
<1>2. IsSeq(told') /\ Said = told /\ Follow = procState
  BY PuttingHere
<1>3. /\ Types' /\ Window' /\ Grammar' /\ Len(spHeadx') = Len(spHeadx) /\ IsSeq(Waiting')
      /\ Len(Waiting') >= Len(spHeadx)
      /\ \A i \in 1 .. Len(spHeadx) :
           /\ Waiting'[i].id = spHeadx[i].id /\ Waiting'[i].kind = spHeadx[i].kind
           /\ spHeadx'[i].id = spHeadx[i].id /\ spHeadx'[i].kind = spHeadx[i].kind
      /\ Ordered(Waiting', Len(spHeadx), Progress, Follow = "SYL", Said, stored, fed)
  BY <1>1, <1>2, LateKept
<1>4. Ordered(Waiting', Len(spHeadx), Progress, procState = "SYL", told, stored, fed)
  BY <1>2, <1>3
<1> QED  BY <1>3, <1>4

\* What a step from RECOMB or SYL has to show.
LEMMA PuttingDone ==
  ASSUME SpInv, procState \in Putting, procState' \in Late, UNCHANGED << spWin, spPar, cbIn, stored, fed, told >>,
         Kept(spHeadx, spHeadx'), "out" \in DOMAIN spAli', spAli'.out \in Nat,
         Turn', NEW p, NEW mid, NEW s, Ordered(Waiting', Len(spHeadx), p, mid, s, stored, fed),
         Progress' = p, mid => Follow' = "SYL", Said' = s
  PROVE  SpInv'
<1>1. Types' /\ Window' /\ Grammar' /\ Len(spHeadx') = Len(spHeadx)
  BY PuttingKept
<1>2. Order'
  <2>1. UNCHANGED << stored, fed >>
    OBVIOUS
  <2> QED  BY <1>1, <2>1, OrderKept
<1> QED  BY <1>1, <1>2 DEF SpInv

LEMMA StepRecombEnd == ASSUME SpInv, SpRecombEnd PROVE SpInv'
<1>1. /\ procState = "RECOMB" /\ procState' = "SHIFT" /\ spAli.out >= spWin.end
      /\ UNCHANGED << spWin, spPar, cbIn, stored, fed, told, spHeadx, spAli, spOut >>
  BY DEF SpRecombEnd, Running, Go, RecombOnly, NoTransfer, spHist
<1>2. procState \in Putting /\ procState' \in Late
  BY <1>1 DEF Putting, Late
<1>3. Kept(spHeadx, spHeadx')
  BY <1>1, KeptSame DEF SpInv, Types
<1>4. /\ spOut = << >> /\ Said = told /\ Follow = procState
      /\ spWin.start \in Nat /\ spWin.end \in Nat /\ spAli.out \in Nat /\ "out" \in DOMAIN spAli
      /\ spWin.start <= spWin.end /\ spAli.out <= spWin.end
      /\ Progress = IF spAli.out < spWin.start THEN spWin.start ELSE spAli.out
  BY <1>2, PuttingHere
<1>5. "out" \in DOMAIN spAli' /\ spAli'.out \in Nat
  BY <1>1, <1>4
<1>6. Follow' = "SHIFT" /\ Said' = told
  BY <1>1, <1>4 DEF Follow, Said
<1>7. Progress = spWin.end /\ Progress' = spWin.end
  BY <1>1, <1>4, <1>6 DEF Progress, Putting
<1>8. Turn'
  BY <1>1, <1>4, <1>6 DEF Turn, Late, Putting
<1> DEFINE mid == procState = "SYL"
<1>9. Ordered(Waiting', Len(spHeadx), spWin.end, mid, told, stored, fed) /\ ~mid
  BY <1>1, <1>2, <1>3, <1>5, <1>7, PuttingKept
<1> HIDE DEF mid
<1> QED  BY <1>1, <1>2, <1>3, <1>5, <1>6, <1>7, <1>8, <1>9, PuttingDone

LEMMA StepRecombContext == ASSUME SpInv, SpRecombContext PROVE SpInv'
<1>1. /\ procState = "RECOMB" /\ procState' = "RECOMB" /\ spAli.out < spWin.end /\ spAli.out < spWin.start
      /\ UNCHANGED << spWin, spPar, cbIn, stored, fed, told, spHeadx, spOut >>
  BY DEF SpRecombContext, Recombining, Running, Stay, RecombOnly, NoTransfer, spHist
<1>2. procState \in Putting /\ procState' \in Late
  BY <1>1 DEF Putting, Late
<1>3. Kept(spHeadx, spHeadx')
  BY <1>1, KeptSame DEF SpInv, Types
<1>4. /\ spOut = << >> /\ Said = told /\ Follow = procState
      /\ spWin.start \in Nat /\ spWin.end \in Nat /\ spAli.out \in Nat /\ "out" \in DOMAIN spAli
      /\ spWin.start <= spWin.end /\ spAli.out <= spWin.end
      /\ Progress = IF spAli.out < spWin.start THEN spWin.start ELSE spAli.out
  BY <1>2, PuttingHere
<1>5. "out" \in DOMAIN spAli' /\ spAli'.out = spAli.out + 1 /\ spAli'.out \in Nat
  BY <1>4 DEF SpRecombContext, NextPos
<1>6. Follow' = "RECOMB" /\ Said' = told
  BY <1>1, <1>4 DEF Follow, Said
<1>7. Progress = spWin.start /\ Progress' = spWin.start
  BY <1>1, <1>4, <1>5, <1>6 DEF Progress, Putting
<1>8. Turn'
  BY <1>1, <1>4, <1>5, <1>6 DEF Turn, Late, Putting
<1> DEFINE mid == procState = "SYL"
<1>9. Ordered(Waiting', Len(spHeadx), spWin.start, mid, told, stored, fed) /\ ~mid
  BY <1>1, <1>2, <1>3, <1>5, <1>7, PuttingKept
<1> HIDE DEF mid
<1> QED  BY <1>1, <1>2, <1>3, <1>5, <1>6, <1>7, <1>8, <1>9, PuttingDone

LEMMA StepRecombSide == ASSUME SpInv, SpRecombSide PROVE SpInv'
<1> DEFINE e == [id |-> Made, kind |-> Aligned.bound.strength, type |-> Aligned.bound.type,
                 sil |-> IF Aligned.bound.strength \in Weak THEN -1 ELSE Aligned.bound.sil]
<1>1. /\ procState = "RECOMB" /\ procState' = "FEED" /\ spAli.out < spWin.end /\ spAli.out >= spWin.start
      /\ UNCHANGED << spWin, spPar, cbIn, stored, fed, told, spAli >>
      /\ spHeadx' = WithBound(spHeadx, spAli.out, NoBound) /\ spOut' = << e, "RECOMB" >>
  BY DEF SpRecombSide, AtActive, Recombining, Running, Feed, Go, RecombOnly, NoTransfer, spHist
<1>2. procState \in Putting /\ procState' \in Late
  BY <1>1 DEF Putting, Late
<1>3. Kept(spHeadx, spHeadx')
  BY <1>1, WithBoundKept DEF SpInv, Types
<1>4. /\ spOut = << >> /\ Said = told /\ IsSeq(told) /\ Follow = procState
      /\ spWin.start \in Nat /\ spWin.end \in Nat /\ spAli.out \in Nat /\ "out" \in DOMAIN spAli
      /\ spWin.start <= spWin.end /\ spAli.out <= spWin.end
      /\ Progress = IF spAli.out < spWin.start THEN spWin.start ELSE spAli.out
  BY <1>2, PuttingHere
<1>5. "out" \in DOMAIN spAli' /\ spAli'.out = spAli.out /\ spAli'.out \in Nat
  BY <1>1, <1>4
<1>6. e.id = 0
  BY DEF Made
<1> HIDE DEF e
<1>7. Len(spOut') = 2 /\ spOut'[1] = e /\ spOut'[2] = "RECOMB" /\ spOut' # << >>
  BY <1>1
<1>8. Follow' = "RECOMB" /\ Said' = Append(told, e)
  BY <1>1, <1>7 DEF Follow, Said
<1>9. Progress = spAli.out /\ Progress' = spAli.out
  BY <1>1, <1>4, <1>5, <1>8 DEF Progress, Putting
<1>10. Turn'
  BY <1>1, <1>4, <1>5, <1>7, <1>8 DEF Turn, Late, Putting
<1>11. Ordered(Waiting', Len(spHeadx), spAli.out, FALSE, told, stored, fed)
  <2> DEFINE mid == procState = "SYL"
  <2>1. Ordered(Waiting', Len(spHeadx), spAli.out, mid, told, stored, fed)
    BY <1>1, <1>2, <1>3, <1>5, <1>9, PuttingKept
  <2>2. mid = FALSE
    BY <1>1
  <2> HIDE DEF mid
  <2> QED  BY <2>1, <2>2
<1>12. Ordered(Waiting', Len(spHeadx), spAli.out, FALSE, Append(told, e), stored, fed)
  <2> DEFINE w == Waiting'
             n == Len(spHeadx)
             p == spAli.out
  <2>1. IsSeq(told) /\ Ordered(w, n, p, FALSE, told, stored, fed)
    BY <1>4, <1>11
  <2> HIDE DEF w, n, p
  <2>2. Ordered(w, n, p, FALSE, Append(told, e), stored, fed)
    BY <1>6, <2>1, OrderedMade
  <2> QED  BY <2>2 DEF w, n, p
<1> QED  BY <1>1, <1>2, <1>3, <1>5, <1>8, <1>9, <1>10, <1>11, <1>12, PuttingDone

\* A bound or a pause is passed: bounds were put with the word or the command behind.
LEMMA RecombPasses ==
  ASSUME SpInv, procState = "RECOMB", procState' = "RECOMB", spAli.out < spWin.end, spAli.out >= spWin.start,
         UNCHANGED << spWin, spPar, cbIn, stored, fed, told, spHeadx, spOut >>,
         "out" \in DOMAIN spAli', spAli'.out = spAli.out + 1, Aligned.kind \in Silent
  PROVE  SpInv'
<1>2. procState \in Putting /\ procState' \in Late
  BY DEF Putting, Late
<1>3. Kept(spHeadx, spHeadx')
  BY KeptSame DEF SpInv, Types
<1>4. /\ spOut = << >> /\ Said = told /\ IsSeq(told) /\ Follow = procState
      /\ spWin.start \in Nat /\ spWin.end \in Nat /\ spAli.out \in Nat /\ "out" \in DOMAIN spAli
      /\ spWin.start <= spWin.end /\ spWin.end <= Len(spHeadx) /\ Len(spHeadx) \in Nat /\ spAli.out <= spWin.end
      /\ Progress = IF spAli.out < spWin.start THEN spWin.start ELSE spAli.out
      /\ fed \in Nat
  BY <1>2, PuttingHere
<1>5. spAli'.out \in Nat
  BY <1>4
<1>6. Follow' = "RECOMB" /\ Said' = told
  BY <1>4 DEF Follow, Said
<1>7. Progress = spAli.out /\ Progress' = spAli.out + 1
  BY <1>4, <1>5, <1>6 DEF Progress, Putting
<1>8. Turn'
  BY <1>4, <1>5, <1>6 DEF Turn, Late, Putting
<1> DEFINE mid == procState = "SYL"
<1>9. /\ Ordered(Waiting', Len(spHeadx), spAli.out, mid, told, stored, fed) /\ IsSeq(Waiting')
      /\ Len(Waiting') >= Len(spHeadx) /\ \A i \in 1 .. Len(spHeadx) : Waiting'[i].kind = spHeadx[i].kind
  BY <1>2, <1>3, <1>5, <1>7, PuttingKept
<1> HIDE DEF mid
<1>10. Waiting'[spAli.out + 1].kind \in Silent
  <2>1. spAli.out + 1 \in 1 .. Len(spHeadx)
    BY <1>4
  <2> QED  BY <2>1, <1>9 DEF Aligned, Item
<1>11. Ordered(Waiting', Len(spHeadx), spAli.out + 1, FALSE, told, stored, fed)
  <2> DEFINE w == Waiting'
             n == Len(spHeadx)
             p == spAli.out
  <2>1. /\ IsSeq(w) /\ n \in Nat /\ n <= Len(w) /\ p \in Nat /\ p < n /\ fed \in Nat
        /\ Ordered(w, n, p, mid, told, stored, fed) /\ w[p + 1].kind \in Silent
    BY <1>4, <1>9, <1>10, Lengths
  <2> HIDE DEF w, n, p
  <2>2. Ordered(w, n, p + 1, FALSE, told, stored, fed)
    BY <2>1, OrderedPass
  <2> QED  BY <2>2 DEF w, n, p
<1> QED  BY <1>2, <1>3, <1>5, <1>6, <1>7, <1>8, <1>11, PuttingDone

LEMMA StepRecombBound == ASSUME SpInv, SpRecombBound PROVE SpInv'
<1>1. /\ procState = "RECOMB" /\ procState' = "RECOMB" /\ spAli.out < spWin.end /\ spAli.out >= spWin.start
      /\ UNCHANGED << spWin, spPar, cbIn, stored, fed, told, spHeadx, spOut >> /\ Aligned.kind \in Silent
  BY DEF SpRecombBound, AtActive, Recombining, Running, Stay, RecombOnly, NoTransfer, spHist, Silent, WithPhones
<1>2. "out" \in DOMAIN spAli' /\ spAli'.out = spAli.out + 1
  BY DEF SpRecombBound, NextPos, SpInv, Types
<1> QED  BY <1>1, <1>2, RecombPasses

LEMMA StepRecombSil == ASSUME SpInv, SpRecombSil PROVE SpInv'
<1>1. /\ procState = "RECOMB" /\ procState' = "RECOMB" /\ spAli.out < spWin.end /\ spAli.out >= spWin.start
      /\ UNCHANGED << spWin, spPar, cbIn, stored, fed, told, spHeadx, spOut >> /\ Aligned.kind \in Silent
  BY DEF SpRecombSil, AtActive, Recombining, Running, Stay, RecombOnly, NoTransfer, spHist, Silent
<1>2. "out" \in DOMAIN spAli' /\ spAli'.out = spAli.out + 1
  BY DEF SpRecombSil, NextPos, SpInv, Types
<1> QED  BY <1>1, <1>2, RecombPasses


LEMMA StepRecombOther == ASSUME SpInv, SpRecombOther PROVE SpInv'
<1> DEFINE e == [id |-> Aligned.id, kind |-> Aligned.kind]
<1>1. /\ procState = "RECOMB" /\ procState' = "FEED" /\ spAli.out < spWin.end /\ spAli.out >= spWin.start
      /\ UNCHANGED << spWin, spPar, cbIn, stored, fed, told, spHeadx >>
      /\ spOut' = << e, "RECOMB" >> /\ Aligned.kind \notin Silent /\ spAli' = [spAli EXCEPT !.out = NextPos]
  BY DEF SpRecombOther, AtActive, Recombining, Running, Feed, Go, RecombOnly, NoTransfer, spHist, Silent
<1>2. procState \in Putting /\ procState' \in Late
  BY <1>1 DEF Putting, Late
<1>3. Kept(spHeadx, spHeadx')
  BY <1>1, KeptSame DEF SpInv, Types
<1>4. /\ spOut = << >> /\ Said = told /\ IsSeq(told) /\ Follow = procState
      /\ spWin.start \in Nat /\ spWin.end \in Nat /\ spAli.out \in Nat /\ "out" \in DOMAIN spAli
      /\ spWin.start <= spWin.end /\ spWin.end <= Len(spHeadx) /\ Len(spHeadx) \in Nat /\ spAli.out <= spWin.end
      /\ Progress = IF spAli.out < spWin.start THEN spWin.start ELSE spAli.out
      /\ fed \in Nat
  BY <1>2, PuttingHere
<1>5. "out" \in DOMAIN spAli' /\ spAli'.out = spAli.out + 1 /\ spAli'.out \in Nat
  BY <1>1, <1>4 DEF NextPos
<1>6. e.id = spHeadx[spAli.out + 1].id /\ e.kind = spHeadx[spAli.out + 1].kind /\ e.kind \notin Silent
  BY <1>1 DEF Aligned, Item
<1> HIDE DEF e
<1>7. Len(spOut') = 2 /\ spOut'[1] = e /\ spOut'[2] = "RECOMB" /\ spOut' # << >>
  BY <1>1
<1>8. Follow' = "RECOMB" /\ Said' = Append(told, e)
  BY <1>1, <1>7 DEF Follow, Said
<1>9. Progress = spAli.out /\ Progress' = spAli.out + 1
  BY <1>1, <1>4, <1>5, <1>8 DEF Progress, Putting
<1>10. Turn'
  BY <1>1, <1>4, <1>5, <1>7, <1>8 DEF Turn, Late, Putting
<1>11. /\ Ordered(Waiting', Len(spHeadx), spAli.out, FALSE, told, stored, fed) /\ IsSeq(Waiting')
       /\ Len(Waiting') >= Len(spHeadx)
       /\ \A i \in 1 .. Len(spHeadx) : Waiting'[i].id = spHeadx[i].id /\ Waiting'[i].kind = spHeadx[i].kind
  <2> DEFINE mid == procState = "SYL"
  <2>1. /\ Ordered(Waiting', Len(spHeadx), spAli.out, mid, told, stored, fed) /\ IsSeq(Waiting')
        /\ Len(Waiting') >= Len(spHeadx)
        /\ \A i \in 1 .. Len(spHeadx) : Waiting'[i].id = spHeadx[i].id /\ Waiting'[i].kind = spHeadx[i].kind
    BY <1>1, <1>2, <1>3, <1>5, <1>9, PuttingKept
  <2>2. mid = FALSE
    BY <1>1
  <2> HIDE DEF mid
  <2> QED  BY <2>1, <2>2
<1>12. Ordered(Waiting', Len(spHeadx), spAli.out + 1, FALSE, Append(told, e), stored, fed)
  <2> DEFINE w == Waiting'
             n == Len(spHeadx)
             p == spAli.out
  <2>0. p + 1 \in 1 .. n
    BY <1>1, <1>4
  <2>1. IsSeq(w) /\ n \in Nat /\ p \in Nat /\ p < n /\ IsSeq(told) /\ fed \in Nat
    BY <1>1, <1>4, <1>11
  <2>2. e.id = w[p + 1].id /\ e.kind = w[p + 1].kind /\ w[p + 1].kind \notin Silent
    BY <1>6, <1>11, <2>0
  <2>3. n <= Len(w) /\ Ordered(w, n, p, FALSE, told, stored, fed)
    BY <1>4, <1>11, Lengths
  <2> HIDE DEF w, n, p
  <2>4. Ordered(w, n, p + 1, FALSE, Append(told, e), stored, fed)
    BY <2>1, <2>2, <2>3, OrderedItem
  <2> QED  BY <2>4 DEF w, n, p
<1> QED  BY <1>1, <1>2, <1>3, <1>5, <1>8, <1>9, <1>10, <1>12, PuttingDone

LEMMA StepRecombWord == ASSUME SpInv, SpRecombWord PROVE SpInv'
<1>1. /\ procState = "RECOMB" /\ procState' = "SYL" /\ spAli.out < spWin.end /\ spAli.out >= spWin.start
      /\ UNCHANGED << spWin, spPar, cbIn, stored, fed, told, spHeadx, spOut >> /\ Aligned.kind = "WORD"
      /\ spAli' = [spAli EXCEPT !.phon = IF spAli.suppress THEN @ ELSE AfterSym(@), !.suppress = FALSE, !.word = TRUE]
  BY DEF SpRecombWord, AtActive, Recombining, Running, Go, RecombOnly, NoTransfer, spHist
<1>2. procState \in Putting /\ procState' \in Late
  BY <1>1 DEF Putting, Late
<1>3. Kept(spHeadx, spHeadx')
  BY <1>1, KeptSame DEF SpInv, Types
<1>4. /\ spOut = << >> /\ Said = told /\ Follow = procState
      /\ spWin.start \in Nat /\ spWin.end \in Nat /\ spAli.out \in Nat /\ "out" \in DOMAIN spAli
      /\ spWin.start <= spWin.end /\ spAli.out <= spWin.end
      /\ Progress = IF spAli.out < spWin.start THEN spWin.start ELSE spAli.out
  BY <1>2, PuttingHere
<1>5. "out" \in DOMAIN spAli' /\ spAli'.out = spAli.out /\ spAli'.out \in Nat
  BY <1>1, <1>4
<1>6. Follow' = "SYL" /\ Said' = told
  BY <1>1, <1>4 DEF Follow, Said
<1>7. Progress = spAli.out /\ Progress' = spAli.out
  BY <1>1, <1>4, <1>5, <1>6 DEF Progress, Putting
<1>8. Turn'
  BY <1>1, <1>4, <1>5, <1>6 DEF Turn, Late, Putting, Aligned, Item
<1> DEFINE mid == procState = "SYL"
<1>9. Ordered(Waiting', Len(spHeadx), spAli.out, mid, told, stored, fed)
  BY <1>1, <1>2, <1>3, <1>5, <1>7, PuttingKept
<1> HIDE DEF mid
<1>10. Ordered(Waiting', Len(spHeadx), spAli.out, TRUE, told, stored, fed)
  <2> DEFINE w == Waiting'
             n == Len(spHeadx)
             p == spAli.out
  <2> HIDE DEF w, n, p
  <2>1. Ordered(w, n, p, mid, told, stored, fed)
    BY <1>9 DEF w, n, p
  <2>2. Ordered(w, n, p, TRUE, told, stored, fed)
    BY <2>1, OrderedBegin
  <2> QED  BY <2>2 DEF w, n, p
<1> QED  BY <1>1, <1>2, <1>3, <1>5, <1>6, <1>7, <1>8, <1>10, PuttingDone

LEMMA StepRecombError == ASSUME SpInv, SpRecombError PROVE SpInv'
<1>1. /\ procState = "RECOMB" /\ procState' = "RECOMB"
      /\ UNCHANGED << spWin, spPar, cbIn, stored, fed, told, spHeadx, spAli, spOut >>
  BY DEF SpRecombError, Wrong, AtActive, Recombining, Running, Leave, RecombOnly, NoTransfer, spHist
<1>2. procState \in Putting /\ procState' \in Late
  BY <1>1 DEF Putting, Late
<1>3. Kept(spHeadx, spHeadx')
  BY <1>1, KeptSame DEF SpInv, Types
<1>4. /\ spOut = << >> /\ Said = told /\ Follow = procState
      /\ spWin.start \in Nat /\ spWin.end \in Nat /\ spAli.out \in Nat /\ "out" \in DOMAIN spAli
      /\ spWin.start <= spWin.end /\ spAli.out <= spWin.end
      /\ Progress = IF spAli.out < spWin.start THEN spWin.start ELSE spAli.out
  BY <1>2, PuttingHere
<1>5. "out" \in DOMAIN spAli' /\ spAli'.out = spAli.out /\ spAli'.out \in Nat
  BY <1>1, <1>4
<1>6. Follow' = "RECOMB" /\ Said' = told
  BY <1>1, <1>4 DEF Follow, Said
<1>7. Progress' = Progress
  BY <1>1, <1>4, <1>5, <1>6 DEF Progress, Putting
<1>8. Turn'
  BY <1>1, <1>4, <1>5, <1>6 DEF Turn, Late, Putting
<1> DEFINE mid == procState = "SYL"
           p == Progress
<1>9. Ordered(Waiting', Len(spHeadx), p, mid, told, stored, fed) /\ ~mid /\ Progress' = p
  BY <1>1, <1>2, <1>3, <1>5, <1>7, PuttingKept
<1> HIDE DEF mid, p
<1> QED  BY <1>1, <1>2, <1>3, <1>5, <1>6, <1>8, <1>9, PuttingDone

LEMMA StepSyl == ASSUME SpInv, SpSyl PROVE SpInv'
<1>1. /\ procState = "SYL" /\ UNCHANGED << spWin, spPar, cbIn, stored, fed, told, spHeadx >>
  BY DEF SpSyl, Running, RecombOnly, NoTransfer, spHist
<1>2. procState \in Putting
  BY <1>1 DEF Putting
<1>3. PICK from, to :
     LET more == HasSym(to, NextPos)
         follow == IF more THEN "SYL" ELSE "RECOMB"
     IN /\ spAli' = [spAli EXCEPT !.out = IF more THEN @ ELSE NextPos,
                                  !.phon = SylFrom(to, more), !.word = FALSE]
        /\ IF to = from THEN Go(follow) /\ UNCHANGED spOut
           ELSE Feed([id |-> Aligned.id, kind |-> "SYLL",
                      tag |-> IF spAli.word THEN NextSym(AfterSym(spAli.phon)) ELSE "NA",
                      acc |-> NextSym(spAli.phon), phones |-> SylPhones(from, to)], follow)
  BY Zenon DEF SpSyl
<1> DEFINE more == HasSym(to, NextPos)
           phon == SylFrom(to, more)
           e == [id |-> Aligned.id, kind |-> "SYLL",
                 tag |-> IF spAli.word THEN NextSym(AfterSym(spAli.phon)) ELSE "NA",
                 acc |-> NextSym(spAli.phon), phones |-> SylPhones(from, to)]
<1>4. /\ more \in BOOLEAN
      /\ spAli' = [spAli EXCEPT !.out = IF more THEN @ ELSE NextPos, !.phon = phon, !.word = FALSE]
      /\ \/ procState' = (IF more THEN "SYL" ELSE "RECOMB") /\ spOut' = spOut
         \/ /\ procState' = "FEED" /\ spOut' = << e, IF more THEN "SYL" ELSE "RECOMB" >>
            /\ e.id = Aligned.id /\ e.kind = "SYLL"
  <2>1. e.id = Aligned.id /\ e.kind = "SYLL" /\ more \in BOOLEAN
    BY DEF HasSym
  <2>2. /\ spAli' = [spAli EXCEPT !.out = IF more THEN @ ELSE NextPos, !.phon = phon, !.word = FALSE]
        /\ \/ procState' = (IF more THEN "SYL" ELSE "RECOMB") /\ spOut' = spOut
           \/ procState' = "FEED" /\ spOut' = << e, IF more THEN "SYL" ELSE "RECOMB" >>
    BY <1>3, Zenon DEF Go, Feed
  <2> HIDE DEF e, more, phon
  <2> QED  BY <2>1, <2>2
<1> HIDE DEF e, more, phon
<1> DEFINE follow == IF more THEN "SYL" ELSE "RECOMB"
           fed1 == procState' = "FEED"
<1>5. procState' \in Late
  BY <1>4 DEF Late
<1>6. Kept(spHeadx, spHeadx')
  BY <1>1, KeptSame DEF SpInv, Types
<1>7. /\ spOut = << >> /\ Said = told /\ IsSeq(told) /\ Follow = procState
      /\ spWin.start \in Nat /\ spWin.end \in Nat /\ spAli.out \in Nat /\ "out" \in DOMAIN spAli
      /\ spWin.start <= spWin.end /\ spWin.end <= Len(spHeadx) /\ Len(spHeadx) \in Nat
      /\ Progress = IF spAli.out < spWin.start THEN spWin.start ELSE spAli.out
      /\ fed \in Nat
      /\ spWin.start <= spAli.out /\ spAli.out < spWin.end /\ spHeadx[spAli.out + 1].kind = "WORD"
  BY <1>1, <1>2, PuttingHere
<1>8. "out" \in DOMAIN spAli' /\ spAli'.out = (IF more THEN spAli.out ELSE spAli.out + 1) /\ spAli'.out \in Nat
  BY <1>4, <1>7 DEF NextPos
<1>9. Follow' = follow
  BY <1>4 DEF Follow
<1>10. Said' = told \/ (Said' = Append(told, e) /\ e.id = spHeadx[spAli.out + 1].id /\ e.kind = "SYLL")
  <2>1. CASE procState' = (IF more THEN "SYL" ELSE "RECOMB") /\ spOut' = spOut
    BY <2>1, <1>1, <1>7 DEF Said
  <2>2. CASE /\ procState' = "FEED" /\ spOut' = << e, IF more THEN "SYL" ELSE "RECOMB" >>
             /\ e.id = Aligned.id /\ e.kind = "SYLL"
    <3>1. spOut' # << >> /\ spOut'[1] = e
      BY <2>2
    <3> QED  BY <2>2, <3>1, <1>1 DEF Said, Aligned, Item
  <2> QED  BY <1>4, <2>1, <2>2
<1>11. Progress = spAli.out /\ Progress' = (IF more THEN spAli.out ELSE spAli.out + 1)
  BY <1>1, <1>7, <1>8, <1>9 DEF Progress, Putting
<1>12. Turn'
  <2>1. procState' # "FEED" => spOut' = << >>
    BY <1>4, <1>7
  <2>2. procState' = "FEED" => Len(spOut') = 2 /\ spOut'[2] \in Putting
    BY <1>4 DEF Putting
  <2> QED  BY <2>1, <2>2, <1>1, <1>5, <1>7, <1>8, <1>9 DEF Turn, Late, Putting
<1>13. /\ Ordered(Waiting', Len(spHeadx), spAli.out, TRUE, told, stored, fed) /\ IsSeq(Waiting')
       /\ Len(Waiting') >= Len(spHeadx)
       /\ \A i \in 1 .. Len(spHeadx) : Waiting'[i].id = spHeadx[i].id /\ Waiting'[i].kind = spHeadx[i].kind
  <2> DEFINE mid == procState = "SYL"
  <2>1. /\ Ordered(Waiting', Len(spHeadx), spAli.out, mid, told, stored, fed) /\ IsSeq(Waiting')
        /\ Len(Waiting') >= Len(spHeadx)
        /\ \A i \in 1 .. Len(spHeadx) : Waiting'[i].id = spHeadx[i].id /\ Waiting'[i].kind = spHeadx[i].kind
    BY <1>1, <1>2, <1>5, <1>6, <1>8, <1>11, PuttingKept
  <2>2. mid = TRUE
    BY <1>1
  <2> HIDE DEF mid
  <2> QED  BY <2>1, <2>2
<1> DEFINE w == Waiting'
           n == Len(spHeadx)
           p == spAli.out
           s == Said'
<1>14. /\ IsSeq(w) /\ n \in Nat /\ n <= Len(w) /\ p \in Nat /\ p < n /\ w[p + 1].kind = "WORD"
       /\ w[p + 1].id = spHeadx[spAli.out + 1].id
  <2>1. p + 1 \in 1 .. n
    BY <1>7
  <2>2. w[p + 1].kind = "WORD" /\ w[p + 1].id = spHeadx[spAli.out + 1].id
    BY <1>7, <1>13, <2>1
  <2>3. n <= Len(w)
    BY <1>7, <1>13, Lengths
  <2> QED  BY <1>7, <1>13, <2>1, <2>2, <2>3
<1>15. Ordered(w, n, p, TRUE, told, stored, fed)
  BY <1>13
<1>16. s = told \/ (s = Append(told, e) /\ e.id = w[p + 1].id /\ e.kind = "SYLL")
  BY <1>10, <1>14
<1> HIDE DEF w, n, p, s
<1>17. Ordered(w, n, p, TRUE, s, stored, fed)
  <2>1. CASE s = told
    BY <2>1, <1>15
  <2>2. CASE s = Append(told, e) /\ e.id = w[p + 1].id /\ e.kind = "SYLL"
    <3>1. Ordered(w, n, p, TRUE, Append(told, e), stored, fed)
      BY <2>2, <1>7, <1>14, <1>15, OrderedSyllable
    <3> QED  BY <2>2, <3>1
  <2> QED  BY <1>16, <2>1, <2>2
<1>18. w[p + 1].kind \in Silent
  BY <1>14 DEF Silent, WithPhones
<1>19. Ordered(w, n, p + 1, FALSE, s, stored, fed)
  BY <1>7, <1>14, <1>17, <1>18, OrderedPass
<1>20. CASE more
  <2>1. Ordered(Waiting', Len(spHeadx), spAli.out, TRUE, s, stored, fed) /\ Said' = s /\ Progress' = spAli.out /\ Follow' = "SYL"
    BY <1>9, <1>11, <1>17, <1>20 DEF w, n, p, s
  <2> QED  BY <1>1, <1>2, <1>5, <1>6, <1>8, <1>12, <2>1, PuttingDone
<1>21. CASE ~more
  <2>1. Ordered(Waiting', Len(spHeadx), spAli.out + 1, FALSE, s, stored, fed) /\ Said' = s /\ Progress' = spAli.out + 1
    BY <1>9, <1>11, <1>19, <1>21 DEF w, n, p, s
  <2> QED  BY <1>1, <1>2, <1>5, <1>6, <1>8, <1>12, <2>1, PuttingDone
<1> QED  BY <1>4, <1>20, <1>21

-----------------------------------------------------------------------------
(* FEED.                                                                     *)
LEMMA StepFeed == ASSUME SpInv, SpFeed PROVE SpInv'
<1>1. /\ procState = "FEED" /\ procState' = spOut[2] /\ spOut' = << >> /\ told' = Append(told, spOut[1])
      /\ UNCHANGED << spWin, spPar, spAli, cbIn, stored, fed, spHeadx >>
  BY DEF SpFeed, Running, Leave, Put
<1>2. /\ spOut[2] \in Putting \cup {"SHIFT"} /\ Len(spOut) = 2 /\ Follow = spOut[2]
      /\ spOut[2] \in Putting => spWin.start <= spAli.out
  BY <1>1 DEF SpInv, Turn, Follow
<1>3. procState \notin Early /\ procState' \notin Early /\ procState' # "FEED" /\ procState' \in Late
  BY <1>1, <1>2 DEF Early, Putting, Late
<1>4. Follow' = Follow
  BY <1>1, <1>2, <1>3 DEF Follow
<1>5. Said = Append(told, spOut[1]) /\ Said' = Said
  <2>1. spOut # << >>
    BY <1>2
  <2> QED  BY <1>1, <2>1 DEF Said
<1>6. IsSeq(told')
  BY <1>1, Appended DEF SpInv, Types
<1>7. Kept(spHeadx, spHeadx')
  BY <1>1, KeptSame DEF SpInv, Types
<1>8. "out" \in DOMAIN spAli' /\ spAli'.out \in Nat
  BY <1>1 DEF SpInv, Types
<1>9. /\ Types' /\ Window' /\ Grammar' /\ Len(spHeadx') = Len(spHeadx)
      /\ Ordered(Waiting', Len(spHeadx), Progress, Follow = "SYL", Said, stored, fed)
  BY <1>1, <1>3, <1>6, <1>7, <1>8, LateKept
<1>10. Turn'
  BY <1>1, <1>2, <1>3, <1>4 DEF SpInv, Turn
<1>11. Progress' = Progress
  BY <1>1, <1>4 DEF Progress
<1>12. Order'
  <2> DEFINE mid == Follow = "SYL"
             s == Said
             p == Progress
  <2>1. /\ Ordered(Waiting', Len(spHeadx), p, mid, s, stored, fed) /\ Progress' = p /\ (mid => Follow' = "SYL") /\ Said' = s
    BY <1>4, <1>5, <1>9, <1>11
  <2> HIDE DEF mid, s, p
  <2> QED  BY <1>1, <1>9, <2>1, OrderKept
<1> QED  BY <1>9, <1>10, <1>12 DEF SpInv

\* What the invariant is about does not change.
LEMMA StepSame ==
  ASSUME SpInv, UNCHANGED << spHeadx, spPhon, spPar, spWin, spAli, spOut, stored, told, cbIn, procState, fed >>
  PROVE  SpInv'
<1>1. Waiting' = Waiting /\ Said' = Said /\ Follow' = Follow /\ Base' = Base /\ Progress' = Progress
  BY DEF Waiting, Said, Follow, Base, Progress
<1>2. Types' /\ Turn'
  BY <1>1 DEF SpInv, Types, Turn
<1>3. Window'
  BY DEF SpInv, Window
<1>4. Grammar' /\ Order'
  BY <1>1 DEF SpInv, Grammar, Order
<1> QED  BY <1>2, <1>3, <1>4 DEF SpInv

LEMMA StepFeedFull == ASSUME SpInv, SpFeedFull PROVE SpInv'
BY StepSame DEF SpFeedFull, Return, NoTransfer, spHist

-----------------------------------------------------------------------------
(* SHIFT and INIT.                                                           *)
Cut(h, g, f, t) ==
  /\ IsSeq(g) /\ Len(g) = Len(h) - (t - f)
  /\ \A i \in 1 .. f : g[i] = h[i]
  /\ \A i \in f + 1 .. Len(g) : g[i] = h[i + (t - f)]

LEMMA WithoutCuts ==
  ASSUME ItemsOK(spHeadx), NEW f \in Nat, NEW t \in Nat, f <= t, t <= Len(spHeadx)
  PROVE  Cut(spHeadx, Without(f, t), f, t)
BY CutOut DEF ItemsOK, Cut, Without, WritePos

LEMMA CutItems ==
  ASSUME NEW h, ItemsOK(h), NEW f \in Nat, NEW t \in Nat, f <= t, t <= Len(h), NEW g, Cut(h, g, f, t)
  PROVE  ItemsOK(g) /\ Moved(h, g, 0, f, 0) /\ Moved(h, g, t, Len(h), t - f)
<1> DEFINE n == Len(h)
           d == t - f
           l == Len(g)
<1>1. IsSeq(h) /\ n \in Nat /\ d \in Nat /\ f + d = t /\ t <= n
  BY Lengths DEF ItemsOK
<1>2. \A i \in 1 .. n : ItemOK(h[i])
  BY DEF ItemsOK
<1>3. IsSeq(g) /\ l = n - d /\ (\A i \in 1 .. f : g[i] = h[i]) /\ (\A i \in f + 1 .. l : g[i] = h[i + d])
  BY DEF Cut
<1> HIDE DEF d, n, l
<1>4. ItemsOK(g)
  <2>1. ASSUME NEW i \in 1 .. l PROVE ItemOK(g[i])
    <3>1. CASE i <= f
      <4>1. i \in 1 .. f /\ i \in 1 .. n
        BY <3>1, <1>1
      <4> QED  BY <4>1, <1>2, <1>3
    <3>2. CASE i > f
      <4>1. i \in f + 1 .. l /\ i + d \in 1 .. n
        BY <3>2, <1>1, <1>3
      <4> QED  BY <4>1, <1>2, <1>3
    <3> QED  BY <3>1, <3>2, <1>1
  <2> QED  BY <2>1, <1>3 DEF ItemsOK, l
<1>5. Moved(h, g, 0, f, 0)
  <2> SUFFICES ASSUME NEW i \in 0 .. f - 1
               PROVE  ItemOK(h[i + 1]) /\ g[i - 0 + 1].kind = h[i + 1].kind /\ g[i - 0 + 1].phones = h[i + 1].phones
    BY DEF Moved
  <2>1. i + 1 \in 1 .. f /\ i + 1 \in 1 .. n /\ i - 0 + 1 = i + 1
    BY <1>1
  <2> QED  BY <2>1, <1>2, <1>3
<1>6. Moved(h, g, t, n, d)
  <2> SUFFICES ASSUME NEW i \in t .. n - 1
               PROVE  ItemOK(h[i + 1]) /\ g[i - d + 1].kind = h[i + 1].kind /\ g[i - d + 1].phones = h[i + 1].phones
    BY DEF Moved
  <2>1. i + 1 \in 1 .. n /\ i - d + 1 \in f + 1 .. l /\ (i - d + 1) + d = i + 1
    BY <1>1, <1>3
  <2>2. g[i - d + 1] = h[i + 1]
    BY <2>1, <1>3
  <2> QED  BY <2>1, <2>2, <1>2
<1> QED  BY <1>4, <1>5, <1>6 DEF n, d

LEMMA CutWaiting ==
  ASSUME NEW h, ItemsOK(h), NEW u, ItemsOK(u), NEW f \in Nat, NEW t \in Nat, f <= t, t <= Len(h),
         NEW g, ItemsOK(g), Cut(h, g, f, t)
  PROVE  CutLike(h \o u, g \o u, f, t)
<1> DEFINE n == Len(h)
           d == t - f
           l == Len(g)
           v == h \o u
           w == g \o u
<1>0. l = n - d /\ (\A i \in 1 .. f : g[i] = h[i]) /\ (\A i \in f + 1 .. l : g[i] = h[i + d])
  BY DEF Cut
<1>1. /\ IsSeq(h) /\ IsSeq(g) /\ IsSeq(u) /\ n \in Nat /\ d \in Nat /\ f + d = t /\ t <= n
      /\ Len(u) \in Nat /\ l \in Nat
  BY Lengths DEF ItemsOK
<1>2. IsSeq(v) /\ Len(v) = n + Len(u) /\ (\A i \in 1 .. n : v[i] = h[i]) /\ (\A i \in 1 .. Len(u) : v[n + i] = u[i])
  <2>1. IsSeq(h) /\ IsSeq(u)
    BY <1>1
  <2> QED  BY <2>1, Joined
<1>3. IsSeq(w) /\ Len(w) = l + Len(u) /\ (\A i \in 1 .. l : w[i] = g[i]) /\ (\A i \in 1 .. Len(u) : w[l + i] = u[i])
  <2>1. IsSeq(g) /\ IsSeq(u)
    BY <1>1
  <2> QED  BY <2>1, Joined
<1> HIDE DEF n, d, l, v, w
<1>5. ASSUME NEW j \in 1 .. f PROVE w[j] = v[j]
  <2>1. j \in 1 .. l /\ j \in 1 .. n
    BY <1>0, <1>1
  <2> QED  BY <2>1, <1>2, <1>3, <1>0
<1>6. ASSUME NEW j \in f + 1 .. Len(w) PROVE w[j] = v[j + d]
  <2>1. CASE j <= l
    <3>1. j \in 1 .. l /\ j \in f + 1 .. l /\ j + d \in 1 .. n
      BY <2>1, <1>0, <1>1
    <3> QED  BY <3>1, <1>2, <1>3, <1>0
  <2>2. CASE j > l
    <3>1. j - l \in 1 .. Len(u) /\ l + (j - l) = j /\ n + (j - l) = j + d
      BY <2>2, <1>0, <1>1, <1>3
    <3>2. w[l + (j - l)] = u[j - l] /\ v[n + (j - l)] = u[j - l]
      BY <3>1, <1>2, <1>3
    <3> QED  BY <3>1, <3>2
  <2> QED  BY <2>1, <2>2, <1>1, <1>3
<1>7. Len(w) = Len(v) - d
  BY <1>0, <1>1, <1>2, <1>3
<1> QED  BY <1>2, <1>3, <1>5, <1>6, <1>7 DEF CutLike, d, v, w

\* What a step from SHIFT has to show.
LEMMA ShiftDone ==
  ASSUME SpInv, procState = "SHIFT", procState' = "INIT", NEW f \in Nat, NEW t \in Nat, f <= t, t <= spWin.end,
         UNCHANGED << cbIn, fed, stored, told, spAli, spOut >>, spHeadx' = Without(f, t),
         spWin' \in WinType, spPar' \in ParType, spPar'.started = spPar.started,
         spWin'.start = spWin.end - (t - f),
         NoEnd(spHeadx', 0, spWin'.start), Sized(spHeadx', 0, spWin'.start, SpPhonCap),
         ~spPar.started => spWin'.start = 0
  PROVE  SpInv'
<1> DEFINE n == Len(spHeadx)
           g == spHeadx'
           end == spWin.end
           c == end - (t - f)
           v == Waiting
           w == Waiting'
           top == fed
           flag == spPar.started
           opened == Open(stored \o cbIn)
<1>1. /\ ItemsOK(spHeadx) /\ ItemsOK(cbIn) /\ ItemsOK(stored) /\ IsSeq(told) /\ top \in Nat
      /\ "out" \in DOMAIN spAli /\ spAli.out \in Nat /\ spWin \in WinType
  BY DEF SpInv, Types, WinType
<1>2. procState \notin Early /\ Follow = "SHIFT" /\ procState' \in Early /\ Follow' = "INIT"
  BY DEF Early, Follow
<1>3. n \in Nat /\ end \in Nat /\ end <= n
  <2>1. IsSeq(spHeadx)
    BY <1>1 DEF ItemsOK
  <2>2. spWin.start \in Nat /\ spWin.end \in Int /\ spWin.start <= spWin.end /\ spWin.end <= Len(spHeadx)
    BY <1>1, <1>2 DEF SpInv, Window, RangeOK, WinType
  <2> QED  BY <2>1, <2>2, Lengths
<1>4. ItemsOK(g) /\ Cut(spHeadx, g, f, t) /\ Len(g) = n - (t - f)
  <2>1. t <= Len(spHeadx) /\ g = Without(f, t)
    BY <1>3
  <2>2. Cut(spHeadx, Without(f, t), f, t)
    BY <1>1, <2>1, WithoutCuts
  <2> HIDE DEF g, n
  <2>3. Cut(spHeadx, g, f, t)
    BY <2>1, <2>2
  <2>4. Len(g) = n - (t - f)
    BY <2>3 DEF Cut, n
  <2> QED  BY <1>1, <2>1, <2>3, <2>4, CutItems
<1>5. CutLike(v, w, f, t)
  <2>1. t <= Len(spHeadx)
    BY <1>3
  <2>2. w = g \o cbIn /\ v = spHeadx \o cbIn
    BY DEF Waiting
  <2> HIDE DEF g, v, w
  <2> QED  BY <1>1, <1>4, <2>1, <2>2, CutWaiting
<1>6. IsSeq(v) /\ Len(v) \in Nat /\ n <= Len(v)
  <2>1. IsSeq(spHeadx) /\ IsSeq(cbIn) /\ Len(cbIn) \in Nat
    BY <1>1, Lengths DEF ItemsOK
  <2>2. IsSeq(v) /\ Len(v) = Len(spHeadx) + Len(cbIn)
    BY <2>1, Joined DEF Waiting
  <2> QED  BY <1>3, <2>1, <2>2
<1>7. spWin'.start = c /\ c \in Nat /\ c <= Len(g) /\ NoEnd(g, 0, c) /\ Sized(g, 0, c, SpPhonCap) /\ (~flag => c = 0)
  <2>1. spWin'.start = c /\ NoEnd(g, 0, c) /\ Sized(g, 0, c, SpPhonCap) /\ (~flag => c = 0)
    OBVIOUS
  <2>2. c \in Nat /\ c <= Len(g)
    BY <1>3, <1>4
  <2> QED  BY <2>1, <2>2
<1>8. Types'
  BY <1>1, <1>4 DEF Types, WinType, ParType
<1>9. Turn'
  <2>1. spOut' = << >>
    BY DEF SpInv, Turn
  <2> QED  BY <1>2, <2>1 DEF Turn, Early, Putting
<1>10. Window'
  <2> HIDE DEF c, g, flag
  <2>1. spHeadx' = g /\ spWin'.start = c /\ (~spPar'.started => c = 0)
    BY <1>7 DEF g, flag
  <2> QED  BY <1>2, <1>7, <2>1 DEF Window, Early
<1>11. Said = told /\ Said' = told
  <2>1. spOut = << >>
    BY DEF SpInv, Turn
  <2> QED  BY <2>1 DEF Said
<1>12. /\ GrammarOf(v, end, flag, opened) /\ Base' = 0
       /\ Ordered(v, n, end, FALSE, told, stored, top) /\ Progress' = c
  <2>1. Base = end /\ Progress = end /\ Base' = 0 /\ Progress' = spWin'.start /\ ~(Follow = "SYL")
    BY <1>2 DEF Base, Progress, Early, Putting
  <2>2. GrammarOf(v, end, flag, opened)
    BY <2>1 DEF SpInv, Grammar
  <2> DEFINE mid == Follow = "SYL"
  <2>3. Ordered(v, n, end, mid, told, stored, top)
    BY <1>11, <2>1 DEF SpInv, Order
  <2>4. mid = FALSE
    BY <2>1
  <2> HIDE DEF mid
  <2> QED  BY <1>7, <2>1, <2>2, <2>3, <2>4
<1>13. \A j \in 1 .. c : w[j].kind \notin SentEnd
  <2>1. ASSUME NEW j \in 1 .. c PROVE w[j].kind \notin SentEnd
    <3>1. IsSeq(g) /\ IsSeq(cbIn)
      BY <1>1, <1>4 DEF ItemsOK
    <3>2. \A i \in 1 .. Len(g) : w[i] = g[i]
      BY <3>1, Joined DEF Waiting
    <3>3. j - 1 \in 0 .. c - 1 /\ j \in 1 .. Len(g) /\ (j - 1) + 1 = j /\ Len(g) \in Nat
      BY <1>7, <3>1, Lengths
    <3> HIDE DEF c, g, w
    <3>4. g[(j - 1) + 1].kind \notin SentEnd
      BY <1>7, <3>3 DEF NoEnd
    <3> QED  BY <3>2, <3>3, <3>4
  <2> QED  BY <2>1
<1>14. Len(spHeadx') = n - (t - f) /\ UNCHANGED << stored, fed, cbIn >> /\ spPar'.started = flag /\ top = fed
       /\ v = Waiting /\ w = Waiting' /\ opened = Open(stored \o cbIn)' /\ c = end - (t - f)
  BY <1>4
<1> HIDE DEF n, g, end, c, v, w, top, flag, opened
<1>15. GrammarOf(w, c, flag, opened)
  <2>1. t <= end /\ end <= Len(v) /\ c = end - (t - f)
    BY <1>3, <1>6, <1>14 DEF end
  <2> HIDE DEF c
  <2>2. GrammarOf(w, end - (t - f), flag, opened)
    BY <1>3, <1>5, <1>12, <2>1, GrammarShift
  <2> QED  BY <2>1, <2>2
<1>16. GrammarOf(w, 0, flag, opened)
  <2>1. IsSeq(w) /\ c <= Len(w)
    <3>1. IsSeq(w) /\ Len(w) = Len(v) - (t - f)
      BY <1>5 DEF CutLike
    <3> QED  BY <3>1, <1>3, <1>6, <1>7, <1>14
  <2>2. 0 \in Nat /\ 0 <= c /\ (flag \/ 0 = c) /\ \A j \in 0 + 1 .. c : w[j].kind \notin SentEnd
    BY <1>7, <1>13
  <2> QED  BY <1>7, <1>15, <2>1, <2>2, GrammarBack
<1>17. Ordered(w, n - (t - f), c, FALSE, told, stored, top)
  <2>1. t <= end /\ end <= n /\ n <= Len(v) /\ c = end - (t - f)
    BY <1>3, <1>6, <1>14 DEF end
  <2> HIDE DEF c
  <2>2. Ordered(w, n - (t - f), end - (t - f), FALSE, told, stored, top)
    BY <1>1, <1>3, <1>5, <1>12, <2>1, OrderedCut
  <2> QED  BY <2>1, <2>2
<1>18. Grammar'
  BY <1>12, <1>14, <1>16 DEF Grammar
<1>19. Order'
  <2> DEFINE mid == (Follow = "SYL")'
  <2>1. mid = FALSE
    BY <1>2
  <2>2. Ordered(w, n - (t - f), c, mid, told, stored, top)
    BY <1>17, <2>1
  <2> HIDE DEF mid
  <2> QED  BY <1>11, <1>12, <1>14, <2>2 DEF Order, mid
<1> QED  BY <1>8, <1>9, <1>10, <1>18, <1>19 DEF SpInv

LEMMA WinSet ==
  ASSUME NEW w \in WinType, NEW v, DOMAIN v = DOMAIN w, v = [x \in DOMAIN v |-> v[x]],
         v.start \in Nat, v.pen \in Int, v.end \in Int
  PROVE  v \in WinType
<1>1. DOMAIN v = {"start", "pen", "end"}
  BY DEF WinType
<1>2. v = [start |-> v.start, pen |-> v.pen, end |-> v.end]
  BY <1>1
<1> QED  BY <1>2 DEF WinType

LEMMA ParSet ==
  ASSUME NEW w \in ParType, NEW v, DOMAIN v = DOMAIN w, v = [x \in DOMAIN v |-> v[x]],
         v.rd \in Nat, v.started \in BOOLEAN, v.suppress \in BOOLEAN
  PROVE  v \in ParType
<1>1. DOMAIN v = {"rd", "started", "suppress"}
  BY DEF ParType
<1>2. v = [rd |-> v.rd, started |-> v.started, suppress |-> v.suppress]
  BY <1>1
<1> QED  BY <1>2 DEF ParType

LEMMA InWin ==
  ASSUME NEW w \in WinType
  PROVE  /\ w = [x \in DOMAIN w |-> w[x]] /\ {"start", "pen", "end"} = DOMAIN w
         /\ w.start \in Nat /\ w.pen \in Int /\ w.end \in Int
BY DEF WinType

LEMMA InPar ==
  ASSUME NEW w \in ParType
  PROVE  /\ w = [x \in DOMAIN w |-> w[x]] /\ {"rd", "started", "suppress"} = DOMAIN w
         /\ w.rd \in Nat /\ w.started \in BOOLEAN /\ w.suppress \in BOOLEAN
BY DEF ParType

LEMMA ShiftHere ==
  ASSUME SpInv, procState = "SHIFT"
  PROVE  /\ ItemsOK(spHeadx) /\ spWin \in WinType /\ spPar \in ParType /\ Len(spHeadx) \in Nat
         /\ spWin.start \in Nat /\ spWin.end \in Nat /\ spWin.pen \in Int
         /\ spWin.start <= spWin.end /\ spWin.end <= Len(spHeadx)
         /\ NoEnd(spHeadx, 0, spWin.start) /\ Sized(spHeadx, 0, spWin.start, SpPhonCap)
         /\ spWin.pen # Invalid =>
              /\ spWin.start <= spWin.pen /\ spWin.pen <= spWin.end
              /\ Sized(spHeadx, spWin.pen, spWin.end, SpPhonCap) /\ NoEnd(spHeadx, spWin.pen, spWin.end)
         /\ ~spPar.started => spWin.pen = spWin.end \/ (spWin.pen = Invalid /\ spWin.start = 0)
<1>1. procState \notin Early
  BY DEF Early
<1>2. ItemsOK(spHeadx) /\ spWin \in WinType /\ spPar \in ParType
  BY DEF SpInv, Types, WinType, ParType
<1>3. Len(spHeadx) \in Nat
  BY <1>2, Lengths DEF ItemsOK
<1>4. RangeOK(spHeadx, spWin, spPar) /\ NoEnd(spHeadx, 0, spWin.start) /\ Sized(spHeadx, 0, spWin.start, SpPhonCap)
  BY <1>1 DEF SpInv, Window
<1> QED  BY <1>2, <1>3, <1>4 DEF RangeOK, WinType

LEMMA StepShift == ASSUME SpInv, SpShift PROVE SpInv'
<1> DEFINE h == spHeadx
           g == spHeadx'
           pen == spWin.pen
           end == spWin.end
           n == Len(spHeadx)
<1>1. /\ procState = "SHIFT" /\ procState' = "INIT" /\ pen # Invalid /\ g = Without(0, pen)
      /\ spWin' = [spWin EXCEPT !.start = spWin.end - spWin.pen, !.pen = 0]
      /\ spPar' = [spPar EXCEPT !.suppress = FALSE]
      /\ UNCHANGED << cbIn, fed, stored, told, spAli, spOut >>
  BY DEF SpShift, ShiftOnly, Running, Go, NoTransfer, spHist
<1>2. /\ ItemsOK(h) /\ spWin \in WinType /\ spPar \in ParType /\ n \in Nat
      /\ pen \in Nat /\ end \in Nat /\ pen <= end /\ end <= n
      /\ Sized(h, pen, end, SpPhonCap) /\ NoEnd(h, pen, end)
      /\ ~spPar.started => pen = end
  BY <1>1, ShiftHere
<1>3. spWin' \in WinType /\ spPar' \in ParType /\ spPar'.started = spPar.started /\ spWin'.start = end - (pen - 0)
  <2>0. DOMAIN spWin = {"start", "pen", "end"} /\ end - pen \in Nat
    BY <1>2, InWin
  <2>1. /\ DOMAIN spWin' = DOMAIN spWin /\ spWin' = [x \in DOMAIN spWin' |-> spWin'[x]]
        /\ spWin'.start = end - pen /\ spWin'.pen = 0 /\ spWin'.end = end
    BY <1>1, <2>0
  <2>2. spWin' \in WinType
    BY <1>2, <2>0, <2>1, WinSet
  <2>3. /\ DOMAIN spPar' = DOMAIN spPar /\ spPar' = [x \in DOMAIN spPar' |-> spPar'[x]]
        /\ spPar'.rd = spPar.rd /\ spPar'.started = spPar.started /\ spPar'.suppress = FALSE
    BY <1>1, <1>2, InPar
  <2>4. spPar' \in ParType
    BY <1>2, <2>3, ParSet, InPar
  <2> QED  BY <1>2, <2>1, <2>2, <2>3, <2>4
<1>4. Moved(h, g, pen, n, pen)
  <2>1. 0 \in Nat /\ 0 <= pen /\ pen <= Len(h) /\ pen - 0 = pen
    BY <1>2
  <2>2. Cut(h, Without(0, pen), 0, pen)
    BY <1>2, <2>1, WithoutCuts
  <2> HIDE DEF g, pen
  <2>3. Cut(h, g, 0, pen)
    BY <1>1, <2>2
  <2>4. Moved(h, g, pen, Len(h), pen - 0)
    BY <1>2, <2>1, <2>3, CutItems
  <2> QED  BY <2>1, <2>4
<1> DEFINE c == end - pen
<1>5. NoEnd(g, 0, c) /\ Sized(g, 0, c, SpPhonCap)
  <2> HIDE DEF h, g, pen, end, n
  <2>1. Moved(h, g, pen, end, pen)
    BY <1>2, <1>4, MovedPart
  <2>2. NoEnd(g, pen - pen, end - pen) /\ Sized(g, pen - pen, end - pen, SpPhonCap)
    BY <1>2, <2>1, NoEndMoved, SizedMoved
  <2>3. pen - pen = 0
    BY <1>2
  <2> QED  BY <2>2, <2>3
<1>6. spWin'.start = c
  BY <1>2, <1>3
<1>7. ~spPar.started => c = 0
  BY <1>2
<1>8. 0 \in Nat /\ pen \in Nat /\ 0 <= pen /\ pen <= spWin.end /\ spHeadx' = Without(0, pen)
  BY <1>1, <1>2
<1> HIDE DEF c
<1>9. NoEnd(spHeadx', 0, spWin'.start) /\ Sized(spHeadx', 0, spWin'.start, SpPhonCap) /\ (~spPar.started => spWin'.start = 0)
  BY <1>5, <1>6, <1>7
<1>10. spWin'.start = spWin.end - (pen - 0)
  BY <1>3
<1> HIDE DEF pen
<1> QED  BY <1>1, <1>3, <1>8, <1>9, <1>10, ShiftDone

LEMMA StepShiftActive == ASSUME SpInv, SpShiftActive PROVE SpInv'
<1> DEFINE h == spHeadx
           g == spHeadx'
           end == spWin.end
           n == Len(spHeadx)
           f == IF spWin.start = spWin.end THEN 0 ELSE spWin.start
<1>1. /\ procState = "SHIFT" /\ procState' = "INIT" /\ spWin.pen = Invalid /\ g = Without(f, end)
      /\ spWin' = [spWin EXCEPT !.start = f, !.end = f] /\ spPar' = spPar
      /\ UNCHANGED << cbIn, fed, stored, told, spAli, spOut >>
  BY DEF SpShiftActive, ShiftOnly, Running, Go, NoTransfer, spHist
<1>2. /\ ItemsOK(h) /\ spWin \in WinType /\ spPar \in ParType /\ n \in Nat
      /\ spWin.start \in Nat /\ end \in Nat /\ spWin.start <= end /\ end <= n
      /\ Sized(h, 0, spWin.start, SpPhonCap) /\ NoEnd(h, 0, spWin.start)
      /\ ~spPar.started => spWin.start = 0
  <2>1. Invalid \notin Nat
    BY DEF Invalid
  <2> QED  BY <1>1, <2>1, ShiftHere
<1>3. f \in Nat /\ f <= end /\ (f = 0 \/ f = spWin.start) /\ (~spPar.started => f = 0)
  BY <1>2
<1>4. Sized(h, 0, f, SpPhonCap) /\ NoEnd(h, 0, f)
  <2>1. CASE f = 0
    <3>1. SpPhonCap \in Nat /\ 0 \in Nat
      BY SpAssumption
    <3> HIDE DEF f
    <3>2. Sized(h, 0, 0, SpPhonCap)
      BY <3>1, SizedNothing
    <3> QED  BY <2>1, <3>2 DEF NoEnd
  <2>2. CASE f = spWin.start
    BY <2>2, <1>2
  <2> QED  BY <1>3, <2>1, <2>2
<1> HIDE DEF f
<1>5. spWin' \in WinType /\ spPar' \in ParType /\ spPar'.started = spPar.started /\ spWin'.start = f
  <2>1. /\ DOMAIN spWin' = DOMAIN spWin /\ spWin' = [x \in DOMAIN spWin' |-> spWin'[x]]
        /\ spWin'.start = f /\ spWin'.pen = spWin.pen /\ spWin'.end = f
    BY <1>1, <1>2, InWin
  <2>2. spWin' \in WinType
    BY <1>2, <1>3, <2>1, WinSet, InWin
  <2> QED  BY <1>1, <1>2, <2>1, <2>2
<1>6. Moved(h, g, 0, f, 0)
  <2>1. end <= Len(h)
    BY <1>2
  <2>2. Cut(h, Without(f, end), f, end)
    BY <1>2, <1>3, <2>1, WithoutCuts
  <2> HIDE DEF g, end
  <2>3. Cut(h, g, f, end)
    BY <1>1, <2>2
  <2> QED  BY <1>2, <1>3, <2>1, <2>3, CutItems
<1>7. NoEnd(g, 0, f) /\ Sized(g, 0, f, SpPhonCap)
  <2> HIDE DEF g, h
  <2> QED  BY <1>3, <1>4, <1>6, NoEndKept, SizedKept
<1>8. f = spWin.end - (end - f)
  BY <1>2, <1>3
<1>9. /\ spWin'.start = spWin.end - (end - f) /\ (~spPar.started => spWin'.start = 0)
      /\ NoEnd(spHeadx', 0, spWin'.start) /\ Sized(spHeadx', 0, spWin'.start, SpPhonCap)
      /\ end \in Nat /\ end <= spWin.end /\ spHeadx' = Without(f, end)
  BY <1>1, <1>2, <1>3, <1>5, <1>7, <1>8
<1> HIDE DEF end
<1> QED  BY <1>1, <1>3, <1>5, <1>9, ShiftDone

LEMMA StepStart == ASSUME SpInv, SpStart PROVE SpInv'
<1>1. /\ procState = "INIT" /\ procState' = "COLLECT"
      /\ spWin' = [spWin EXCEPT !.pen = Invalid, !.end = Invalid] /\ spPar' = [spPar EXCEPT !.rd = 0] /\ spPhon' = << >>
      /\ UNCHANGED << spHeadx, cbIn, fed, stored, told, spAli, spOut >>
  BY DEF SpStart, Running, Go, NoTransfer, spHist
<1>2. spWin \in WinType /\ spPar \in ParType
  BY DEF SpInv, Types, WinType, ParType
<1>3. /\ spWin'.start = spWin.start /\ spWin'.pen = Invalid /\ spWin'.end = Invalid /\ spWin' \in WinType
      /\ spPar'.rd = 0 /\ spPar'.started = spPar.started /\ spPar' \in ParType /\ spWin.start \in Nat
  <2>1. Invalid \in Int
    BY DEF Invalid
  <2>2. /\ DOMAIN spWin' = DOMAIN spWin /\ spWin' = [x \in DOMAIN spWin' |-> spWin'[x]]
        /\ spWin'.start = spWin.start /\ spWin'.pen = Invalid /\ spWin'.end = Invalid /\ spWin.start \in Nat
    BY <1>1, <1>2, InWin
  <2>3. spWin' \in WinType
    BY <1>2, <2>1, <2>2, WinSet
  <2>4. /\ DOMAIN spPar' = DOMAIN spPar /\ spPar' = [x \in DOMAIN spPar' |-> spPar'[x]]
        /\ spPar'.rd = 0 /\ spPar'.started = spPar.started /\ spPar'.suppress = spPar.suppress
    BY <1>1, <1>2, InPar
  <2>5. spPar' \in ParType
    BY <1>2, <2>4, ParSet, InPar
  <2> QED  BY <2>2, <2>3, <2>4, <2>5
<1>4. Types'
  BY <1>1, <1>3 DEF SpInv, Types, WinType, ParType
<1>5. Waiting' = Waiting /\ Said' = Said /\ Follow = "INIT" /\ Follow' = "COLLECT"
  BY <1>1 DEF Waiting, Said, Follow
<1>6. Base = 0 /\ Base' = 0 /\ Progress' = Progress
  BY <1>1, <1>3, <1>5 DEF Base, Progress, Putting
<1>7. Turn'
  BY <1>1, <1>5 DEF SpInv, Turn, Early, Putting
<1>8. Window'
  <2> DEFINE h == spHeadx
             start == spWin.start
  <2>1. start \in Nat /\ Sized(h, 0, start, SpPhonCap) /\ NoEnd(h, 0, start) /\ (~spPar.started => start = 0)
        /\ start <= Len(h) /\ IsSeq(h)
    BY <1>1, <1>3 DEF SpInv, Window, Early, Types, ItemsOK
  <2>2. Len(<< >>) = 0 /\ IsSeq(<< >>) /\ Len(h) \in Nat
    BY <2>1, Empty, Lengths
  <2> HIDE DEF h, start
  <2>3. Context(h, start, 0, 0) /\ ~Supp(h, 0, 0) /\ NoEnd(h, 0, 0)
    BY <2>1, ContextStarts, SuppNone DEF NoEnd
  <2>4. LookedOK(h, spWin', spPar', << >>)
    BY <1>3, <2>2, <2>3 DEF LookedOK, start
  <2> QED  BY <1>1, <1>3, <2>1, <2>4 DEF Window, Early, h, start
<1>9. Grammar' /\ Order'
  BY <1>1, <1>3, <1>5, <1>6 DEF SpInv, Grammar, Order
<1> QED  BY <1>4, <1>7, <1>8, <1>9 DEF SpInv

-----------------------------------------------------------------------------
(* COLLECT.                                                                  *)
\* The next item, in front of those that wait.
LEMMA HeadTaken ==
  ASSUME NEW h, IsSeq(h), NEW u, IsSeq(u), u # << >>, NEW x, x.id = Head(u).id, x.kind = Head(u).kind
  PROVE  /\ Like(h \o u, Append(h, x) \o Tail(u))
         /\ (h \o u)[Len(h) + 1].id = Head(u).id /\ (h \o u)[Len(h) + 1].kind = Head(u).kind /\ Len(h) < Len(h \o u)
         /\ (Append(h, x) \o Tail(u))[Len(h) + 1] = x
<1> DEFINE v == h \o u
           g == Append(h, x)
           r == Tail(u)
           w == g \o r
           n == Len(h)
<1>1. n \in Nat /\ Len(u) \in Nat /\ Len(r) = Len(u) - 1 /\ Len(u) >= 1 /\ Head(u) = u[1] /\ IsSeq(r)
      /\ \A i \in 1 .. Len(u) - 1 : r[i] = u[i + 1]
  BY Lengths, Tailed
<1>2. IsSeq(v) /\ Len(v) = n + Len(u) /\ (\A i \in 1 .. n : v[i] = h[i]) /\ (\A i \in 1 .. Len(u) : v[n + i] = u[i])
  BY Joined
<1>3. IsSeq(g) /\ Len(g) = n + 1 /\ g[n + 1] = x /\ \A i \in 1 .. n : g[i] = h[i]
  BY Appended
<1> HIDE DEF g, r
<1>4. /\ IsSeq(w) /\ Len(w) = Len(g) + Len(r)
      /\ (\A i \in 1 .. Len(g) : w[i] = g[i]) /\ (\A i \in 1 .. Len(r) : w[Len(g) + i] = r[i])
  <2>1. IsSeq(g) /\ IsSeq(r)
    BY <1>1, <1>3
  <2> QED  BY <2>1, Joined
<1> HIDE DEF v, w, n
<1>5. Len(w) = Len(v) /\ Len(v) \in Nat
  BY <1>1, <1>2, <1>3, <1>4
<1>6. w[n + 1] = x /\ v[n + 1] = u[1]
  <2>1. n + 1 \in 1 .. Len(g) /\ 1 \in 1 .. Len(u)
    BY <1>1, <1>3
  <2> QED  BY <2>1, <1>2, <1>3, <1>4
<1>7. ASSUME NEW j \in 1 .. Len(v) PROVE w[j].id = v[j].id /\ w[j].kind = v[j].kind
  <2>1. CASE j <= n
    <3>1. j \in 1 .. n /\ j \in 1 .. Len(g)
      BY <2>1, <1>1, <1>3
    <3> QED  BY <3>1, <1>2, <1>3, <1>4
  <2>2. CASE j = n + 1
    BY <2>2, <1>1, <1>6
  <2>3. CASE j > n + 1
    <3> DEFINE i == j - n
    <3>1. i \in 1 .. Len(u) /\ n + i = j /\ i - 1 \in 1 .. Len(u) - 1 /\ i - 1 \in 1 .. Len(r) /\ (i - 1) + 1 = i
          /\ Len(g) + (i - 1) = j
      BY <2>3, <1>1, <1>2, <1>3
    <3> HIDE DEF i
    <3>2. v[n + i] = u[i] /\ w[Len(g) + (i - 1)] = r[i - 1] /\ r[i - 1] = u[(i - 1) + 1]
      BY <3>1, <1>1, <1>2, <1>4
    <3> QED  BY <3>1, <3>2
  <2> QED  BY <2>1, <2>2, <2>3, <1>1, <1>5
<1>8. n < Len(v)
  BY <1>1, <1>2
<1> QED  BY <1>1, <1>2, <1>4, <1>5, <1>6, <1>7, <1>8 DEF Like, v, w, g, r, n

LEMMA HeadLost ==
  ASSUME NEW h, IsSeq(h), NEW u, IsSeq(u), u # << >>
  PROVE  CutLike(h \o u, h \o Tail(u), Len(h), Len(h) + 1)
<1> DEFINE v == h \o u
           r == Tail(u)
           w == h \o r
           n == Len(h)
<1>1. n \in Nat /\ Len(u) \in Nat /\ Len(r) = Len(u) - 1 /\ Len(u) >= 1 /\ IsSeq(r)
      /\ \A i \in 1 .. Len(u) - 1 : r[i] = u[i + 1]
  BY Lengths, Tailed
<1>2. IsSeq(v) /\ Len(v) = n + Len(u) /\ (\A i \in 1 .. n : v[i] = h[i]) /\ (\A i \in 1 .. Len(u) : v[n + i] = u[i])
  BY Joined
<1> HIDE DEF r
<1>3. IsSeq(w) /\ Len(w) = n + Len(r) /\ (\A i \in 1 .. n : w[i] = h[i]) /\ (\A i \in 1 .. Len(r) : w[n + i] = r[i])
  <2>1. IsSeq(h) /\ IsSeq(r)
    BY <1>1
  <2> QED  BY <2>1, Joined
<1> HIDE DEF v, w, n
<1>4. ASSUME NEW j \in n + 1 .. Len(w) PROVE w[j] = v[j + 1]
  <2> DEFINE i == j - n
  <2>1. i \in 1 .. Len(r) /\ n + i = j /\ i + 1 \in 1 .. Len(u) /\ n + (i + 1) = j + 1 /\ i \in 1 .. Len(u) - 1
    BY <1>1, <1>3
  <2> HIDE DEF i
  <2>2. w[n + i] = r[i] /\ v[n + (i + 1)] = u[i + 1] /\ r[i] = u[i + 1]
    BY <2>1, <1>1, <1>2, <1>3
  <2> QED  BY <2>1, <2>2
<1>5. (n + 1) - n = 1 /\ Len(w) = Len(v) - 1
  BY <1>1, <1>2, <1>3
<1>6. CutLike(v, w, n, n + 1)
  <2>1. \A j \in n + 1 .. Len(w) : w[j] = v[j + ((n + 1) - n)]
    BY <1>4, <1>5
  <2>2. Len(w) = Len(v) - ((n + 1) - n)
    BY <1>5
  <2> QED  BY <1>2, <1>3, <2>1, <2>2 DEF CutLike
<1> QED  BY <1>6 DEF v, w, r, n

\* What is collected and looked at, when nothing becomes of it.
LEMMA LookHere ==
  ASSUME SpInv, procState \in {"COLLECT", "PARSE"}
  PROVE  /\ ItemsOK(spHeadx) /\ ItemsOK(cbIn) /\ ItemsOK(stored) /\ IsSeq(told) /\ fed \in Nat
         /\ IsSeq(spHeadx) /\ IsSeq(cbIn) /\ IsSeq(stored) /\ Len(spHeadx) \in Nat /\ Len(cbIn) \in Nat
         /\ spWin \in WinType /\ spPar \in ParType /\ "out" \in DOMAIN spAli /\ spAli.out \in Nat
         /\ procState \in Early /\ Follow = procState /\ spOut = << >> /\ Said = told
         /\ Base = spPar.rd /\ Progress = spWin.start /\ spPar.rd \in Nat /\ spWin.start \in Nat
         /\ spPar.rd <= Len(spHeadx) /\ spWin.start <= Len(spHeadx)
         /\ NoEnd(spHeadx, 0, spWin.start) /\ Sized(spHeadx, 0, spWin.start, SpPhonCap)
         /\ ~spPar.started => spWin.start = 0
         /\ LookedOK(spHeadx, spWin, spPar, spPhon)
         /\ GrammarOf(Waiting, spPar.rd, spPar.started, Open(stored \o cbIn))
         /\ Ordered(Waiting, Len(spHeadx), spWin.start, FALSE, told, stored, fed)
<1>1. procState \in Early /\ procState # "FEED" /\ Follow = procState /\ procState # "SYL" /\ procState \notin Putting
      /\ procState # "SHIFT"
  BY DEF Early, Follow, Putting
<1>2. /\ ItemsOK(spHeadx) /\ ItemsOK(cbIn) /\ ItemsOK(stored) /\ IsSeq(told) /\ fed \in Nat
      /\ spWin \in WinType /\ spPar \in ParType /\ "out" \in DOMAIN spAli /\ spAli.out \in Nat
  BY DEF SpInv, Types, WinType, ParType
<1>3. IsSeq(spHeadx) /\ IsSeq(cbIn) /\ IsSeq(stored) /\ Len(spHeadx) \in Nat /\ Len(cbIn) \in Nat
  BY <1>2, Lengths DEF ItemsOK
<1>4. spOut = << >>
  BY <1>1 DEF SpInv, Turn
<1>5. Said = told /\ Base = spPar.rd /\ Progress = spWin.start
  BY <1>1, <1>4 DEF Said, Base, Progress
<1>6. /\ spWin.start <= Len(spHeadx) /\ NoEnd(spHeadx, 0, spWin.start) /\ Sized(spHeadx, 0, spWin.start, SpPhonCap)
      /\ ~spPar.started => spWin.start = 0
      /\ LookedOK(spHeadx, spWin, spPar, spPhon)
  BY <1>1 DEF SpInv, Window
<1>7. spPar.rd <= Len(spHeadx)
  BY <1>6 DEF LookedOK
<1>8. GrammarOf(Waiting, spPar.rd, spPar.started, Open(stored \o cbIn))
  BY <1>5 DEF SpInv, Grammar
<1>9. Ordered(Waiting, Len(spHeadx), spWin.start, FALSE, told, stored, fed)
  <2> DEFINE mid == Follow = "SYL"
  <2>1. Ordered(Waiting, Len(spHeadx), spWin.start, mid, told, stored, fed)
    BY <1>5 DEF SpInv, Order
  <2>2. mid = FALSE
    BY <1>1
  <2> HIDE DEF mid
  <2> QED  BY <2>1, <2>2
<1>10. spPar.rd \in Nat /\ spWin.start \in Nat
  BY <1>2, InWin, InPar
<1> QED  BY <1>1, <1>2, <1>3, <1>4, <1>5, <1>6, <1>7, <1>8, <1>9, <1>10

\* What a step to COLLECT or PARSE has to show, and one to TRANSDUCE.
LEMMA LookDone ==
  ASSUME procState' \in {"COLLECT", "PARSE"}, ItemsOK(spHeadx'), ItemsOK(cbIn'), ItemsOK(stored'), IsSeq(told'), fed' \in Nat,
         spWin' \in WinType, spPar' \in ParType, "out" \in DOMAIN spAli', spAli'.out \in Nat, spOut' = << >>,
         spWin'.start <= Len(spHeadx'), NoEnd(spHeadx', 0, spWin'.start), Sized(spHeadx', 0, spWin'.start, SpPhonCap),
         ~spPar'.started => spWin'.start = 0,
         LookedOK(spHeadx', spWin', spPar', spPhon'),
         GrammarOf(Waiting', spPar'.rd, spPar'.started, Open((stored \o cbIn)')),
         Ordered(Waiting', Len(spHeadx'), spWin'.start, FALSE, told', stored', fed')
  PROVE  SpInv'
<1>1. procState' \in Early /\ procState' # "FEED" /\ Follow' = procState' /\ procState' # "SYL" /\ procState' \notin Putting
      /\ procState' # "SHIFT"
  BY DEF Early, Follow, Putting
<1>2. Said' = told' /\ Base' = spPar'.rd /\ Progress' = spWin'.start
  BY <1>1 DEF Said, Base, Progress
<1>3. Types'
  BY DEF Types, WinType, ParType
<1>4. Turn'
  BY <1>1 DEF Turn, Early, Putting
<1>5. Window'
  BY <1>1 DEF Window
<1>6. Grammar'
  BY <1>2 DEF Grammar
<1>7. Order'
  <2> DEFINE mid == (Follow = "SYL")'
  <2>1. mid = FALSE
    BY <1>1
  <2> HIDE DEF mid
  <2> QED  BY <1>2, <2>1 DEF Order, mid
<1> QED  BY <1>3, <1>4, <1>5, <1>6, <1>7 DEF SpInv

LEMMA RangeDone ==
  ASSUME procState' = "TRANSDUCE", ItemsOK(spHeadx'), ItemsOK(cbIn'), ItemsOK(stored'), IsSeq(told'), fed' \in Nat,
         spWin' \in WinType, spPar' \in ParType, "out" \in DOMAIN spAli', spAli'.out \in Nat, spOut' = << >>,
         spWin'.start <= Len(spHeadx'), NoEnd(spHeadx', 0, spWin'.start), Sized(spHeadx', 0, spWin'.start, SpPhonCap),
         RangeOK(spHeadx', spWin', spPar'),
         GrammarOf(Waiting', spWin'.end, spPar'.started, Open((stored \o cbIn)')),
         Ordered(Waiting', Len(spHeadx'), spWin'.start, FALSE, told', stored', fed')
  PROVE  SpInv'
<1>1. procState' \notin Early /\ procState' # "FEED" /\ Follow' = procState' /\ procState' # "SYL" /\ procState' \notin Putting
      /\ procState' # "SHIFT" /\ procState' \in Between
  BY DEF Early, Follow, Putting, Between
<1>2. Said' = told' /\ Base' = spWin'.end /\ Progress' = spWin'.start
  BY <1>1 DEF Said, Base, Progress, Early
<1>3. Types'
  BY DEF Types, WinType, ParType
<1>4. Turn'
  BY <1>1 DEF Turn, Early, Putting
<1>5. Window'
  BY <1>1 DEF Window, Early
<1>6. Grammar'
  BY <1>2 DEF Grammar
<1>7. Order'
  <2> DEFINE mid == (Follow = "SYL")'
  <2>1. mid = FALSE
    BY <1>1
  <2> HIDE DEF mid
  <2> QED  BY <1>2, <2>1 DEF Order, mid
<1> QED  BY <1>3, <1>4, <1>5, <1>6, <1>7 DEF SpInv

LEMMA LookSame ==
  ASSUME SpInv, procState \in {"COLLECT", "PARSE"}, procState' \in {"COLLECT", "PARSE"},
         UNCHANGED << spHeadx, spPhon, spPar, spWin, spAli, spOut, stored, told, cbIn, fed >>
  PROVE  SpInv'
<1>1. Waiting' = Waiting /\ (stored \o cbIn)' = stored \o cbIn
  BY DEF Waiting
<1> QED  BY <1>1, LookHere, LookDone

LEMMA StepCollectEnd == ASSUME SpInv, SpCollectEnd PROVE SpInv'
<1>1. /\ procState = "COLLECT" /\ procState' \in {"COLLECT", "PARSE"}
      /\ UNCHANGED << spHeadx, spPhon, spPar, spWin, spAli, spOut, stored, told, cbIn, fed >>
  BY DEF SpCollectEnd, Running, Go, Return, NoTransfer, spHist
<1> QED  BY <1>1, LookSame

LEMMA StepCollectFull == ASSUME SpInv, SpCollectFull PROVE SpInv'
<1>1. /\ procState = "COLLECT" /\ procState' = "PARSE"
      /\ UNCHANGED << spHeadx, spPhon, spPar, spWin, spAli, spOut, stored, told, cbIn, fed >>
  BY DEF SpCollectFull, BufferFull, Running, Go, NoTransfer, spHist
<1> QED  BY <1>1, LookSame

LEMMA UnboundedOK ==
  ASSUME NEW y, ItemOK(y), NEW x, x = Unbounded(y)
  PROVE  ItemOK(x) /\ x.id = y.id /\ x.kind = y.kind /\ x.phones = y.phones /\ x.len = y.len
<1>2. {"id", "kind", "phones", "len"} \subseteq DOMAIN y
  BY DEF ItemOK
<1>3. x.id = y.id /\ x.kind = y.kind /\ x.phones = y.phones /\ x.len = y.len /\ DOMAIN y \subseteq DOMAIN x
  BY <1>2 DEF Unbounded
<1> QED  BY <1>2, <1>3 DEF ItemOK

\* Items without their first, and with one more.
LEMMA ItemsTail ==
  ASSUME NEW u, ItemsOK(u), u # << >>
  PROVE  ItemsOK(Tail(u)) /\ ItemOK(Head(u))
<1>1. /\ IsSeq(u) /\ Len(u) \in Nat /\ IsSeq(Tail(u)) /\ Len(u) >= 1 /\ Len(Tail(u)) = Len(u) - 1 /\ Head(u) = u[1]
      /\ \A i \in 1 .. Len(u) - 1 : Tail(u)[i] = u[i + 1]
  BY Tailed, Lengths DEF ItemsOK
<1>2. \A i \in 1 .. Len(u) : ItemOK(u[i])
  BY DEF ItemsOK
<1>3. 1 \in 1 .. Len(u) /\ \A i \in 1 .. Len(u) - 1 : i + 1 \in 1 .. Len(u)
  BY <1>1
<1>4. \A i \in 1 .. Len(Tail(u)) : ItemOK(Tail(u)[i])
  BY <1>1, <1>2, <1>3
<1> QED  BY <1>1, <1>2, <1>3, <1>4 DEF ItemsOK

LEMMA ItemsMore ==
  ASSUME NEW u, ItemsOK(u), NEW x, ItemOK(x)
  PROVE  ItemsOK(Append(u, x)) /\ Len(Append(u, x)) = Len(u) + 1 /\ Moved(u, Append(u, x), 0, Len(u), 0)
<1> DEFINE g == Append(u, x)
           n == Len(u)
<1>1. IsSeq(u) /\ n \in Nat /\ \A i \in 1 .. n : ItemOK(u[i])
  BY Lengths DEF ItemsOK
<1>2. IsSeq(g) /\ Len(g) = n + 1 /\ g[n + 1] = x /\ \A i \in 1 .. n : g[i] = u[i]
  BY <1>1, Appended
<1> HIDE DEF g, n
<1>3. \A i \in 1 .. Len(g) : i = n + 1 \/ i \in 1 .. n
  BY <1>1, <1>2
<1>4. \A i \in 1 .. Len(g) : ItemOK(g[i])
  BY <1>1, <1>2, <1>3
<1>5. \A i \in 0 .. n - 1 : i + 1 \in 1 .. n /\ i - 0 + 1 = i + 1
  BY <1>1
<1>6. Moved(u, g, 0, n, 0)
  BY <1>1, <1>2, <1>5 DEF Moved
<1> QED  BY <1>2, <1>4, <1>6 DEF ItemsOK, g, n

LEMMA GrammarLess ==
  ASSUME NEW w, NEW b, NEW flag, NEW opened, GrammarOf(w, b, flag, opened), NEW later, later => opened
  PROVE  GrammarOf(w, b, flag, later)
BY DEF GrammarOf

LEMMA StepCollect == ASSUME SpInv, SpCollect PROVE SpInv'
<1> DEFINE h == spHeadx
           n == Len(spHeadx)
           y == Head(cbIn)
           x == Unbounded(Head(cbIn))
           g == spHeadx'
           start == spWin.start
           v == Waiting
           w == Waiting'
           rd == spPar.rd
           flag == spPar.started
           opened == Open(stored \o cbIn)
           later == Open(stored \o cbIn)'
<1>1. /\ procState = "COLLECT" /\ procState' = "COLLECT" /\ cbIn # << >> /\ cbIn' = Tail(cbIn)
      /\ g = Append(h, x) /\ stored' = Append(stored, y)
      /\ UNCHANGED << spPhon, spPar, spWin, spAli, spOut, told, fed >>
  BY DEF SpCollect, Running, Take, Stay
<1>2. /\ ItemsOK(h) /\ ItemsOK(cbIn) /\ ItemsOK(stored) /\ IsSeq(told) /\ fed \in Nat
      /\ IsSeq(h) /\ IsSeq(cbIn) /\ IsSeq(stored) /\ n \in Nat
      /\ spWin \in WinType /\ spPar \in ParType /\ "out" \in DOMAIN spAli /\ spAli.out \in Nat
      /\ spOut = << >> /\ rd \in Nat /\ start \in Nat /\ start <= n
      /\ NoEnd(h, 0, start) /\ Sized(h, 0, start, SpPhonCap)
      /\ ~flag => start = 0
      /\ LookedOK(h, spWin, spPar, spPhon)
      /\ GrammarOf(v, rd, flag, opened)
      /\ Ordered(v, n, start, FALSE, told, stored, fed)
  BY <1>1, LookHere
<1>3. ItemsOK(cbIn') /\ ItemOK(y)
  BY <1>1, <1>2, ItemsTail
<1>4. ItemOK(x) /\ x.id = y.id /\ x.kind = y.kind
  <2> HIDE DEF y
  <2>1. x = Unbounded(y)
    BY DEF y
  <2> HIDE DEF x
  <2> QED  BY <1>3, <2>1, UnboundedOK
<1>5. Like(v, w) /\ v[n + 1].id = y.id /\ v[n + 1].kind = y.kind /\ n < Len(v) /\ w[n + 1] = x
  <2>1. v = h \o cbIn /\ w = Append(h, x) \o Tail(cbIn)
    BY <1>1 DEF Waiting
  <2>2. x.id = Head(cbIn).id /\ x.kind = Head(cbIn).kind
    BY <1>4
  <2> HIDE DEF v, w, x
  <2>3. /\ Like(h \o cbIn, Append(h, x) \o Tail(cbIn))
        /\ (h \o cbIn)[Len(h) + 1].id = Head(cbIn).id /\ (h \o cbIn)[Len(h) + 1].kind = Head(cbIn).kind
        /\ Len(h) < Len(h \o cbIn)
        /\ (Append(h, x) \o Tail(cbIn))[Len(h) + 1] = x
    BY <1>1, <1>2, <2>2, HeadTaken, SMTT(60)
  <2> QED  BY <2>1, <2>3
<1>6. Like(stored \o cbIn, (stored \o cbIn)')
  <2>1. (stored \o cbIn)' = Append(stored, y) \o Tail(cbIn)
    BY <1>1
  <2>2. Like(stored \o cbIn, Append(stored, y) \o Tail(cbIn))
    BY <1>1, <1>2, HeadTaken
  <2> QED  BY <2>1, <2>2
<1>7. later => opened
  BY <1>6, OpenSame
<1> HIDE DEF x, y
<1>8. ItemsOK(g) /\ Len(g) = n + 1 /\ Moved(h, g, 0, n, 0)
  BY <1>1, <1>2, <1>4, ItemsMore
<1>9. ItemsOK(stored')
  BY <1>1, <1>2, <1>3, ItemsMore
<1> HIDE DEF g, n, start, rd, flag, v, w, opened, later
<1>10. Moved(h, g, 0, start, 0)
  BY <1>2, <1>8, MovedPart
<1>11. NoEnd(g, 0, start) /\ Sized(g, 0, start, SpPhonCap)
  BY <1>2, <1>10, NoEndKept, SizedKept
<1>12. LookedOK(g, spWin, spPar, spPhon)
  <2>1. Len(h) \in Nat /\ Len(g) \in Nat /\ Len(h) <= Len(g) /\ Moved(h, g, 0, Len(h), 0) /\ spWin.start <= Len(h)
    BY <1>2, <1>8 DEF n, start
  <2>2. spWin \in WinType /\ spPar \in ParType /\ LookedOK(h, spWin, spPar, spPhon)
    BY <1>2
  <2> HIDE DEF h
  <2> QED  BY <2>1, <2>2, LookedKept
<1>13. GrammarOf(w, rd, flag, later)
  <2>1. GrammarOf(w, rd, flag, opened)
    BY <1>2, <1>5, GrammarLike
  <2> QED  BY <1>7, <2>1, GrammarLess
<1>14. Ordered(w, n + 1, start, FALSE, told, stored', fed)
  <2>1. n <= Len(v)
    BY <1>2, <1>5, Lengths DEF Like
  <2>2. Ordered(w, n, start, FALSE, told, stored, fed)
    BY <1>2, <1>5, <2>1, OrderedLike
  <2>3. y.id = w[n + 1].id /\ y.kind = w[n + 1].kind
    BY <1>4, <1>5
  <2>4. Ordered(w, n + 1, start, FALSE, told, Append(stored, y), fed)
    BY <1>2, <2>2, <2>3, OrderedTake
  <2> QED  BY <1>1, <2>4
<1>15. start <= Len(g)
  BY <1>2, <1>8
<1>16. /\ ItemsOK(spHeadx') /\ spWin' = spWin /\ spPar' = spPar /\ spPhon' = spPhon
       /\ NoEnd(spHeadx', 0, spWin'.start) /\ Sized(spHeadx', 0, spWin'.start, SpPhonCap)
       /\ spWin'.start <= Len(spHeadx') /\ (~spPar'.started => spWin'.start = 0)
       /\ LookedOK(spHeadx', spWin', spPar', spPhon')
       /\ GrammarOf(Waiting', spPar'.rd, spPar'.started, Open((stored \o cbIn)'))
       /\ Ordered(Waiting', Len(spHeadx'), spWin'.start, FALSE, told', stored', fed')
  BY <1>1, <1>2, <1>8, <1>11, <1>12, <1>13, <1>14, <1>15 DEF g, start, rd, flag, w, later
<1>17. /\ IsSeq(told') /\ fed' \in Nat /\ spOut' = << >> /\ spWin' \in WinType /\ spPar' \in ParType
       /\ "out" \in DOMAIN spAli' /\ spAli'.out \in Nat /\ procState' \in {"COLLECT", "PARSE"}
  BY <1>1, <1>2
<1> QED  BY <1>3, <1>9, <1>16, <1>17, LookDone

\* The item has no room: it has a content, so it is no bound.
LEMMA LostIsNoBound ==
  ASSUME NEW y, ItemOK(y), ItemsOK(spHeadx), HeadRoom, ~ContentRoom(y)
  PROVE  y.kind \notin Bounds
<1>1. LenSum(spHeadx) \in Nat
  BY LenSumTyped DEF ItemsOK, ItemOK
<1>2. LenSum(spHeadx) < SpCbufSize /\ LenSum(spHeadx) + y.len > SpCbufSize
  BY <1>1, SpAssumption DEF HeadRoom, ContentRoom, ItemOK
<1>3. y.len # 0
  BY <1>1, <1>2, SpAssumption DEF ItemOK
<1> QED  BY <1>3 DEF ItemOK

LEMMA StepCollectLost == ASSUME SpInv, SpCollectLost PROVE SpInv'
<1> DEFINE h == spHeadx
           n == Len(spHeadx)
           k == Len(stored)
           y == Head(cbIn)
           start == spWin.start
           v == Waiting
           w == Waiting'
           s == stored \o cbIn
           t == (stored \o cbIn)'
           rd == spPar.rd
           flag == spPar.started
           opened == Open(s)
           later == Open(t)
<1>1. /\ procState = "COLLECT" /\ procState' = "PARSE" /\ cbIn # << >> /\ cbIn' = Tail(cbIn)
      /\ HeadRoom /\ ~ContentRoom(y)
      /\ UNCHANGED << spHeadx, spPhon, spPar, spWin, spAli, spOut, stored, told, fed >>
  BY DEF SpCollectLost, BufferFull, Running, Take, Go, spHist
<1>2. /\ ItemsOK(h) /\ ItemsOK(cbIn) /\ ItemsOK(stored) /\ IsSeq(told) /\ fed \in Nat
      /\ IsSeq(h) /\ IsSeq(cbIn) /\ IsSeq(stored) /\ n \in Nat
      /\ spWin \in WinType /\ spPar \in ParType /\ "out" \in DOMAIN spAli /\ spAli.out \in Nat
      /\ spOut = << >> /\ rd \in Nat /\ start \in Nat /\ rd <= n /\ start <= n
      /\ NoEnd(h, 0, start) /\ Sized(h, 0, start, SpPhonCap)
      /\ ~flag => start = 0
      /\ LookedOK(h, spWin, spPar, spPhon)
      /\ GrammarOf(v, rd, flag, opened)
      /\ Ordered(v, n, start, FALSE, told, stored, fed)
  BY <1>1, LookHere
<1>3. ItemsOK(cbIn') /\ ItemOK(y)
  BY <1>1, <1>2, ItemsTail
<1>4. y.kind \notin Bounds
  BY <1>1, <1>2, <1>3, LostIsNoBound
<1>5. CutLike(v, w, n, n + 1) /\ v[n + 1].kind = y.kind /\ n < Len(v)
  <2>1. v = h \o cbIn /\ w = h \o Tail(cbIn)
    BY <1>1 DEF Waiting
  <2> HIDE DEF v, w
  <2>2. CutLike(h \o cbIn, h \o Tail(cbIn), Len(h), Len(h) + 1)
    BY <1>1, <1>2, HeadLost
  <2>3. (h \o cbIn)[Len(h) + 1].kind = Head(cbIn).kind /\ Len(h) < Len(h \o cbIn)
    BY <1>1, <1>2, HeadTaken
  <2> QED  BY <2>1, <2>2, <2>3
<1>6. CutLike(s, t, k, k + 1) /\ s[k + 1].kind = y.kind /\ k < Len(s) /\ k \in Nat
  <2>1. t = stored \o Tail(cbIn)
    BY <1>1
  <2> HIDE DEF t
  <2>2. CutLike(stored \o cbIn, stored \o Tail(cbIn), Len(stored), Len(stored) + 1)
    BY <1>1, <1>2, HeadLost
  <2>3. (stored \o cbIn)[Len(stored) + 1].kind = Head(cbIn).kind /\ Len(stored) < Len(stored \o cbIn)
    BY <1>1, <1>2, HeadTaken
  <2> QED  BY <1>2, <2>1, <2>2, <2>3, Lengths
<1> HIDE DEF h, n, k, y, start, v, w, s, t, rd, flag
<1>7. later => opened
  BY <1>4, <1>6, OpenLost
<1> HIDE DEF opened, later
<1>8. GrammarOf(w, rd, flag, later)
  BY <1>2, <1>4, <1>5, <1>7, GrammarLost
<1>9. Ordered(w, n, start, FALSE, told, stored, fed)
  BY <1>2, <1>5, OrderedLost
<1>10. /\ ItemsOK(spHeadx') /\ spWin' = spWin /\ spPar' = spPar /\ spPhon' = spPhon
       /\ NoEnd(spHeadx', 0, spWin'.start) /\ Sized(spHeadx', 0, spWin'.start, SpPhonCap)
       /\ spWin'.start <= Len(spHeadx') /\ (~spPar'.started => spWin'.start = 0)
       /\ LookedOK(spHeadx', spWin', spPar', spPhon')
       /\ GrammarOf(Waiting', spPar'.rd, spPar'.started, Open((stored \o cbIn)'))
       /\ Ordered(Waiting', Len(spHeadx'), spWin'.start, FALSE, told', stored', fed')
  BY <1>1, <1>2, <1>8, <1>9 DEF h, n, start, rd, flag, w, t, later
<1>11. /\ IsSeq(told') /\ fed' \in Nat /\ spOut' = << >> /\ spWin' \in WinType /\ spPar' \in ParType /\ ItemsOK(stored')
       /\ "out" \in DOMAIN spAli' /\ spAli'.out \in Nat /\ procState' \in {"COLLECT", "PARSE"}
  BY <1>1, <1>2
<1> QED  BY <1>3, <1>10, <1>11, LookDone

-----------------------------------------------------------------------------
(* PARSE.                                                                    *)
\* The item looked at.
LEMMA LookedHere ==
  ASSUME SpInv, procState = "PARSE", spPar.rd < WritePos
  PROVE  /\ Looked = spHeadx[spPar.rd + 1] /\ ItemOK(Looked) /\ Waiting[spPar.rd + 1] = Looked
         /\ IsSeq(Waiting) /\ Len(Waiting) \in Nat /\ Len(spHeadx) <= Len(Waiting) /\ spPar.rd < Len(spHeadx)
         /\ Looked.kind \in {"SBEG", "TERM"} \/ spPar.started
         /\ \A j \in 1 .. Len(spHeadx) : Waiting[j] = spHeadx[j]
<1> DEFINE n == Len(spHeadx)
           rd == spPar.rd
<1>1. /\ ItemsOK(spHeadx) /\ IsSeq(spHeadx) /\ IsSeq(cbIn) /\ n \in Nat /\ Len(cbIn) \in Nat /\ rd \in Nat
      /\ GrammarOf(Waiting, rd, spPar.started, Open(stored \o cbIn))
  BY LookHere
<1>2. IsSeq(Waiting) /\ Len(Waiting) = n + Len(cbIn) /\ \A i \in 1 .. n : Waiting[i] = spHeadx[i]
  BY <1>1, Joined DEF Waiting
<1>3. rd < n
  BY DEF WritePos
<1>4. Looked = spHeadx[rd + 1]
  BY DEF Looked, Item
<1> HIDE DEF n, rd
<1>5. rd + 1 \in 1 .. n /\ n <= Len(Waiting) /\ Len(Waiting) \in Nat
  BY <1>1, <1>2, <1>3
<1>6. ItemOK(Looked) /\ Waiting[rd + 1] = Looked
  BY <1>1, <1>2, <1>4, <1>5 DEF ItemsOK, n
<1>7. Looked.kind \in {"SBEG", "TERM"} \/ spPar.started
  <2>1. rd + 1 \in rd + 1 .. Len(Waiting) /\ ~\E j \in rd + 1 .. (rd + 1) - 1 : TRUE
    BY <1>1, <1>5
  <2>2. Waiting[rd + 1].kind \in {"SBEG", "TERM"} \/ OpenBefore(Waiting, rd, spPar.started, rd + 1)
    BY <1>1, <2>1 DEF GrammarOf
  <2> QED  BY <2>1, <2>2, <1>6 DEF OpenBefore
<1> QED  BY <1>2, <1>3, <1>4, <1>5, <1>6, <1>7 DEF n, rd

\* The end of the active range is set, and the items behind it are to be looked at again.
LEMMA ToTransduce ==
  ASSUME SpInv, procState = "PARSE", procState' = "TRANSDUCE",
         UNCHANGED << spHeadx, spAli, spOut, cbIn, stored, told, fed >>,
         NEW e \in Nat, spWin' = [spWin EXCEPT !.end = e], spWin.start <= e, e <= spPar.rd,
         spPar' \in ParType, spPar.started => spPar'.started, spPar'.started \/ e = spPar.rd,
         ~spPar'.started => spWin.pen = Invalid /\ spWin.start = 0,
         spWin.pen # Invalid => e = spWin.end
  PROVE  SpInv'
<1> DEFINE h == spHeadx
           n == Len(spHeadx)
           rd == spPar.rd
           v == Waiting
           start == spWin.start
           pen == spWin.pen
           flag == spPar'.started
           opened == Open(stored \o cbIn)
<1>1. /\ ItemsOK(h) /\ ItemsOK(cbIn) /\ ItemsOK(stored) /\ IsSeq(told) /\ fed \in Nat
      /\ IsSeq(h) /\ IsSeq(cbIn) /\ n \in Nat /\ Len(cbIn) \in Nat
      /\ spWin \in WinType /\ spPar \in ParType /\ "out" \in DOMAIN spAli /\ spAli.out \in Nat
      /\ spOut = << >> /\ rd \in Nat /\ start \in Nat /\ rd <= n /\ start <= n
      /\ NoEnd(h, 0, start) /\ Sized(h, 0, start, SpPhonCap)
      /\ LookedOK(h, spWin, spPar, spPhon)
      /\ GrammarOf(v, rd, spPar.started, opened)
      /\ Ordered(v, n, start, FALSE, told, stored, fed)
  BY LookHere
<1>2. IsSeq(v) /\ Len(v) = n + Len(cbIn) /\ \A i \in 1 .. n : v[i] = h[i]
  BY <1>1, Joined DEF Waiting
<1>3. /\ spWin'.start = start /\ spWin'.pen = pen /\ spWin'.end = e /\ spWin' \in WinType /\ pen \in Int
  <2>1. DOMAIN spWin = {"start", "pen", "end"} /\ e \in Int
    BY <1>1, InWin
  <2>2. /\ DOMAIN spWin' = DOMAIN spWin /\ spWin' = [x \in DOMAIN spWin' |-> spWin'[x]]
        /\ spWin'.start = start /\ spWin'.pen = pen /\ spWin'.end = e
    BY <2>1
  <2> QED  BY <1>1, <2>1, <2>2, WinSet, InWin
<1>4. NoEnd(h, 0, rd) /\ (pen # Invalid => start <= pen /\ pen < spWin.end /\ Sized(h, pen, spWin.end, SpPhonCap))
  BY <1>1 DEF LookedOK
<1>5. start <= e /\ e <= rd /\ (~flag => pen = Invalid /\ start = 0) /\ (pen # Invalid => e = spWin.end)
      /\ (flag \/ e = rd) /\ (spPar.started => flag)
  OBVIOUS
<1> HIDE DEF h, n, rd, v, start, pen, flag, opened
<1>6. RangeOK(h, spWin', spPar')
  <2>1. e <= n
    BY <1>1, <1>5
  <2>2. ASSUME pen # Invalid PROVE start <= pen /\ pen <= e /\ Sized(h, pen, e, SpPhonCap) /\ NoEnd(h, pen, e)
    <3>1. start <= pen /\ pen < e /\ Sized(h, pen, e, SpPhonCap)
      BY <1>4, <1>5, <2>2
    <3>2. \A i \in pen .. e - 1 : i \in 0 .. rd - 1
      BY <1>1, <1>3, <1>5, <3>1
    <3>3. NoEnd(h, pen, e)
      BY <1>4, <3>2 DEF NoEnd
    <3> QED  BY <1>1, <1>3, <3>1, <3>3
  <2>3. /\ spWin'.start <= spWin'.end /\ spWin'.end <= Len(h)
        /\ spWin'.pen # Invalid =>
             /\ spWin'.start <= spWin'.pen /\ spWin'.pen <= spWin'.end
             /\ Sized(h, spWin'.pen, spWin'.end, SpPhonCap) /\ NoEnd(h, spWin'.pen, spWin'.end)
    BY <1>3, <1>5, <2>1, <2>2 DEF n, h
  <2>4. ~spPar'.started => spWin'.pen = Invalid /\ spWin'.start = 0
    BY <1>3, <1>5 DEF flag
  <2> QED  BY <2>3, <2>4 DEF RangeOK
<1>7. GrammarOf(v, e, flag, opened)
  <2>1. GrammarOf(v, rd, flag, opened)
    BY <1>1, <1>5, GrammarMore
  <2>2. rd <= Len(v)
    BY <1>1, <1>2
  <2>3. ASSUME NEW j \in e + 1 .. rd PROVE v[j].kind \notin SentEnd
    <3>1. j \in 1 .. n /\ j - 1 \in 0 .. rd - 1 /\ (j - 1) + 1 = j
      BY <1>1, <1>5
    <3>2. h[(j - 1) + 1].kind \notin SentEnd
      BY <1>4, <3>1 DEF NoEnd
    <3> QED  BY <1>2, <3>1, <3>2
  <2> QED  BY <1>1, <1>2, <1>5, <2>1, <2>2, <2>3, GrammarBack
<1>8. /\ ItemsOK(spHeadx') /\ ItemsOK(cbIn') /\ ItemsOK(stored') /\ IsSeq(told') /\ fed' \in Nat
      /\ "out" \in DOMAIN spAli' /\ spAli'.out \in Nat /\ spOut' = << >>
  BY <1>1 DEF h
<1>9. /\ spWin'.start <= Len(spHeadx') /\ NoEnd(spHeadx', 0, spWin'.start) /\ Sized(spHeadx', 0, spWin'.start, SpPhonCap)
      /\ RangeOK(spHeadx', spWin', spPar')
  BY <1>1, <1>3, <1>6 DEF h, n
<1>10. GrammarOf(Waiting', spWin'.end, spPar'.started, Open((stored \o cbIn)'))
  <2>1. Waiting' = v /\ (stored \o cbIn)' = stored \o cbIn
    BY DEF Waiting, v
  <2> QED  BY <1>3, <1>7, <2>1 DEF flag, opened
<1>11. Ordered(Waiting', Len(spHeadx'), spWin'.start, FALSE, told', stored', fed')
  <2>1. Waiting' = v /\ Len(spHeadx') = n
    BY DEF Waiting, v, n
  <2> QED  BY <1>1, <1>3, <2>1
<1> QED  BY <1>3, <1>8, <1>9, <1>10, <1>11, RangeDone

LEMMA StepParseEnd == ASSUME SpInv, SpParseEnd PROVE SpInv'
<1> DEFINE e == IF spWin.end = Invalid THEN spPar.rd ELSE spWin.end
<1>1. procState = "PARSE" /\ spPar.rd >= WritePos /\ UNCHANGED << spHeadx, spPhon, spPar, spAli, spOut, stored, told, cbIn, fed >>
  BY DEF SpParseEnd, Running, NoTransfer
<1>2. CASE ~spCol.force
  <2>1. procState' = "COLLECT" /\ UNCHANGED spWin
    BY <1>2 DEF SpParseEnd, Go
  <2> QED  BY <1>1, <2>1, LookSame
<1>3. CASE spCol.force
  <2>1. procState' = "TRANSDUCE" /\ spWin' = [spWin EXCEPT !.end = e]
    BY <1>3 DEF SpParseEnd, Go
  <2>2. /\ spWin \in WinType /\ spPar \in ParType /\ spPar.rd \in Nat /\ spWin.start \in Nat /\ Len(spHeadx) \in Nat
        /\ spPar.rd <= Len(spHeadx) /\ spWin.start <= Len(spHeadx)
        /\ ~spPar.started => spWin.start = 0
        /\ LookedOK(spHeadx, spWin, spPar, spPhon)
    BY <1>1, LookHere
  <2>3. /\ ~spPar.started => spPar.rd = 0
        /\ spWin.end = Invalid => spWin.pen = Invalid
        /\ spWin.end # Invalid => spWin.start <= spWin.end /\ spWin.end < spPar.rd
    BY <2>2 DEF LookedOK
  <2>4. spWin.end \in Int
    BY <2>2, InWin
  <2>5. spPar.rd = Len(spHeadx)
    BY <1>1, <2>2 DEF WritePos
  <2>6. /\ e \in Nat /\ spWin.start <= e /\ e <= spPar.rd /\ (spPar.started \/ e = spPar.rd)
        /\ (~spPar.started => spWin.pen = Invalid /\ spWin.start = 0)
        /\ (spWin.pen # Invalid => e = spWin.end)
    BY <2>2, <2>3, <2>4, <2>5
  <2> HIDE DEF e
  <2> QED  BY <1>1, <2>1, <2>2, <2>6, ToTransduce
<1> QED  BY <1>2, <1>3

LEMMA StepParseSentEnd == ASSUME SpInv, SpParseSentEnd PROVE SpInv'
<1> DEFINE h == spHeadx
           n == Len(spHeadx)
           rd == spPar.rd
           v == Waiting
           start == spWin.start
           opened == Open(stored \o cbIn)
<1>1. /\ procState = "PARSE" /\ procState' = "TRANSDUCE" /\ rd < WritePos /\ Looked.kind \in SentEnd /\ spPar.started
      /\ spPar' = [spPar EXCEPT !.started = FALSE, !.rd = @ + 1]
      /\ spWin' = [spWin EXCEPT !.end = rd + 1, !.pen = rd + 1]
      /\ UNCHANGED << spHeadx, spAli, spOut, cbIn, stored, told, fed >>
  BY DEF SpParseSentEnd, Parsing, Running, Go, NoTransfer, spHist
<1>2. /\ ItemsOK(h) /\ ItemsOK(cbIn) /\ ItemsOK(stored) /\ IsSeq(told) /\ fed \in Nat
      /\ spWin \in WinType /\ spPar \in ParType /\ "out" \in DOMAIN spAli /\ spAli.out \in Nat
      /\ spOut = << >> /\ rd \in Nat /\ start \in Nat /\ rd <= n /\ start <= n /\ n \in Nat
      /\ NoEnd(h, 0, start) /\ Sized(h, 0, start, SpPhonCap)
      /\ GrammarOf(v, rd, spPar.started, opened)
      /\ Ordered(v, n, start, FALSE, told, stored, fed)
  BY <1>1, LookHere
<1>3. /\ Looked = h[rd + 1] /\ ItemOK(Looked) /\ v[rd + 1] = Looked /\ IsSeq(v) /\ Len(v) \in Nat /\ n <= Len(v) /\ rd < n
  BY <1>1, LookedHere
<1>4. start <= rd
  <2>1. \A i \in 0 .. start - 1 : h[i + 1].kind \notin SentEnd
    BY <1>2 DEF NoEnd
  <2>2. rd < start => rd \in 0 .. start - 1
    BY <1>2
  <2> QED  BY <1>1, <1>2, <1>3, <2>1, <2>2
<1>5. /\ spWin'.start = start /\ spWin'.pen = rd + 1 /\ spWin'.end = rd + 1 /\ spWin' \in WinType
  <2>1. DOMAIN spWin = {"start", "pen", "end"}
    BY <1>2, InWin
  <2>2. /\ DOMAIN spWin' = DOMAIN spWin /\ spWin' = [x \in DOMAIN spWin' |-> spWin'[x]]
        /\ spWin'.start = start /\ spWin'.pen = rd + 1 /\ spWin'.end = rd + 1
    BY <1>1, <2>1
  <2> QED  BY <1>2, <2>2, WinSet, InWin
<1>6. spPar' \in ParType /\ spPar'.started = FALSE
  <2>1. DOMAIN spPar = {"rd", "started", "suppress"}
    BY <1>2, InPar
  <2>2. /\ DOMAIN spPar' = DOMAIN spPar /\ spPar' = [x \in DOMAIN spPar' |-> spPar'[x]]
        /\ spPar'.rd = rd + 1 /\ spPar'.started = FALSE /\ spPar'.suppress = spPar.suppress
    BY <1>1, <2>1
  <2>3. spPar \in ParType /\ spPar.suppress \in BOOLEAN /\ rd + 1 \in Nat
    BY <1>2, InPar
  <2> QED  BY <2>2, <2>3, ParSet
<1> HIDE DEF h, n, rd, v, start, opened
<1>7. RangeOK(h, spWin', spPar')
  <2>1. rd + 1 \in Nat /\ SpPhonCap \in Nat /\ rd + 1 <= n /\ start <= rd + 1
    BY <1>2, <1>3, <1>4, SpAssumption
  <2>2. Sized(h, rd + 1, rd + 1, SpPhonCap)
    BY <2>1, SizedNothing
  <2>3. NoEnd(h, rd + 1, rd + 1)
    BY <2>1 DEF NoEnd
  <2>4. /\ spWin'.start <= spWin'.end /\ spWin'.end <= Len(h) /\ spWin'.pen = spWin'.end
        /\ spWin'.start <= spWin'.pen /\ spWin'.pen <= spWin'.end
        /\ Sized(h, spWin'.pen, spWin'.end, SpPhonCap) /\ NoEnd(h, spWin'.pen, spWin'.end)
    BY <1>5, <2>1, <2>2, <2>3 DEF n, h
  <2> QED  BY <2>4 DEF RangeOK
<1>8. GrammarOf(v, rd + 1, FALSE, opened)
  <2>1. rd < Len(v) /\ v[rd + 1].kind \in SentEnd
    BY <1>1, <1>2, <1>3
  <2> QED  BY <1>2, <1>3, <2>1, GrammarNext
<1>9. /\ ItemsOK(spHeadx') /\ ItemsOK(cbIn') /\ ItemsOK(stored') /\ IsSeq(told') /\ fed' \in Nat
      /\ "out" \in DOMAIN spAli' /\ spAli'.out \in Nat /\ spOut' = << >>
  BY <1>1, <1>2 DEF h
<1>10. /\ spWin'.start <= Len(spHeadx') /\ NoEnd(spHeadx', 0, spWin'.start) /\ Sized(spHeadx', 0, spWin'.start, SpPhonCap)
       /\ RangeOK(spHeadx', spWin', spPar')
  BY <1>1, <1>2, <1>5, <1>7 DEF h, n
<1>11. GrammarOf(Waiting', spWin'.end, spPar'.started, Open((stored \o cbIn)'))
  <2>1. Waiting' = v /\ (stored \o cbIn)' = stored \o cbIn
    BY <1>1 DEF Waiting, v
  <2> QED  BY <1>5, <1>6, <1>8, <2>1 DEF opened
<1>12. Ordered(Waiting', Len(spHeadx'), spWin'.start, FALSE, told', stored', fed')
  <2>1. Waiting' = v /\ Len(spHeadx') = n
    BY <1>1 DEF Waiting, v, n
  <2> QED  BY <1>1, <1>2, <1>5, <2>1
<1> QED  BY <1>1, <1>5, <1>6, <1>9, <1>10, <1>11, <1>12, RangeDone

\* Outside a sentence nothing is in front of the flush.
LEMMA StepParseFlush == ASSUME SpInv, SpParseFlush PROVE SpInv'
<1> DEFINE h == spHeadx
           n == Len(spHeadx)
           v == Waiting
           opened == Open(stored \o cbIn)
           e == [id |-> Made, kind |-> "TERM", type |-> Looked.type, sil |-> -1]
<1>1. /\ procState = "PARSE" /\ procState' = "FEED" /\ spPar.rd < WritePos /\ Looked.kind = "TERM" /\ ~spPar.started
      /\ spPar' = [spPar EXCEPT !.rd = @ + 1]
      /\ spWin' = [spWin EXCEPT !.end = spPar.rd + 1, !.pen = Invalid]
      /\ spOut' = << e, "SHIFT" >>
      /\ UNCHANGED << spHeadx, spAli, cbIn, stored, told, fed >>
  BY DEF SpParseFlush, Parsing, Running, Go, NoTransfer, spHist
<1>2. /\ ItemsOK(h) /\ ItemsOK(cbIn) /\ ItemsOK(stored) /\ IsSeq(told) /\ fed \in Nat
      /\ spWin \in WinType /\ spPar \in ParType /\ "out" \in DOMAIN spAli /\ spAli.out \in Nat
      /\ spOut = << >> /\ Said = told /\ n \in Nat
      /\ LookedOK(h, spWin, spPar, spPhon)
      /\ NoEnd(h, 0, spWin.start) /\ Sized(h, 0, spWin.start, SpPhonCap)
      /\ ~spPar.started => spWin.start = 0
      /\ GrammarOf(v, spPar.rd, spPar.started, opened)
      /\ Ordered(v, n, spWin.start, FALSE, told, stored, fed)
  BY <1>1, LookHere
<1>3. /\ v[spPar.rd + 1] = Looked /\ IsSeq(v) /\ Len(v) \in Nat /\ n <= Len(v) /\ spPar.rd < n
  BY <1>1, LookedHere
<1>4. spPar.rd = 0 /\ spWin.start = 0
  BY <1>1, <1>2 DEF LookedOK
<1>5. /\ spWin'.start = 0 /\ spWin'.pen = Invalid /\ spWin'.end = 1 /\ spWin' \in WinType
  <2>1. DOMAIN spWin = {"start", "pen", "end"} /\ Invalid \in Int
    BY <1>2, InWin DEF Invalid
  <2>2. /\ DOMAIN spWin' = DOMAIN spWin /\ spWin' = [x \in DOMAIN spWin' |-> spWin'[x]]
        /\ spWin'.start = spWin.start /\ spWin'.pen = Invalid /\ spWin'.end = spPar.rd + 1
    BY <1>1, <2>1
  <2>3. spWin \in WinType /\ spPar.rd + 1 = 1
    BY <1>2, <1>4
  <2> QED  BY <1>4, <2>1, <2>2, <2>3, WinSet
<1>6. spPar' \in ParType /\ spPar'.started = FALSE
  <2>1. DOMAIN spPar = {"rd", "started", "suppress"} /\ spPar.started = FALSE
    BY <1>1, <1>2, InPar
  <2>2. /\ DOMAIN spPar' = DOMAIN spPar /\ spPar' = [x \in DOMAIN spPar' |-> spPar'[x]]
        /\ spPar'.rd = spPar.rd + 1 /\ spPar'.started = FALSE /\ spPar'.suppress = spPar.suppress
    BY <1>1, <2>1
  <2>3. spPar \in ParType /\ spPar.suppress \in BOOLEAN /\ spPar.rd + 1 \in Nat
    BY <1>2, <1>4, InPar
  <2> QED  BY <2>2, <2>3, ParSet
<1>7. e.id = 0
  BY DEF Made
<1> HIDE DEF e
<1>8. Len(spOut') = 2 /\ spOut'[1] = e /\ spOut'[2] = "SHIFT" /\ spOut' # << >>
  BY <1>1
<1>9. procState' \notin Early /\ procState' \in Late /\ Follow' = "SHIFT" /\ Follow' # "SYL" /\ Follow' \notin Putting
  BY <1>1, <1>8 DEF Early, Late, Follow, Putting
<1>10. Said' = Append(told, e) /\ Base' = 1 /\ Progress' = 1
  BY <1>1, <1>5, <1>8, <1>9 DEF Said, Base, Progress, Early
<1> HIDE DEF h, n, v, opened
<1>11. Types'
  BY <1>1, <1>2, <1>5, <1>6 DEF Types, WinType, ParType, h
<1>12. Turn'
  BY <1>1, <1>8, <1>9 DEF Turn, Putting
<1>13. Window'
  <2>1. 0 <= Len(spHeadx') /\ 1 <= Len(spHeadx')
    BY <1>1, <1>2, <1>3, <1>4 DEF n
  <2>2. NoEnd(spHeadx', 0, 0) /\ Sized(spHeadx', 0, 0, SpPhonCap)
    BY <1>1, <1>2, <1>4 DEF h
  <2>3. RangeOK(spHeadx', spWin', spPar')
    <3>1. /\ spWin'.start <= spWin'.end /\ spWin'.end <= Len(spHeadx') /\ spWin'.pen = Invalid
          /\ spWin'.pen = Invalid /\ spWin'.start = 0
      BY <1>5, <2>1
    <3> QED  BY <3>1 DEF RangeOK
  <2> QED  BY <1>5, <1>9, <2>1, <2>2, <2>3 DEF Window, Early
<1>14. Grammar'
  <2>1. 0 < Len(v) /\ v[0 + 1].kind \in SentEnd /\ GrammarOf(v, 0, FALSE, opened)
    <3>1. spPar.started = FALSE
      BY <1>1, <1>2, InPar
    <3>2. GrammarOf(v, 0, FALSE, opened)
      BY <1>2, <1>4, <3>1
    <3>3. 0 < Len(v)
      BY <1>2, <1>3, <1>4
    <3>4. v[0 + 1].kind = "TERM"
      BY <1>1, <1>3, <1>4
    <3> QED  BY <3>2, <3>3, <3>4 DEF SentEnd
  <2>2. GrammarOf(v, 0 + 1, FALSE, opened)
    BY <1>3, <2>1, GrammarNext
  <2>3. Waiting' = v /\ (stored \o cbIn)' = stored \o cbIn /\ 0 + 1 = 1
    BY <1>1 DEF Waiting, v
  <2> QED  BY <1>6, <1>10, <2>2, <2>3 DEF Grammar, opened
<1>15. Order'
  <2>1. v[0 + 1].kind \in Silent /\ 0 < n /\ Ordered(v, n, 0, FALSE, told, stored, fed)
    BY <1>1, <1>2, <1>3, <1>4 DEF Silent, WithPhones, Bounds
  <2>2. Ordered(v, n, 0 + 1, FALSE, told, stored, fed)
    BY <1>2, <1>3, <2>1, OrderedPass
  <2>3. 0 + 1 = 1
    OBVIOUS
  <2>4. Ordered(v, n, 1, FALSE, told, stored, fed)
    BY <2>2, <2>3
  <2>5. Ordered(v, n, 1, FALSE, Append(told, e), stored, fed)
    BY <1>2, <1>7, <2>4, OrderedMade
  <2>6. Waiting' = v /\ Len(spHeadx') = n /\ stored' = stored /\ fed' = fed
    BY <1>1 DEF Waiting, v, n
  <2> DEFINE mid == (Follow = "SYL")'
  <2>7. mid = FALSE
    BY <1>9
  <2> HIDE DEF mid
  <2> QED  BY <1>10, <2>5, <2>6, <2>7 DEF Order, mid
<1> QED  BY <1>11, <1>12, <1>13, <1>14, <1>15 DEF SpInv

LEMMA CostOf ==
  ASSUME NEW h, NEW from, NEW i, NEW x, x = h[i + 1]
  PROVE  /\ x.kind = "WORD" => Cost(h, from, i) = (IF Supp(h, from, i) THEN 0 ELSE 1) + Len(Spelled(0, x))
         /\ x.kind = "SBEG" => Cost(h, from, i) = 2
         /\ x.kind \in Bounds \ {"SBEG"} => Cost(h, from, i) = 1
         /\ x.kind \notin WithPhones => Cost(h, from, i) = 0
BY DEF Cost, Bounds, WithPhones

\* An item adds no more phones than it costs, and what it costs if they fit.
LEMMA NewSymsLen ==
  ASSUME SpInv, procState = "PARSE", spPar.rd < WritePos, Looked.kind \in WithPhones, InSentence
  PROVE  /\ IsSeq(NewSyms) /\ Len(NewSyms) \in Nat /\ Len(NewSyms) >= 1
         /\ \A from \in Nat : (Supp(spHeadx, from, spPar.rd) => spPar.suppress) =>
              Len(NewSyms) <= Cost(spHeadx, from, spPar.rd)
         /\ \A from \in Nat : Fits(NewSyms) /\ (spPar.suppress => Supp(spHeadx, from, spPar.rd)) =>
              Cost(spHeadx, from, spPar.rd) <= Len(NewSyms)
         /\ \A from \in Nat : Fits(NewSyms) => Cost(spHeadx, from, spPar.rd) <= Len(NewSyms) + 1
<1> DEFINE h == spHeadx
           rd == spPar.rd
           x == Looked
           spelled == Spelled(rd, x)
           s == Len(Spelled(0, x))
           c == Len(NewSyms)
<1>1. x = h[rd + 1] /\ ItemOK(x)
  BY LookedHere
<1>2. IsSeq(spPhon) /\ Len(spPhon) \in Nat /\ SpPhonCap \in Nat
  <2>1. LookedOK(spHeadx, spWin, spPar, spPhon)
    BY LookHere
  <2> QED  BY <2>1, Lengths, SpAssumption DEF LookedOK
<1>3. CASE x.kind = "WORD"
  <2>1. x.phones \in Seq(STRING)
    BY <1>1 DEF ItemOK
  <2> HIDE DEF x
  <2>2. IsSeq(spelled) /\ Len(spelled) >= 2 /\ Len(spelled) = s
    BY <2>1, SpelledIs, SpelledSame
  <2>3. Len(spelled) \in Nat
    BY <2>2, Lengths
  <2> DEFINE bound == IF spPar.suppress THEN << >> ELSE << Sym(rd, "PB", "PHR0") >>
  <2>4. IsSeq(bound) /\ Len(bound) = IF spPar.suppress THEN 0 ELSE 1
    BY Empty, OneIs
  <2>5. NewSyms = << >> \o (bound \o spelled)
    BY <1>3 DEF NewSyms, StartSyms, Extract, x
  <2> HIDE DEF bound, spelled
  <2>6. IsSeq(bound \o spelled) /\ Len(bound \o spelled) = Len(bound) + Len(spelled)
    BY <2>2, <2>4, Joined
  <2>7. IsSeq(NewSyms) /\ c = 0 + (Len(bound) + Len(spelled))
    <3> DEFINE both == bound \o spelled
    <3>1. IsSeq(both) /\ IsSeq(<< >>) /\ Len(<< >>) = 0
      BY <2>6, Empty
    <3> HIDE DEF both
    <3>2. IsSeq(<< >> \o both) /\ Len(<< >> \o both) = 0 + Len(both)
      BY <3>1, Joined
    <3> QED  BY <2>5, <2>6, <3>2 DEF both
  <2>8. \A from \in Nat : Cost(h, from, rd) = (IF Supp(h, from, rd) THEN 0 ELSE 1) + s
    <3> HIDE DEF h, rd, c
    <3> QED  BY <1>1, <1>3, CostOf
  <2> HIDE DEF c, s, h, rd
  <2>9. c \in Nat /\ c >= 1 /\ c = (IF spPar.suppress THEN 0 ELSE 1) + s /\ s \in Nat
    BY <2>2, <2>3, <2>4, <2>7
  <2>10. ASSUME NEW from \in Nat
         PROVE  /\ (Supp(h, from, rd) => spPar.suppress) => c <= Cost(h, from, rd)
                /\ (spPar.suppress => Supp(h, from, rd)) => Cost(h, from, rd) <= c
                /\ Cost(h, from, rd) <= c + 1
    BY <2>8, <2>9
  <2> QED  BY <2>7, <2>9, <2>10 DEF c, h, rd
<1>4. CASE x.kind = "SBEG"
  <2> DEFINE one == << Sym(rd, "PB", BoundSym(x.kind)) >>
             start == StartSyms
  <2>1. NewSyms = start \o one
    BY <1>4 DEF NewSyms, Extract
  <2>2. IsSeq(one) /\ Len(one) = 1
    BY OneIs
  <2>3. IsSeq(start) /\ (Len(start) = 0 \/ Len(start) = 1) /\ (Len(start) = 0 => ~Fits(<< 1 >>))
    BY <1>4, Empty, OneIs DEF StartSyms
  <2>4. \A from \in Nat : Cost(h, from, rd) = 2
    BY <1>1, <1>4 DEF Cost
  <2> HIDE DEF start, one
  <2>5. IsSeq(NewSyms) /\ c = Len(start) + 1
    <3>1. IsSeq(start) /\ IsSeq(one)
      BY <2>2, <2>3
    <3>2. IsSeq(start \o one) /\ Len(start \o one) = Len(start) + Len(one)
      BY <3>1, Joined
    <3> QED  BY <2>1, <2>2, <3>2
  <2>6. c \in Nat /\ c >= 1 /\ c <= 2
    <3>1. c = 0 + 1 \/ c = 1 + 1
      BY <2>3, <2>5, Zenon
    <3> HIDE DEF c, h, rd, x, spelled, s
    <3> QED  BY <3>1
  <2>7. Fits(NewSyms) => c = 2
    <3>1. CASE Len(start) = 1
      BY <3>1, <2>5
    <3>2. CASE Len(start) = 0
      <4>1. c = 1 /\ ~(Len(spPhon) + 1 <= SpPhonCap)
        BY <3>2, <2>3, <2>5 DEF Fits
      <4> QED  BY <4>1 DEF Fits
    <3> QED  BY <2>3, <3>1, <3>2
  <2> HIDE DEF c, h, rd
  <2>8. /\ \A from \in Nat : c <= Cost(h, from, rd)
        /\ \A from \in Nat : Fits(NewSyms) => Cost(h, from, rd) <= c
        /\ \A from \in Nat : Fits(NewSyms) => Cost(h, from, rd) <= c + 1
    BY <2>4, <2>6, <2>7
  <2> QED  BY <2>5, <2>6, <2>8 DEF c, h, rd
<1>5. CASE x.kind \notin {"WORD", "SBEG"}
  <2> DEFINE one == << Sym(rd, "PB", BoundSym(x.kind)) >>
  <2>1. NewSyms = << >> \o one
    BY <1>5 DEF NewSyms, Extract, StartSyms
  <2>2. IsSeq(one) /\ Len(one) = 1
    BY OneIs
  <2>3. \A from \in Nat : Cost(h, from, rd) = 1
    BY <1>1, <1>5 DEF Cost, WithPhones, Bounds
  <2> HIDE DEF one
  <2>4. IsSeq(NewSyms) /\ c = 1
    <3>1. IsSeq(<< >>) /\ Len(<< >>) = 0
      BY Empty
    <3>2. IsSeq(<< >> \o one) /\ Len(<< >> \o one) = 0 + 1
      BY <2>2, <3>1, Joined
    <3> QED  BY <2>1, <3>2
  <2> HIDE DEF c, h, rd
  <2>5. /\ \A from \in Nat : c <= Cost(h, from, rd) /\ Cost(h, from, rd) <= c /\ Cost(h, from, rd) <= c + 1
    BY <2>3, <2>4
  <2> QED  BY <2>4, <2>5 DEF c, h, rd
<1> QED  BY <1>3, <1>4, <1>5

LEMMA StepParseOther == ASSUME SpInv, SpParseOther PROVE SpInv'
<1> DEFINE h == spHeadx
           n == Len(spHeadx)
           rd == spPar.rd
           v == Waiting
           start == spWin.start
           pen == spWin.pen
           end == spWin.end
           opened == Open(stored \o cbIn)
           l == Len(spPhon)
           kind == Looked.kind
<1>1. /\ procState = "PARSE" /\ procState' = "PARSE" /\ rd < WritePos /\ kind \notin WithPhones
      /\ spPar' = [spPar EXCEPT !.rd = @ + 1]
      /\ UNCHANGED << spHeadx, spPhon, spWin, spAli, spOut, cbIn, stored, told, fed >>
  BY DEF SpParseOther, Parsing, Running, Stay, NoTransfer, spHist
<1>2. /\ ItemsOK(h) /\ ItemsOK(cbIn) /\ ItemsOK(stored) /\ IsSeq(told) /\ fed \in Nat
      /\ spWin \in WinType /\ spPar \in ParType /\ "out" \in DOMAIN spAli /\ spAli.out \in Nat
      /\ spOut = << >> /\ rd \in Nat /\ start \in Nat /\ start <= n /\ n \in Nat
      /\ NoEnd(h, 0, start) /\ Sized(h, 0, start, SpPhonCap)
      /\ LookedOK(h, spWin, spPar, spPhon)
      /\ GrammarOf(v, rd, spPar.started, opened)
      /\ Ordered(v, n, start, FALSE, told, stored, fed)
  BY <1>1, LookHere
<1>3. /\ kind = h[rd + 1].kind /\ ItemOK(h[rd + 1]) /\ v[rd + 1].kind = kind /\ IsSeq(v) /\ Len(v) \in Nat /\ n <= Len(v) /\ rd < n
      /\ kind \in {"SBEG", "TERM"} \/ spPar.started
  BY <1>1, LookedHere
<1>4. spPar.started = TRUE /\ kind \notin SentEnd /\ kind # "SBEG"
  <2>1. kind \notin {"SBEG", "TERM"} /\ kind \notin SentEnd
    BY <1>1 DEF WithPhones, Bounds, SentEnd
  <2> QED  BY <1>2, <1>3, <2>1, InPar
<1>5. spPar'.rd = rd + 1 /\ spPar'.started = TRUE /\ spPar'.suppress = spPar.suppress /\ spPar' \in ParType
  <2>1. DOMAIN spPar = {"rd", "started", "suppress"}
    BY <1>2, InPar
  <2>2. /\ DOMAIN spPar' = DOMAIN spPar /\ spPar' = [x \in DOMAIN spPar' |-> spPar'[x]]
        /\ spPar'.rd = rd + 1 /\ spPar'.started = spPar.started /\ spPar'.suppress = spPar.suppress
    BY <1>1, <2>1
  <2>3. spPar \in ParType /\ spPar.suppress \in BOOLEAN /\ rd + 1 \in Nat
    BY <1>2, InPar
  <2> QED  BY <1>4, <2>2, <2>3, ParSet
<1>6. /\ IsSeq(spPhon) /\ NoEnd(h, 0, rd) /\ Context(h, start, rd, l)
      /\ Supp(h, 0, rd) => spPar.suppress
      /\ end = Invalid => pen = Invalid
      /\ end # Invalid =>
           /\ start <= end /\ end < rd /\ Sized(h, end, rd, l + 1)
           /\ spPar.suppress <=> Supp(h, end, rd)
      /\ pen # Invalid => start <= pen /\ pen < end /\ Sized(h, pen, end, SpPhonCap)
  BY <1>2 DEF LookedOK
<1>7. l \in Nat /\ end \in Int
  <2>1. l \in Nat
    BY <1>6, Lengths
  <2>2. end \in Int
    BY <1>2, InWin
  <2> QED  BY <2>1, <2>2
<1>8. \A from \in Nat : Cost(h, from, rd) = 0
  <2> DEFINE x == h[rd + 1]
  <2>1. x = h[rd + 1] /\ x.kind \notin WithPhones
    BY <1>1, <1>3
  <2> HIDE DEF h, rd, kind, x
  <2> QED  BY <2>1, CostOf
<1> HIDE DEF h, n, rd, v, start, pen, end, opened, l, kind
<1>9. \A from \in Nat : from <= rd => (Supp(h, from, rd + 1) <=> Supp(h, from, rd))
  BY <1>1, <1>2, <1>3, SuppNext
<1>10. NoEnd(h, 0, rd + 1)
  <2>1. \A i \in 0 .. (rd + 1) - 1 : i = rd \/ i \in 0 .. rd - 1
    BY <1>2
  <2> QED  BY <1>3, <1>4, <1>6, <2>1 DEF NoEnd
<1>11. Context(h, start, rd + 1, l)
  <2>1. rd < start => 0 <= Cost(h, 0, rd)
    BY <1>8
  <2>2. Context(h, start, rd + 1, l + 0)
    BY <1>2, <1>3, <1>6, <1>7, <2>1, ContextNext
  <2> QED  BY <1>7, <2>2
<1>12. ASSUME end # Invalid PROVE Sized(h, end, rd + 1, l + 1) /\ (Supp(h, end, rd + 1) <=> Supp(h, end, rd))
  <2>1. end \in Nat /\ end <= rd /\ Sized(h, end, rd, l + 1)
    BY <1>2, <1>6, <1>7, <1>12
  <2>2. Cost(h, end, rd) <= 0 /\ l + 1 \in Int /\ 0 \in Int
    BY <1>7, <1>8, <2>1
  <2>3. Sized(h, end, rd + 1, (l + 1) + 0)
    BY <1>2, <1>3, <2>1, <2>2, SizedNext
  <2>4. (l + 1) + 0 = l + 1
    BY <1>7
  <2> QED  BY <1>9, <2>1, <2>3, <2>4
<1>13. LookedOK(h, spWin, spPar', spPhon)
  <2>1. /\ IsSeq(spPhon) /\ rd + 1 <= n /\ NoEnd(h, 0, rd + 1) /\ Context(h, start, rd + 1, l)
        /\ (Supp(h, 0, rd + 1) => spPar.suppress)
    BY <1>2, <1>3, <1>6, <1>9, <1>10, <1>11
  <2>2. /\ end = Invalid => pen = Invalid
        /\ end # Invalid =>
             /\ start <= end /\ end < rd + 1 /\ Sized(h, end, rd + 1, l + 1)
             /\ spPar.suppress <=> Supp(h, end, rd + 1)
        /\ pen # Invalid => start <= pen /\ pen < end /\ Sized(h, pen, end, SpPhonCap)
    BY <1>2, <1>6, <1>7, <1>12
  <2>3. rd + 1 <= Len(h)
    BY <2>1 DEF n, h
  <2> QED  BY <1>5, <2>1, <2>2, <2>3 DEF LookedOK, start, end, pen, l
<1>14. GrammarOf(v, rd + 1, TRUE, opened)
  <2>1. rd < Len(v)
    BY <1>2, <1>3
  <2>2. GrammarOf(v, rd, TRUE, opened)
    BY <1>2, <1>4
  <2> QED  BY <1>2, <1>3, <2>1, <2>2, GrammarNext
<1>15. Waiting' = v /\ (stored \o cbIn)' = stored \o cbIn
  BY <1>1 DEF Waiting, v
<1>16. /\ ItemsOK(spHeadx') /\ ItemsOK(cbIn') /\ ItemsOK(stored') /\ IsSeq(told') /\ fed' \in Nat
       /\ spOut' = << >> /\ spWin' \in WinType /\ "out" \in DOMAIN spAli' /\ spAli'.out \in Nat
       /\ procState' \in {"COLLECT", "PARSE"}
  BY <1>1, <1>2 DEF h
<1>17. /\ NoEnd(spHeadx', 0, spWin'.start) /\ Sized(spHeadx', 0, spWin'.start, SpPhonCap)
       /\ spWin'.start <= Len(spHeadx') /\ (~spPar'.started => spWin'.start = 0)
       /\ LookedOK(spHeadx', spWin', spPar', spPhon')
  BY <1>1, <1>2, <1>5, <1>13 DEF h, n, start
<1>18. GrammarOf(Waiting', spPar'.rd, spPar'.started, Open((stored \o cbIn)'))
  BY <1>5, <1>14, <1>15 DEF opened
<1>19. Ordered(Waiting', Len(spHeadx'), spWin'.start, FALSE, told', stored', fed')
  BY <1>1, <1>2, <1>15 DEF n, start
<1> QED  BY <1>5, <1>16, <1>17, <1>18, <1>19, LookDone

\* A window of which one more item is looked at: either the active range ends
\* before that item now, or where it did.
LEMMA LookedMore ==
  ASSUME NEW h, ItemsOK(h), NEW win \in WinType, NEW par \in ParType, NEW phon, LookedOK(h, win, par, phon),
         par.rd < Len(h), h[par.rd + 1].kind \in WithPhones, h[par.rd + 1].kind \notin SentEnd,
         NEW more, IsSeq(more), NEW c \in Nat, c = Len(more), c >= 1, Len(phon) + c <= SpPhonCap,
         c <= Cost(h, 0, par.rd),
         \A from \in Nat : Cost(h, from, par.rd) <= c + 1,
         \A from \in Nat : (par.suppress => Supp(h, from, par.rd)) => Cost(h, from, par.rd) <= c,
         NEW next \in ParType, next.rd = par.rd + 1, next.started = TRUE,
         next.suppress = (h[par.rd + 1].kind # "WORD"),
         NEW new \in WinType, new.start = win.start,
         \/ new.pen = win.pen /\ new.end = win.end
         \/ win.start <= par.rd /\ new.pen = win.end /\ new.end = par.rd
  PROVE  LookedOK(h, new, next, phon \o more)
<1> DEFINE n == Len(h)
           rd == par.rd
           kind == h[rd + 1].kind
           l == Len(phon)
           start == win.start
           pen == win.pen
           end == win.end
           both == phon \o more
<1>1. /\ IsSeq(phon) /\ NoEnd(h, 0, rd) /\ Context(h, start, rd, l)
      /\ Supp(h, 0, rd) => par.suppress
      /\ end = Invalid => pen = Invalid
      /\ end # Invalid =>
           /\ start <= end /\ end < rd /\ Sized(h, end, rd, l + 1)
           /\ par.suppress <=> Supp(h, end, rd)
      /\ pen # Invalid => start <= pen /\ pen < end /\ Sized(h, pen, end, SpPhonCap)
  BY DEF LookedOK
<1>2. n \in Nat /\ IsSeq(h) /\ SpPhonCap \in Nat
  BY Lengths, SpAssumption DEF ItemsOK
<1>3. rd \in Nat /\ start \in Nat /\ pen \in Int /\ end \in Int
  BY InWin, InPar
<1>4. l \in Nat
  BY <1>1, Lengths
<1>5. rd < n /\ ItemOK(h[rd + 1])
  <2>1. rd + 1 \in 1 .. Len(h) /\ rd < n
    BY <1>2, <1>3
  <2> QED  BY <2>1 DEF ItemsOK
<1>6. IsSeq(both) /\ Len(both) = l + c
  BY <1>1, Joined
<1>7. kind \in WithPhones /\ kind \notin SentEnd /\ (kind \in Bounds <=> kind # "WORD")
  BY DEF WithPhones, Bounds
<1>8. /\ c \in Nat /\ c >= 1 /\ l + c <= SpPhonCap
      /\ c <= Cost(h, 0, rd)
      /\ \A from \in Nat : Cost(h, from, rd) <= c + 1
      /\ \A from \in Nat : (par.suppress => Supp(h, from, rd)) => Cost(h, from, rd) <= c
  OBVIOUS
<1>9. /\ next.rd = rd + 1 /\ next.started = TRUE /\ next.suppress = (kind # "WORD") /\ new.start = start
      /\ (new.pen = pen /\ new.end = end) \/ (start <= rd /\ new.pen = end /\ new.end = rd)
  OBVIOUS
<1>8a. c \in Nat
  OBVIOUS
<1>9a. \/ new.pen = pen /\ new.end = end
       \/ start <= rd /\ new.pen = end /\ new.end = rd
  OBVIOUS
<1> HIDE DEF n, rd, kind, l, start, pen, end, both
<1>10. \A from \in Nat : from <= rd => (Supp(h, from, rd + 1) <=> next.suppress)
  <2> SUFFICES ASSUME NEW from \in Nat, from <= rd PROVE Supp(h, from, rd + 1) <=> next.suppress
    OBVIOUS
  <2>1. Supp(h, from, rd + 1) <=> IF h[rd + 1].kind \in WithPhones THEN h[rd + 1].kind \in Bounds ELSE Supp(h, from, rd)
    BY <1>3, SuppNext
  <2> QED  BY <2>1, <1>7, <1>9 DEF kind
<1>11. NoEnd(h, 0, rd + 1)
  <2>1. \A i \in 0 .. (rd + 1) - 1 : i = rd \/ i \in 0 .. rd - 1
    BY <1>3
  <2> QED  BY <1>1, <1>7, <2>1 DEF NoEnd, kind
<1>12. Context(h, start, rd + 1, l + c)
  <2>1. rd < start => c <= Cost(h, 0, rd)
    BY <1>8
  <2>2. l \in Int /\ c \in Int
    BY <1>4, <1>8
  <2> QED  BY <1>1, <1>3, <1>5, <2>1, <2>2, ContextNext
<1>13. /\ IsSeq(both) /\ next.rd <= Len(h) /\ NoEnd(h, 0, next.rd) /\ (~next.started => next.rd = 0)
       /\ Context(h, new.start, next.rd, Len(both))
       /\ (Supp(h, 0, next.rd) => next.suppress)
  <2>1. rd + 1 <= Len(h)
    BY <1>2, <1>3, <1>5 DEF n
  <2>2. Supp(h, 0, rd + 1) => next.suppress
    BY <1>3, <1>10
  <2> QED  BY <1>6, <1>9, <1>11, <1>12, <2>1, <2>2
<1>14. CASE new.pen = pen /\ new.end = end
  <2>1. ASSUME end # Invalid
        PROVE  Sized(h, end, rd + 1, l + c + 1) /\ (next.suppress <=> Supp(h, end, rd + 1)) /\ start <= end /\ end < rd + 1
    <3>1. end \in Nat /\ end <= rd /\ Sized(h, end, rd, l + 1) /\ (par.suppress => Supp(h, end, rd)) /\ start <= end
      BY <1>1, <1>3, <2>1
    <3>2. Cost(h, end, rd) <= c /\ l + 1 \in Int /\ c \in Int
      BY <1>4, <1>8, <3>1
    <3>3. Sized(h, end, rd + 1, (l + 1) + c)
      BY <1>3, <1>5, <3>1, <3>2, SizedNext
    <3>4. (l + 1) + c = l + c + 1
      BY <1>4, <1>8a
    <3>5. end < rd + 1
      BY <1>3, <3>1
    <3>6. next.suppress <=> Supp(h, end, rd + 1)
      BY <1>3, <1>10, <3>1
    <3> QED  BY <3>1, <3>3, <3>4, <3>5, <3>6
  <2>2. /\ end = Invalid => pen = Invalid
        /\ pen # Invalid => start <= pen /\ pen < end /\ Sized(h, pen, end, SpPhonCap)
    BY <1>1
  <2>3. new.start = start /\ new.pen = pen /\ new.end = end /\ next.rd = rd + 1 /\ Len(both) = l + c
    BY <1>6, <1>9, <1>14
  <2>4. /\ new.end = Invalid => new.pen = Invalid
        /\ new.end # Invalid =>
             /\ new.start <= new.end /\ new.end < next.rd /\ Sized(h, new.end, next.rd, Len(both) + 1)
             /\ next.suppress <=> Supp(h, new.end, next.rd)
        /\ new.pen # Invalid => new.start <= new.pen /\ new.pen < new.end /\ Sized(h, new.pen, new.end, SpPhonCap)
    <3>1. new.end = Invalid => new.pen = Invalid
      BY <2>2, <2>3
    <3>2. ASSUME end # Invalid
          PROVE  /\ new.start <= new.end /\ new.end < next.rd /\ Sized(h, new.end, next.rd, Len(both) + 1)
                 /\ next.suppress <=> Supp(h, new.end, next.rd)
      BY <2>1, <2>3, <3>2, Zenon
    <3>3. new.pen # Invalid => new.start <= new.pen /\ new.pen < new.end /\ Sized(h, new.pen, new.end, SpPhonCap)
      BY <2>2, <2>3, Zenon
    <3> QED  BY <2>3, <3>1, <3>2, <3>3, Zenon
  <2> QED  BY <1>13, <2>4 DEF LookedOK, both
<1>15. CASE start <= rd /\ new.pen = end /\ new.end = rd
  <2>1. Sized(h, rd, rd + 1, l + c + 1)
    <3>1. Sized(h, rd, rd, 0)
      BY <1>3, SizedNothing
    <3>2. Cost(h, rd, rd) <= c + 1 /\ c + 1 \in Int /\ 0 \in Int /\ 0 + (c + 1) = c + 1
      BY <1>3, <1>8
    <3>3. Sized(h, rd, rd + 1, 0 + (c + 1))
      BY <1>3, <1>5, <3>1, <3>2, SizedNext
    <3>4. Sized(h, rd, rd + 1, c + 1)
      BY <3>2, <3>3
    <3>5. c + 1 \in Int /\ l + c + 1 \in Int /\ c + 1 <= l + c + 1 /\ rd + 1 \in Nat /\ rd <= rd + 1
      BY <1>3, <1>4, <1>8
    <3> QED  BY <1>3, <3>4, <3>5, SizedMost
  <2>2. next.suppress <=> Supp(h, rd, rd + 1)
    BY <1>3, <1>10
  <2>3. ASSUME end # Invalid PROVE start <= end /\ end < rd /\ Sized(h, end, rd, SpPhonCap)
    <3>1. end \in Nat /\ end <= rd /\ Sized(h, end, rd, l + 1) /\ start <= end /\ end < rd
      BY <1>1, <1>3, <2>3
    <3>2. l + 1 \in Int /\ SpPhonCap \in Int /\ l + 1 <= SpPhonCap
      BY <1>2, <1>4, <1>8
    <3> QED  BY <1>3, <3>1, <3>2, SizedMost
  <2>4. rd # Invalid /\ rd < rd + 1
    BY <1>3 DEF Invalid
  <2>5. new.start = start /\ new.pen = end /\ new.end = rd /\ next.rd = rd + 1 /\ Len(both) = l + c
    BY <1>6, <1>9, <1>15
  <2>6. /\ new.end = Invalid => new.pen = Invalid
        /\ new.end # Invalid =>
             /\ new.start <= new.end /\ new.end < next.rd /\ Sized(h, new.end, next.rd, Len(both) + 1)
             /\ next.suppress <=> Supp(h, new.end, next.rd)
        /\ new.pen # Invalid => new.start <= new.pen /\ new.pen < new.end /\ Sized(h, new.pen, new.end, SpPhonCap)
    <3>1. new.end # Invalid
      BY <2>4, <2>5, Zenon
    <3>2. new.start <= new.end /\ new.end < next.rd /\ Sized(h, new.end, next.rd, Len(both) + 1)
      BY <1>15, <2>1, <2>4, <2>5, Zenon
    <3>3. next.suppress <=> Supp(h, new.end, next.rd)
      BY <2>2, <2>5, Zenon
    <3>4. new.pen # Invalid => new.start <= new.pen /\ new.pen < new.end /\ Sized(h, new.pen, new.end, SpPhonCap)
      BY <2>3, <2>5, Zenon
    <3> QED  BY <3>1, <3>2, <3>3, <3>4, Zenon
  <2> QED  BY <1>13, <2>6 DEF LookedOK, both
<1> QED  BY <1>9a, <1>14, <1>15, Zenon

LEMMA StepParsePhones == ASSUME SpInv, SpParsePhones PROVE SpInv'
<1> DEFINE h == spHeadx
           n == Len(spHeadx)
           rd == spPar.rd
           v == Waiting
           start == spWin.start
           opened == Open(stored \o cbIn)
           kind == Looked.kind
           more == NewSyms
           c == Len(NewSyms)
           window == IF NewEnd THEN [spWin EXCEPT !.pen = spWin.end, !.end = spPar.rd] ELSE spWin
<1>1. /\ procState = "PARSE" /\ procState' = "PARSE" /\ rd < WritePos /\ kind \in WithPhones /\ InSentence /\ Fits(more)
      /\ spPar' = [rd |-> rd + 1, started |-> Started, suppress |-> kind # "WORD"]
      /\ spPhon' = spPhon \o more /\ spWin' = window
      /\ UNCHANGED << spHeadx, spAli, spOut, cbIn, stored, told, fed >>
  BY DEF SpParsePhones, Parsing, Running, Stay, NoTransfer, spHist
<1>2. /\ ItemsOK(h) /\ ItemsOK(cbIn) /\ ItemsOK(stored) /\ IsSeq(told) /\ fed \in Nat
      /\ spWin \in WinType /\ spPar \in ParType /\ "out" \in DOMAIN spAli /\ spAli.out \in Nat
      /\ spOut = << >> /\ rd \in Nat /\ start \in Nat /\ start <= n /\ n \in Nat
      /\ NoEnd(h, 0, start) /\ Sized(h, 0, start, SpPhonCap)
      /\ LookedOK(h, spWin, spPar, spPhon)
      /\ GrammarOf(v, rd, spPar.started, opened)
      /\ Ordered(v, n, start, FALSE, told, stored, fed)
  BY <1>1, LookHere
<1>3. /\ Looked = h[rd + 1] /\ v[rd + 1].kind = kind /\ IsSeq(v) /\ Len(v) \in Nat /\ n <= Len(v) /\ rd < n
      /\ kind \in {"SBEG", "TERM"} \/ spPar.started
  BY <1>1, LookedHere
<1>4. kind \notin SentEnd
  BY <1>1 DEF InSentence
<1>5. Started = TRUE
  BY <1>2, <1>3, <1>4, InPar DEF Started, SentEnd
<1>6. spPar' \in ParType /\ spPar'.rd = rd + 1 /\ spPar'.started = TRUE /\ spPar'.suppress = (kind # "WORD")
  <2> HIDE DEF kind, rd
  <2>1. rd + 1 \in Nat /\ (kind # "WORD") \in BOOLEAN
    BY <1>2
  <2> QED  BY <1>1, <1>5, <2>1 DEF ParType
<1>7. /\ spWin' \in WinType /\ spWin'.start = start
      /\ \/ spWin'.pen = spWin.pen /\ spWin'.end = spWin.end
         \/ start <= rd /\ spWin'.pen = spWin.end /\ spWin'.end = rd
  <2>1. CASE NewEnd
    <3> DEFINE w == [spWin EXCEPT !.pen = spWin.end, !.end = spPar.rd]
    <3>1. DOMAIN spWin = {"start", "pen", "end"} /\ spWin.end \in Int
      BY <1>2, InWin
    <3>2. DOMAIN w = DOMAIN spWin /\ w = [x \in DOMAIN w |-> w[x]] /\ w.start = start /\ w.pen = spWin.end /\ w.end = rd
      BY <3>1
    <3> HIDE DEF w
    <3>3. w \in WinType
      BY <1>2, <3>1, <3>2, WinSet
    <3>4. spWin' = w
      BY <1>1, <2>1 DEF w
    <3> QED  BY <2>1, <3>2, <3>3, <3>4 DEF NewEnd
  <2>2. CASE ~NewEnd
    BY <1>1, <1>2, <2>2
  <2> QED  BY <2>1, <2>2
<1>8. /\ IsSeq(more) /\ c \in Nat /\ c >= 1
      /\ \A from \in Nat : (Supp(h, from, rd) => spPar.suppress) => c <= Cost(h, from, rd)
      /\ \A from \in Nat : Fits(more) /\ (spPar.suppress => Supp(h, from, rd)) => Cost(h, from, rd) <= c
      /\ \A from \in Nat : Fits(more) => Cost(h, from, rd) <= c + 1
  BY <1>1, NewSymsLen
<1>9. c = Len(more) /\ Len(spPhon) + c <= SpPhonCap
  BY <1>1 DEF Fits
<1> HIDE DEF more, c, window
<1>10. c <= Cost(h, 0, rd)
  <2>1. Supp(h, 0, rd) => spPar.suppress
    BY <1>2 DEF LookedOK
  <2> QED  BY <1>8, <2>1
<1>11. LookedOK(h, spWin', spPar', spPhon \o more)
  <2>1. /\ rd < Len(h) /\ h[rd + 1].kind \in WithPhones /\ h[rd + 1].kind \notin SentEnd
        /\ spPar'.suppress = (h[rd + 1].kind # "WORD")
    BY <1>1, <1>3, <1>4, <1>6
  <2>2. /\ \A from \in Nat : Cost(h, from, rd) <= c + 1
        /\ \A from \in Nat : (spPar.suppress => Supp(h, from, rd)) => Cost(h, from, rd) <= c
    BY <1>1, <1>8
  <2>3. ItemsOK(h) /\ spWin \in WinType /\ spPar \in ParType /\ LookedOK(h, spWin, spPar, spPhon)
    BY <1>2
  <2> DEFINE win == spWin'
             par == spPar'
  <2>4. /\ par \in ParType /\ par.rd = spPar.rd + 1 /\ par.started = TRUE
        /\ win \in WinType /\ win.start = spWin.start
        /\ \/ win.pen = spWin.pen /\ win.end = spWin.end
           \/ spWin.start <= spPar.rd /\ win.pen = spWin.end /\ win.end = spPar.rd
    BY <1>6, <1>7
  <2>5. /\ spPar.rd < Len(h) /\ h[spPar.rd + 1].kind \in WithPhones /\ h[spPar.rd + 1].kind \notin SentEnd
        /\ par.suppress = (h[spPar.rd + 1].kind # "WORD")
    BY <2>1
  <2>6. /\ IsSeq(more) /\ c \in Nat /\ c = Len(more) /\ c >= 1 /\ Len(spPhon) + c <= SpPhonCap
        /\ c <= Cost(h, 0, spPar.rd)
        /\ \A from \in Nat : Cost(h, from, spPar.rd) <= c + 1
        /\ \A from \in Nat : (spPar.suppress => Supp(h, from, spPar.rd)) => Cost(h, from, spPar.rd) <= c
    BY <1>8, <1>9, <1>10, <2>2
  <2> HIDE DEF h, rd, start, kind, win, par
  <2>7. LookedOK(h, win, par, spPhon \o more)
    BY <2>3, <2>4, <2>5, <2>6, LookedMore
  <2> QED  BY <2>7 DEF win, par
<1> HIDE DEF h, n, rd, v, start, opened, kind
<1>12. GrammarOf(v, rd + 1, TRUE, opened)
  <2>1. rd < Len(v)
    BY <1>2, <1>3
  <2> QED  BY <1>2, <1>3, <2>1, GrammarNext
<1>13. Waiting' = v /\ (stored \o cbIn)' = stored \o cbIn
  BY <1>1 DEF Waiting, v
<1>14. /\ ItemsOK(spHeadx') /\ ItemsOK(cbIn') /\ ItemsOK(stored') /\ IsSeq(told') /\ fed' \in Nat
       /\ spOut' = << >> /\ spWin' \in WinType /\ "out" \in DOMAIN spAli' /\ spAli'.out \in Nat
       /\ procState' \in {"COLLECT", "PARSE"}
  BY <1>1, <1>2, <1>7 DEF h
<1>15. /\ NoEnd(spHeadx', 0, spWin'.start) /\ Sized(spHeadx', 0, spWin'.start, SpPhonCap)
       /\ spWin'.start <= Len(spHeadx') /\ (~spPar'.started => spWin'.start = 0)
       /\ LookedOK(spHeadx', spWin', spPar', spPhon')
  BY <1>1, <1>2, <1>6, <1>7, <1>11 DEF h, n
<1>16. GrammarOf(Waiting', spPar'.rd, spPar'.started, Open((stored \o cbIn)'))
  BY <1>6, <1>12, <1>13 DEF opened
<1>17. Ordered(Waiting', Len(spHeadx'), spWin'.start, FALSE, told', stored', fed')
  BY <1>1, <1>2, <1>7, <1>13 DEF h, n
<1> QED  BY <1>6, <1>14, <1>15, <1>16, <1>17, LookDone

\* What does not fit is not in the left context.
LEMMA StepParseOverflow == ASSUME SpInv, SpParseOverflow PROVE SpInv'
<1> DEFINE h == spHeadx
           rd == spPar.rd
           start == spWin.start
           c == Len(NewSyms)
           kind == Looked.kind
           e == IF spWin.end \in {Invalid, spWin.start} THEN spPar.rd ELSE spWin.end
<1>1. /\ procState = "PARSE" /\ procState' = "TRANSDUCE" /\ rd < WritePos /\ kind \in WithPhones /\ InSentence
      /\ ~Fits(NewSyms)
      /\ spPar' = [spPar EXCEPT !.started = Started, !.suppress = (kind # "WORD")]
      /\ spWin' = [spWin EXCEPT !.end = e]
      /\ UNCHANGED << spHeadx, spAli, spOut, cbIn, stored, told, fed >>
  BY DEF SpParseOverflow, Parsing, Running, Go, NoTransfer
<1>2. /\ spWin \in WinType /\ spPar \in ParType /\ rd \in Nat /\ start \in Nat /\ Len(spHeadx) \in Nat
      /\ LookedOK(h, spWin, spPar, spPhon)
  BY <1>1, LookHere
<1>3. /\ Looked = h[rd + 1] /\ ItemOK(Looked) /\ (kind \in {"SBEG", "TERM"} \/ spPar.started)
  BY <1>1, LookedHere
<1>4. Started = TRUE
  <2>1. kind \notin SentEnd
    BY <1>1 DEF InSentence
  <2> QED  BY <1>2, <1>3, <2>1, InPar DEF Started, SentEnd
<1>5. spPar' \in ParType /\ spPar'.started = TRUE
  <2>1. DOMAIN spPar = {"rd", "started", "suppress"}
    BY <1>2, InPar
  <2> HIDE DEF kind
  <2>2. /\ DOMAIN spPar' = DOMAIN spPar /\ spPar' = [x \in DOMAIN spPar' |-> spPar'[x]]
        /\ spPar'.rd = rd /\ spPar'.started = TRUE /\ spPar'.suppress = (kind # "WORD")
    BY <1>1, <1>4, <2>1
  <2>3. spPar \in ParType /\ (kind # "WORD") \in BOOLEAN /\ rd \in Nat
    BY <1>2
  <2> QED  BY <2>2, <2>3, ParSet
<1>6. /\ IsSeq(spPhon) /\ Context(h, start, rd, Len(spPhon)) /\ (Supp(h, 0, rd) => spPar.suppress)
      /\ spWin.end = Invalid => spWin.pen = Invalid
      /\ spWin.end # Invalid => start <= spWin.end /\ spWin.end < rd
      /\ spWin.pen # Invalid => start <= spWin.pen /\ spWin.pen < spWin.end
  BY <1>2 DEF LookedOK
<1>7. start <= rd
  <2>1. c \in Nat /\ c <= Cost(h, 0, rd)
    <3>1. /\ c \in Nat
          /\ \A from \in Nat : (Supp(h, from, rd) => spPar.suppress) => c <= Cost(h, from, rd)
      BY <1>1, NewSymsLen
    <3> QED  BY <1>6, <3>1
  <2>2. ~(Len(spPhon) + c <= SpPhonCap)
    BY <1>1 DEF Fits
  <2>3. Len(spPhon) \in Nat
    BY <1>6, Lengths
  <2>4. ItemOK(h[rd + 1])
    BY <1>3
  <2> HIDE DEF h, rd, start, c
  <2>5. rd < start => Len(spPhon) + c <= SpPhonCap
    <3>1. Len(spPhon) \in Int /\ c \in Int /\ (rd < start => c <= Cost(h, 0, rd))
      BY <2>1, <2>3
    <3> QED  BY <1>2, <1>6, <2>4, <3>1, ContextNext
  <2> QED  BY <1>2, <2>2, <2>5
<1>8. spWin.end \in Int /\ spWin.pen \in Int
  BY <1>2, InWin
<1>9. e \in Nat /\ start <= e /\ e <= rd /\ (spWin.pen # Invalid => e = spWin.end)
  BY <1>2, <1>6, <1>7, <1>8
<1> HIDE DEF e, c, kind, h
<1> QED  BY <1>1, <1>5, <1>9, ToTransduce


-----------------------------------------------------------------------------
(* Between calls.                                                            *)
LEMMA ExtendedBy ==
  ASSUME NEW h, IsSeq(h), NEW u, IsSeq(u), NEW x
  PROVE  Extended(h \o u, h \o Append(u, x), x)
<1> DEFINE v == h \o u
           g == Append(u, x)
           w == h \o g
           n == Len(h)
           k == Len(u)
<1>1. n \in Nat /\ k \in Nat
  BY Lengths
<1>2. IsSeq(v) /\ Len(v) = n + k /\ (\A i \in 1 .. n : v[i] = h[i]) /\ (\A i \in 1 .. k : v[n + i] = u[i])
  BY Joined
<1>3. IsSeq(g) /\ Len(g) = k + 1 /\ g[k + 1] = x /\ \A i \in 1 .. k : g[i] = u[i]
  BY Appended
<1> HIDE DEF g
<1>4. /\ IsSeq(w) /\ Len(w) = n + Len(g)
      /\ (\A i \in 1 .. n : w[i] = h[i]) /\ (\A i \in 1 .. Len(g) : w[n + i] = g[i])
  <2>1. IsSeq(g)
    BY <1>3
  <2> QED  BY <2>1, Joined
<1> HIDE DEF v, w, n, k
<1>5. \A j \in 1 .. Len(v) : w[j] = v[j]
  <2> SUFFICES ASSUME NEW j \in 1 .. Len(v) PROVE w[j] = v[j]
    OBVIOUS
  <2>1. CASE j <= n
    BY <1>1, <1>2, <1>4, <2>1
  <2>2. CASE j > n
    <3>1. j - n \in 1 .. k /\ j - n \in 1 .. Len(g) /\ n + (j - n) = j
      BY <1>1, <1>2, <1>3, <2>2
    <3> QED  BY <3>1, <1>2, <1>3, <1>4
  <2> QED  BY <1>1, <2>1, <2>2
<1>6. w[Len(v) + 1] = x /\ Len(w) = Len(v) + 1
  <2>1. k + 1 \in 1 .. Len(g) /\ n + (k + 1) = Len(v) + 1
    BY <1>1, <1>2, <1>3
  <2>2. w[n + (k + 1)] = g[k + 1]
    BY <1>4, <2>1
  <2> QED  BY <1>1, <1>2, <1>3, <1>4, <2>1, <2>2
<1>7. Extended(v, w, x)
  BY <1>2, <1>4, <1>5, <1>6 DEF Extended
<1> QED  BY <1>7 DEF v, w, g

\* How far the items are looked at and passed.
LEMMA Reach ==
  ASSUME SpInv
  PROVE  /\ Base \in Nat /\ Base <= Len(spHeadx)
         /\ Progress \in Nat /\ Progress <= Len(spHeadx) /\ (Follow = "SYL" => Progress < Len(spHeadx))
<1> DEFINE n == Len(spHeadx)
<1>1. /\ n \in Nat /\ spWin \in WinType /\ spPar \in ParType /\ spAli.out \in Nat
      /\ spWin.start \in Nat /\ spWin.end \in Int /\ spPar.rd \in Nat
  <2>1. IsSeq(spHeadx) /\ spWin \in WinType /\ spPar \in ParType /\ spAli.out \in Nat
    BY DEF SpInv, Types, ItemsOK, WinType, ParType
  <2>2. n \in Nat
    BY <2>1, Lengths
  <2>3. spWin.start \in Nat /\ spWin.end \in Int /\ spPar.rd \in Nat
    BY <2>1, InWin, InPar
  <2> QED  BY <2>1, <2>2, <2>3
<1>2. spWin.start <= n
  BY DEF SpInv, Window
<1>3. procState \notin Early => spWin.start <= spWin.end /\ spWin.end <= n
  BY DEF SpInv, Window, RangeOK
<1>4. procState \in {"COLLECT", "PARSE"} => spPar.rd <= n
  BY DEF SpInv, Window, LookedOK
<1>5. /\ Follow \in Putting => spAli.out <= spWin.end
      /\ Follow = "SYL" => spWin.start <= spAli.out /\ spAli.out < spWin.end
  BY DEF SpInv, Turn
<1>6. Follow \in Putting \cup {"SHIFT"} => procState \notin Early
  BY DEF Follow, Putting, Early
<1> HIDE DEF n
<1>7. Base \in Nat /\ Base <= n
  <2>1. CASE procState \in {"COLLECT", "PARSE"}
    BY <1>1, <1>4, <2>1 DEF Base
  <2>2. CASE procState = "INIT"
    BY <1>1, <2>2 DEF Base
  <2>3. CASE procState \notin Early
    BY <1>1, <1>3, <2>3 DEF Base, Early
  <2> QED  BY <2>1, <2>2, <2>3 DEF Early
<1>8. Progress \in Nat /\ Progress <= n
  <2>1. CASE Follow \in Putting
    BY <1>1, <1>3, <1>5, <1>6, <2>1 DEF Progress
  <2>2. CASE Follow = "SHIFT"
    BY <1>1, <1>3, <1>6, <2>2 DEF Progress, Putting
  <2>3. CASE Follow \notin Putting \cup {"SHIFT"}
    BY <1>1, <1>2, <2>3 DEF Progress
  <2> QED  BY <2>1, <2>2, <2>3
<1>9. ASSUME Follow = "SYL" PROVE Progress < n
  BY <1>1, <1>3, <1>5, <1>6, <1>9 DEF Progress, Putting
<1> QED  BY <1>7, <1>8, <1>9 DEF n

LEMMA NumberedOK ==
  ASSUME NEW in \in SpItems, NEW k \in Nat, NEW x, x = Numbered(in, k + 1)
  PROVE  ItemOK(x) /\ x.id = k + 1 /\ x.kind = in.kind
<1>1. /\ {"kind", "phones", "len"} \subseteq DOMAIN in
      /\ in.kind # "SYLL" /\ in.len \in Nat /\ in.phones \in Seq(STRING)
      /\ (in.kind \in Bounds => in.len = 0)
  BY SpAssumption
<1>2. x.id = k + 1 /\ x.kind = in.kind /\ x.phones = in.phones /\ x.len = in.len
      /\ {"id", "kind", "phones", "len"} \subseteq DOMAIN x
  BY <1>1 DEF Numbered
<1>3. k + 1 \in Nat \ {0}
  OBVIOUS
<1> QED  BY <1>1, <1>2, <1>3 DEF ItemOK

\* What may come when s was there before.
MayCome(s) == {in \in SpItems : in.kind \in {"SBEG", "TERM"} \/ Open(s)}
LEMMA StepArrive == ASSUME SpInv, Arrive(MayCome(stored \o cbIn)), UNCHANGED spOnly PROVE SpInv'
<1> DEFINE h == spHeadx
           n == Len(spHeadx)
           v == Waiting
           w == Waiting'
           s == stored \o cbIn
           t == (stored \o cbIn)'
           flag == spPar.started
           opened == Open(s)
           later == Open(t)
           mid == Follow = "SYL"
<1>1. PICK in \in MayCome(s) : cbIn' = Append(cbIn, Numbered(in, fed + 1))
  BY DEF Arrive
<1> DEFINE x == Numbered(in, fed + 1)
<1>2. /\ cbIn' = Append(cbIn, x) /\ fed' = fed + 1
      /\ UNCHANGED << spHeadx, spPhon, spPar, spWin, spAli, spOut, stored, told, procState >>
  BY <1>1 DEF Arrive, spOnly, spHist
<1>3. in \in SpItems /\ (in.kind \in {"SBEG", "TERM"} \/ opened)
  BY <1>1 DEF MayCome
<1>4. /\ IsSeq(h) /\ ItemsOK(cbIn) /\ IsSeq(cbIn) /\ IsSeq(stored) /\ fed \in Nat /\ n \in Nat
      /\ GrammarOf(v, Base, flag, opened) /\ Ordered(v, n, Progress, mid, Said, stored, fed)
  <2>1. IsSeq(h) /\ ItemsOK(cbIn) /\ IsSeq(cbIn) /\ IsSeq(stored) /\ fed \in Nat
    BY DEF SpInv, Types, ItemsOK
  <2>2. n \in Nat
    BY <2>1, Lengths
  <2> QED  BY <2>1, <2>2 DEF SpInv, Grammar, Order
<1>5. ItemOK(x) /\ x.id = fed + 1 /\ x.kind = in.kind
  BY <1>3, <1>4, NumberedOK
<1> HIDE DEF x
<1>6. ItemsOK(cbIn')
  BY <1>2, <1>4, <1>5, ItemsMore
<1>7. Extended(v, w, x)
  <2>1. v = h \o cbIn /\ w = h \o Append(cbIn, x)
    BY <1>2 DEF Waiting
  <2> HIDE DEF v, w, h
  <2>2. Extended(h \o cbIn, h \o Append(cbIn, x), x)
    BY <1>4, ExtendedBy
  <2> QED  BY <2>1, <2>2
<1>8. Extended(s, t, x)
  <2>1. t = stored \o Append(cbIn, x)
    BY <1>2
  <2> HIDE DEF t
  <2>2. Extended(stored \o cbIn, stored \o Append(cbIn, x), x)
    BY <1>4, ExtendedBy
  <2> QED  BY <2>1, <2>2
<1>9. Base \in Nat /\ Base <= n /\ Progress \in Nat /\ Progress <= n /\ (mid => Progress < n)
  BY Reach
<1>10. n <= Len(v) /\ Len(v) \in Nat
  <2>1. Len(v) = n + Len(cbIn) /\ Len(cbIn) \in Nat
    BY <1>4, Joined, Lengths DEF Waiting
  <2> HIDE DEF v, n
  <2> QED  BY <1>4, <2>1
<1>11. /\ Base' = Base /\ Progress' = Progress /\ Follow' = Follow /\ Said' = Said
       /\ spPar' = spPar /\ spWin' = spWin /\ spHeadx' = spHeadx /\ stored' = stored
  BY <1>2 DEF Base, Progress, Follow, Said
<1> HIDE DEF h, n, v, w, s, t, flag, mid
<1>12. later => x.kind = "SBEG" \/ (opened /\ x.kind \notin SentEnd)
  BY <1>8, OpenExtended
<1>13. x.kind \in {"SBEG", "TERM"} \/ opened
  BY <1>3, <1>5
<1> HIDE DEF opened, later
<1>14. GrammarOf(w, Base, flag, later)
  <2>1. Base <= Len(v)
    BY <1>4, <1>9, <1>10
  <2> QED  BY <1>4, <1>7, <1>9, <1>12, <1>13, <2>1, GrammarArrive
<1>15. Ordered(w, n, Progress, mid, Said, stored, fed + 1)
  <2>1. Progress <= Len(v) /\ (mid => Progress < Len(v))
    BY <1>4, <1>9, <1>10
  <2> QED  BY <1>4, <1>5, <1>7, <1>9, <1>10, <2>1, OrderedArrive
<1>16. Types'
  <2>1. fed + 1 \in Nat
    BY <1>4
  <2> QED  BY <1>2, <1>6, <2>1 DEF SpInv, Types
<1>17. Turn'
  BY <1>2, <1>11 DEF SpInv, Turn
<1>18. Window'
  BY <1>2 DEF SpInv, Window
<1>19. Grammar'
  BY <1>11, <1>14 DEF Grammar, w, flag, later, t
<1>20. Order'
  <2> DEFINE other == (Follow = "SYL")'
  <2>1. other <=> mid
    BY <1>11 DEF mid
  <2> HIDE DEF other
  <2>2. Ordered(w, n, Progress, other, Said, stored, fed + 1)
    BY <1>15, <2>1, OrderedOther
  <2>3. Ordered(w, Len(spHeadx'), Progress', other, Said', stored', fed')
    BY <1>2, <1>11, <2>2 DEF n
  <2> QED  BY <2>3 DEF Order, w, other
<1> QED  BY <1>16, <1>17, <1>18, <1>19, <1>20 DEF SpInv

-----------------------------------------------------------------------------
(* What came and what of it found room.  The items in headx have the        *)
(* lengths of some that came, in their order.                               *)
Placed(p, h, c) ==
  /\ p \in [1 .. Len(h) -> 1 .. Len(c)]
  /\ \A i, j \in 1 .. Len(h) : i < j => p[i] < p[j]
  /\ \A i \in 1 .. Len(h) : h[i].len = c[p[i]].len
Stored == \A k \in 1 .. Len(came) : (\E i \in 1 .. Len(stored) : stored[i] = came[k]) \/ Overflowed(k)
Linked ==
  /\ IsSeq(came)
  /\ \A i \in 1 .. Len(stored) : \E k \in 1 .. Len(came) : stored[i] = came[k]
  /\ Stored
  /\ \E p : Placed(p, spHeadx, came)
  /\ Open(came \o cbIn) => Open(stored \o cbIn)

\* Sequences with the same lengths of content have the same sum.
LEMMA SameSums ==
  ASSUME NEW s, NEW t, Len(s) \in Nat, Len(t) = Len(s), \A i \in 1 .. Len(s) : s[i].len = t[i].len
  PROVE  LenSum(s) = LenSum(t)
<1> DEFINE n == Len(s)
<1>1. ASSUME NEW f PROVE Sums(f, s, n) <=> Sums(f, t, n)
  <2>1. ASSUME NEW i \in 0 .. n
        PROVE  (IF i = 0 THEN 0 ELSE f[i - 1] + s[i].len) = (IF i = 0 THEN 0 ELSE f[i - 1] + t[i].len)
    <3>1. i = 0 \/ i \in 1 .. n
      OBVIOUS
    <3> QED  BY <3>1
  <2> HIDE DEF n
  <2>2. [i \in 0 .. n |-> IF i = 0 THEN 0 ELSE f[i - 1] + s[i].len]
          = [i \in 0 .. n |-> IF i = 0 THEN 0 ELSE f[i - 1] + t[i].len]
    BY <2>1
  <2> QED  BY <2>2 DEF Sums
<1>2. (CHOOSE f : Sums(f, s, n)) = (CHOOSE f : Sums(f, t, n))
  BY <1>1, Zenon
<1>3. LenSum(s) = (CHOOSE f : Sums(f, s, n))[n] /\ LenSum(t) = (CHOOSE f : Sums(f, t, n))[n]
  BY Zenon DEF LenSum, Sums
<1> QED  BY <1>2, <1>3

LEMMA PlacedKept ==
  ASSUME NEW h, NEW g, Kept(h, g), NEW c, NEW p, Placed(p, h, c)
  PROVE  Placed(p, g, c)
BY DEF Placed, Kept

LEMMA PlacedCut ==
  ASSUME NEW h, IsSeq(h), NEW g, NEW f \in Nat, NEW t \in Nat, f <= t, t <= Len(h), Cut(h, g, f, t),
         NEW c, IsSeq(c), NEW p, Placed(p, h, c)
  PROVE  \E q : Placed(q, g, c)
<1> DEFINE at(i) == IF i <= f THEN i ELSE i + (t - f)
           q == [i \in 1 .. Len(g) |-> p[at(i)]]
<1>1. Len(h) \in Nat /\ Len(c) \in Nat /\ Len(g) = Len(h) - (t - f) /\ Len(g) \in Nat
  BY Lengths DEF Cut
<1>2. \A i \in 1 .. Len(g) : at(i) \in 1 .. Len(h) /\ g[i] = h[at(i)]
  <2> SUFFICES ASSUME NEW i \in 1 .. Len(g) PROVE at(i) \in 1 .. Len(h) /\ g[i] = h[at(i)]
    OBVIOUS
  <2>1. CASE i <= f
    BY <2>1, <1>1 DEF Cut
  <2>2. CASE i > f
    <3>1. i \in f + 1 .. Len(g)
      BY <2>2, <1>1
    <3> QED  BY <2>2, <3>1, <1>1 DEF Cut
  <2> QED  BY <1>1, <2>1, <2>2
<1>3. \A i, j \in 1 .. Len(g) : i < j => at(i) < at(j)
  BY <1>1
<1> HIDE DEF at
<1>4. /\ q \in [1 .. Len(g) -> 1 .. Len(c)]
      /\ \A i, j \in 1 .. Len(g) : i < j => q[i] < q[j]
      /\ \A i \in 1 .. Len(g) : g[i].len = c[q[i]].len
  BY <1>2, <1>3 DEF Placed
<1> HIDE DEF q
<1> QED  BY <1>4 DEF Placed

\* One more item comes, and it is stored or not.
LEMMA PlacedLater ==
  ASSUME NEW h, NEW c, IsSeq(c), NEW y, NEW p, Placed(p, h, c)
  PROVE  Placed(p, h, Append(c, y))
<1> DEFINE d == Append(c, y)
<1>1. Len(c) \in Nat /\ Len(d) = Len(c) + 1 /\ \A i \in 1 .. Len(c) : d[i] = c[i]
  BY Lengths, Appended
<1> HIDE DEF d
<1>2. \A i \in 1 .. Len(h) : p[i] \in 1 .. Len(c) /\ p[i] \in 1 .. Len(d)
  BY <1>1 DEF Placed
<1>3. p \in [1 .. Len(h) -> 1 .. Len(d)]
  BY <1>2 DEF Placed
<1>4. \A i \in 1 .. Len(h) : h[i].len = d[p[i]].len
  BY <1>1, <1>2 DEF Placed
<1>5. Placed(p, h, d)
  BY <1>3, <1>4 DEF Placed
<1> QED  BY <1>5 DEF d

LEMMA PlacedMore ==
  ASSUME NEW h, IsSeq(h), NEW c, IsSeq(c), NEW x, NEW y, x.len = y.len, NEW p, Placed(p, h, c)
  PROVE  \E q : Placed(q, Append(h, x), Append(c, y))
<1> DEFINE g == Append(h, x)
           d == Append(c, y)
           n == Len(h)
           m == Len(c)
           q == [i \in 1 .. n + 1 |-> IF i = n + 1 THEN m + 1 ELSE p[i]]
<1>1. n \in Nat /\ Len(g) = n + 1 /\ g[n + 1] = x /\ \A i \in 1 .. n : g[i] = h[i]
  BY Lengths, Appended
<1>2. m \in Nat /\ Len(d) = m + 1 /\ d[m + 1] = y /\ \A i \in 1 .. m : d[i] = c[i]
  BY Lengths, Appended
<1>3. \A i \in 1 .. n : p[i] \in 1 .. m /\ h[i].len = c[p[i]].len
  BY DEF Placed
<1>4. \A i, j \in 1 .. n : i < j => p[i] < p[j]
  BY DEF Placed
<1> HIDE DEF g, d, n, m
<1>5. \A i \in 1 .. n + 1 : i = n + 1 \/ i \in 1 .. n
  BY <1>1
<1>6. \A i \in 1 .. n + 1 : q[i] \in 1 .. m + 1 /\ g[i].len = d[q[i]].len
  <2> SUFFICES ASSUME NEW i \in 1 .. n + 1 PROVE q[i] \in 1 .. m + 1 /\ g[i].len = d[q[i]].len
    OBVIOUS
  <2>1. CASE i = n + 1
    BY <2>1, <1>1, <1>2
  <2>2. CASE i \in 1 .. n
    <3>1. q[i] = p[i]
      BY <2>2, <1>1
    <3> HIDE DEF q
    <3> QED  BY <3>1, <2>2, <1>1, <1>2, <1>3
  <2> QED  BY <1>5, <2>1, <2>2
<1>7. \A i, j \in 1 .. n + 1 : i < j => q[i] < q[j]
  <2> SUFFICES ASSUME NEW i \in 1 .. n + 1, NEW j \in 1 .. n + 1, i < j PROVE q[i] < q[j]
    OBVIOUS
  <2>1. i \in 1 .. n /\ q[i] = p[i]
    BY <1>1
  <2>2. CASE j = n + 1
    BY <2>1, <2>2, <1>2, <1>3
  <2>3. CASE j \in 1 .. n
    <3>1. q[j] = p[j]
      BY <2>3, <1>1
    <3> QED  BY <2>1, <2>3, <3>1, <1>4
  <2> QED  BY <1>5, <2>2, <2>3
<1>8. q \in [1 .. Len(g) -> 1 .. Len(d)]
  BY <1>1, <1>2, <1>6
<1> HIDE DEF q
<1>9. Placed(q, g, d)
  BY <1>1, <1>2, <1>6, <1>7, <1>8 DEF Placed
<1> QED  BY <1>9 DEF g, d

\* What overflowed once has overflowed, whatever comes.
LEMMA OverflowedStays ==
  ASSUME IsSeq(came), NEW y, came' = Append(came, y) \/ came' = came, NEW k \in 1 .. Len(came), Overflowed(k)
  PROVE  Overflowed(k)'
<1>1. Len(came) \in Nat /\ \A i \in 1 .. Len(came) : came'[i] = came[i]
  BY Lengths, Appended
<1>2. PICK n \in 0 .. SpMaxHeadx - 1 : \E place \in [1 .. n -> 1 .. k - 1] :
        LET held == [i \in 1 .. n |-> came[place[i]]]
        IN /\ \A i, j \in 1 .. n : i < j => place[i] < place[j]
           /\ LenSum(held) < SpCbufSize
           /\ ~(LenSum(held) + came[k].len <= SpCbufSize)
  BY DEF Overflowed
<1>3. PICK place \in [1 .. n -> 1 .. k - 1] :
        /\ \A i, j \in 1 .. n : i < j => place[i] < place[j]
        /\ LenSum([i \in 1 .. n |-> came[place[i]]]) < SpCbufSize
        /\ ~(LenSum([i \in 1 .. n |-> came[place[i]]]) + came[k].len <= SpCbufSize)
  BY <1>2
<1>4. \A i \in 1 .. n : place[i] \in 1 .. Len(came)
  BY <1>1
<1>5. [i \in 1 .. n |-> came'[place[i]]] = [i \in 1 .. n |-> came[place[i]]] /\ came'[k] = came[k]
  BY <1>1, <1>4
<1>6. /\ \A i, j \in 1 .. n : i < j => place[i] < place[j]
      /\ LenSum([i \in 1 .. n |-> came'[place[i]]]) < SpCbufSize
      /\ ~(LenSum([i \in 1 .. n |-> came'[place[i]]]) + came'[k].len <= SpCbufSize)
  BY <1>3, <1>5
<1> QED  BY <1>6 DEF Overflowed

LEMMA StoredMore ==
  ASSUME IsSeq(came), IsSeq(stored), Stored, NEW y, came' = Append(came, y),
         stored' = stored \/ stored' = Append(stored, y),
         NEW last, last = Len(came) + 1, stored' = stored => Overflowed(last)'
  PROVE  Stored'
<1>1. /\ Len(came) \in Nat /\ Len(came') = Len(came) + 1 /\ came'[Len(came) + 1] = y
      /\ \A i \in 1 .. Len(came) : came'[i] = came[i]
  BY Lengths, Appended
<1>2. Len(stored) \in Nat /\ Len(stored) <= Len(stored') /\ \A i \in 1 .. Len(stored) : stored'[i] = stored[i]
  BY Lengths, Appended
<1>3. stored' = Append(stored, y) => Len(stored') = Len(stored) + 1 /\ stored'[Len(stored) + 1] = y
  BY Appended
<1>4. ASSUME NEW k \in 1 .. Len(came)
      PROVE  (\E i \in 1 .. Len(stored') : stored'[i] = came'[k]) \/ Overflowed(k)'
  <2>1. CASE Overflowed(k)
    BY <2>1, OverflowedStays
  <2>2. CASE \E i \in 1 .. Len(stored) : stored[i] = came[k]
    <3>1. PICK i \in 1 .. Len(stored) : stored[i] = came[k]
      BY <2>2
    <3>2. i \in 1 .. Len(stored') /\ stored'[i] = came'[k]
      <4>1. CASE stored' = stored
        BY <4>1, <3>1, <1>1
      <4>2. CASE stored' = Append(stored, y)
        <5>1. Len(stored') = Len(stored) + 1
          BY <4>2, <1>3
        <5> QED  BY <5>1, <3>1, <1>1, <1>2
      <4> QED  BY <4>1, <4>2
    <3> QED  BY <3>2
  <2> QED  BY <2>1, <2>2 DEF Stored
<1>5. (\E i \in 1 .. Len(stored') : stored'[i] = came'[last]) \/ Overflowed(last)'
  <2>1. CASE stored' = Append(stored, y)
    <3>1. Len(stored) + 1 \in 1 .. Len(stored')
      BY <2>1, <1>2, <1>3
    <3> QED  BY <3>1, <2>1, <1>1, <1>3
  <2> QED  BY <2>1
<1>6. ASSUME NEW k \in 1 .. Len(came')
      PROVE  (\E i \in 1 .. Len(stored') : stored'[i] = came'[k]) \/ Overflowed(k)'
  <2>1. k = last \/ k \in 1 .. Len(came)
    BY <1>1
  <2> QED  BY <2>1, <1>4, <1>5
<1> QED  BY <1>6 DEF Stored

\* What the steps do that take nothing.
LEMMA LinkStays ==
  ASSUME Linked, UNCHANGED << came, stored, cbIn >>, \E p : Placed(p, spHeadx', came)
  PROVE  Linked'
<1>1. Stored'
  BY OverflowedStays DEF Linked, Stored
<1> QED  BY <1>1 DEF Linked

LEMMA LinkKept ==
  ASSUME Linked, UNCHANGED << came, stored, cbIn >>, Kept(spHeadx, spHeadx') \/ spHeadx' = spHeadx
  PROVE  Linked'
<1>1. PICK p : Placed(p, spHeadx, came)
  BY DEF Linked
<1>2. Placed(p, spHeadx', came)
  BY <1>1, PlacedKept
<1> QED  BY <1>2, LinkStays

LEMMA LinkCut ==
  ASSUME SpInv, Linked, UNCHANGED << came, stored, cbIn >>, NEW f \in Nat, NEW t \in Nat, f <= t, t <= Len(spHeadx),
         spHeadx' = Without(f, t)
  PROVE  Linked'
<1>1. PICK p : Placed(p, spHeadx, came)
  BY DEF Linked
<1>2. ItemsOK(spHeadx) /\ IsSeq(spHeadx) /\ IsSeq(came)
  BY DEF SpInv, Types, ItemsOK, Linked
<1>3. Cut(spHeadx, spHeadx', f, t)
  BY <1>2, WithoutCuts
<1>4. \E q : Placed(q, spHeadx', came)
  BY <1>1, <1>2, <1>3, PlacedCut
<1> QED  BY <1>4, LinkStays

LEMMA LinkShift == ASSUME SpInv, Linked, SpShift \/ SpShiftActive PROVE Linked'
<1>1. procState = "SHIFT" /\ UNCHANGED << came, stored, cbIn >>
  BY DEF SpShift, SpShiftActive, ShiftOnly, Running, NoTransfer, spHist
<1>2. /\ Len(spHeadx) \in Nat /\ spWin.start \in Nat /\ spWin.end \in Nat
      /\ spWin.start <= spWin.end /\ spWin.end <= Len(spHeadx)
      /\ spWin.pen # Invalid => spWin.pen \in Nat /\ spWin.pen <= spWin.end
  BY <1>1, ShiftHere
<1>3. CASE SpShift
  <2>1. spWin.pen \in Nat /\ 0 <= spWin.pen /\ spWin.pen <= Len(spHeadx) /\ spHeadx' = Without(0, spWin.pen)
    BY <1>2, <1>3 DEF SpShift
  <2> QED  BY <1>1, <2>1, LinkCut
<1>4. CASE SpShiftActive
  <2>1. PICK start \in {IF spWin.start = spWin.end THEN 0 ELSE spWin.start} : spHeadx' = Without(start, spWin.end)
    BY <1>4 DEF SpShiftActive
  <2>2. start \in Nat /\ start <= spWin.end
    BY <1>2
  <2> QED  BY <1>1, <1>2, <2>1, <2>2, LinkCut
<1> QED  BY <1>3, <1>4

LEMMA LinkCollect == ASSUME SpInv, Linked, SpCollect PROVE Linked'
<1> DEFINE y == Head(cbIn)
           x == Unbounded(Head(cbIn))
<1>1. /\ cbIn # << >> /\ cbIn' = Tail(cbIn) /\ spHeadx' = Append(spHeadx, x)
      /\ came' = Append(came, y) /\ stored' = Append(stored, y)
  BY DEF SpCollect, Take
<1>2. ItemsOK(cbIn) /\ IsSeq(cbIn) /\ IsSeq(spHeadx) /\ IsSeq(stored) /\ IsSeq(came)
  BY DEF SpInv, Types, ItemsOK, Linked
<1>3. x.len = y.len
  <2>1. ItemOK(y)
    BY <1>1, <1>2, ItemsTail
  <2> QED  BY <2>1, UnboundedOK
<1>4. PICK p : Placed(p, spHeadx, came)
  BY DEF Linked
<1>5. Like(came \o cbIn, came' \o cbIn') /\ Like(stored \o cbIn, stored' \o cbIn')
  BY <1>1, <1>2, HeadTaken
<1> HIDE DEF x, y
<1>6. \E q : Placed(q, spHeadx', came')
  BY <1>1, <1>2, <1>3, <1>4, PlacedMore
<1>7. stored' # stored
  <2>1. Len(Append(stored, y)) = Len(stored) + 1 /\ Len(stored) \in Nat
    BY <1>2, Appended, Lengths
  <2> QED  BY <1>1, <2>1
<1>8. Stored'
  BY <1>1, <1>2, <1>7, StoredMore DEF Linked
<1>9. IsSeq(came') /\ \A i \in 1 .. Len(stored') : \E k \in 1 .. Len(came') : stored'[i] = came'[k]
  <2>1. /\ IsSeq(came') /\ Len(came') = Len(came) + 1 /\ came'[Len(came) + 1] = y
        /\ \A i \in 1 .. Len(came) : came'[i] = came[i]
    BY <1>1, <1>2, Appended
  <2>2. /\ Len(stored') = Len(stored) + 1 /\ stored'[Len(stored) + 1] = y
        /\ \A i \in 1 .. Len(stored) : stored'[i] = stored[i]
    BY <1>1, <1>2, Appended
  <2>3. Len(came) \in Nat /\ Len(stored) \in Nat
    BY <1>2, Lengths
  <2>4. ASSUME NEW i \in 1 .. Len(stored') PROVE \E k \in 1 .. Len(came') : stored'[i] = came'[k]
    <3>1. CASE i = Len(stored) + 1
      <4>1. Len(came) + 1 \in 1 .. Len(came')
        BY <2>1, <2>3
      <4> QED  BY <3>1, <4>1, <2>1, <2>2
    <3>2. CASE i # Len(stored) + 1
      <4>1. i \in 1 .. Len(stored)
        BY <3>2, <2>2, <2>3
      <4>2. PICK k \in 1 .. Len(came) : stored[i] = came[k]
        BY <4>1 DEF Linked
      <4>3. k \in 1 .. Len(came') /\ came'[k] = came[k] /\ stored'[i] = stored[i]
        BY <4>1, <2>1, <2>2, <2>3
      <4> QED  BY <4>2, <4>3
    <3> QED  BY <3>1, <3>2
  <2> QED  BY <2>1, <2>4
<1>10. Open((came \o cbIn)') => Open((stored \o cbIn)')
  BY <1>5, OpenSame DEF Linked
<1> QED  BY <1>6, <1>8, <1>9, <1>10 DEF Linked

LEMMA LinkLost == ASSUME SpInv, Linked, SpCollectLost PROVE Linked'
<1> DEFINE y == Head(cbIn)
           n == Len(spHeadx)
<1>1. /\ procState = "COLLECT" /\ cbIn # << >> /\ cbIn' = Tail(cbIn) /\ HeadRoom /\ ~ContentRoom(y)
      /\ came' = Append(came, y) /\ UNCHANGED << spHeadx, stored >>
  BY DEF SpCollectLost, BufferFull, Running, Take
<1>2. ItemsOK(cbIn) /\ IsSeq(cbIn) /\ ItemsOK(spHeadx) /\ IsSeq(spHeadx) /\ IsSeq(stored) /\ IsSeq(came)
  BY DEF SpInv, Types, ItemsOK, Linked
<1>3. n \in Nat /\ Len(came) \in Nat
  BY <1>2, Lengths
<1>4. PICK p : Placed(p, spHeadx, came)
  BY DEF Linked
<1>5. ItemOK(y)
  BY <1>1, <1>2, ItemsTail
<1>6. /\ Like(came \o cbIn, came' \o cbIn')
      /\ CutLike(stored \o cbIn, stored \o cbIn', Len(stored), Len(stored) + 1)
      /\ (stored \o cbIn)[Len(stored) + 1].kind = y.kind /\ Len(stored) < Len(stored \o cbIn)
  BY <1>1, <1>2, HeadTaken, HeadLost
<1>7. y.kind \notin Bounds
  BY <1>1, <1>2, <1>5, LostIsNoBound
<1>8. Placed(p, spHeadx', came')
  BY <1>1, <1>2, <1>4, PlacedLater
<1>9. IsSeq(came') /\ Len(came') = Len(came) + 1 /\ came'[Len(came) + 1] = y /\ \A i \in 1 .. Len(came) : came'[i] = came[i]
  BY <1>1, <1>2, Appended
<1> HIDE DEF y, n
<1>10. ASSUME NEW last, last = Len(came) + 1 PROVE Overflowed(last)'
  <2> DEFINE held == [i \in 1 .. n |-> came'[p[i]]]
  <2>1. Len(held) = n /\ \A i \in 1 .. n : held[i] = came'[p[i]]
    BY <1>3
  <2>2. n \in 0 .. SpMaxHeadx - 1
    BY <1>1, <1>3, SpAssumption DEF HeadRoom, WritePos, n
  <2>3. \A i \in 1 .. n : p[i] \in 1 .. Len(came) /\ p[i] \in 1 .. last - 1 /\ spHeadx[i].len = came'[p[i]].len
    BY <1>3, <1>4, <1>9, <1>10 DEF Placed, n
  <2>4. p \in [1 .. n -> 1 .. last - 1] /\ \A i, j \in 1 .. n : i < j => p[i] < p[j]
    BY <1>4, <2>3 DEF Placed, n
  <2> HIDE DEF held
  <2>5. LenSum(spHeadx) = LenSum(held)
    <3>1. \A i \in 1 .. Len(spHeadx) : spHeadx[i].len = held[i].len
      BY <2>1, <2>3 DEF n
    <3> QED  BY <3>1, <1>3, <2>1, SameSums DEF n
  <2>6. LenSum(held) < SpCbufSize /\ ~(LenSum(held) + came'[last].len <= SpCbufSize)
    BY <1>1, <1>9, <1>10, <2>5 DEF HeadRoom, ContentRoom
  <2>7. /\ \A i, j \in 1 .. n : i < j => p[i] < p[j]
        /\ LenSum([i \in 1 .. n |-> came'[p[i]]]) < SpCbufSize
        /\ ~(LenSum([i \in 1 .. n |-> came'[p[i]]]) + came'[last].len <= SpCbufSize)
    BY <2>4, <2>6 DEF held
  <2> QED  BY <2>2, <2>4, <2>7 DEF Overflowed
<1>11. Stored'
  BY <1>1, <1>2, <1>10, StoredMore DEF Linked
<1>12. \A i \in 1 .. Len(stored') : \E k \in 1 .. Len(came') : stored'[i] = came'[k]
  <2> SUFFICES ASSUME NEW i \in 1 .. Len(stored) PROVE \E k \in 1 .. Len(came') : stored[i] = came'[k]
    BY <1>1
  <2>1. PICK k \in 1 .. Len(came) : stored[i] = came[k]
    BY DEF Linked
  <2> QED  BY <2>1, <1>3, <1>9
<1>13. Open((came \o cbIn)') => Open((stored \o cbIn)')
  <2>1. Open((came \o cbIn)') => Open(came \o cbIn)
    BY <1>1, <1>6, OpenSame
  <2> QED  BY <2>1, <1>1, <1>2, <1>6, <1>7, OpenKept, Lengths DEF Linked
<1> QED  BY <1>8, <1>9, <1>11, <1>12, <1>13 DEF Linked

LEMMA LinkArrive ==
  ASSUME SpInv, Linked, Arrive(MayFollow(came \o cbIn)), UNCHANGED spOnly
  PROVE  Linked'
<1>1. PICK x : cbIn' = Append(cbIn, x)
  BY DEF Arrive
<1>2. UNCHANGED << came, stored, spHeadx >>
  BY DEF spOnly, spHist
<1>3. IsSeq(cbIn) /\ IsSeq(stored) /\ IsSeq(came)
  BY DEF SpInv, Types, ItemsOK, Linked
<1>4. Extended(came \o cbIn, came \o cbIn', x) /\ Extended(stored \o cbIn, stored \o cbIn', x)
  BY <1>1, <1>3, ExtendedBy
<1>5. Open(came \o cbIn') => Open(stored \o cbIn')
  BY <1>4, OpenExtended, OpenAfter DEF Linked
<1>6. Stored'
  BY <1>2, <1>3, OverflowedStays DEF Linked, Stored
<1> QED  BY <1>2, <1>5, <1>6 DEF Linked

LEMMA LinkNext ==
  ASSUME SpInv, Linked, [SpNext]_spVars, ~SpReset
  PROVE  Linked'
<1>1. CASE SpStart \/ SpCollectEnd \/ SpCollectFull
  <2>1. UNCHANGED << came, stored, cbIn, spHeadx >>
    BY <1>1 DEF SpStart, SpCollectEnd, SpCollectFull, BufferFull, NoTransfer, spHist
  <2> QED  BY <2>1, LinkKept
<1>2. CASE \/ SpParseEnd \/ SpParseSentEnd \/ SpParseFlush \/ SpParsePhones \/ SpParseOverflow \/ SpParseOther
  <2>1. UNCHANGED << came, stored, cbIn, spHeadx >>
    BY <1>2 DEF SpParseEnd, SpParseSentEnd, SpParseFlush, SpParsePhones, SpParseOverflow, SpParseOther,
       NoTransfer, spHist
  <2> QED  BY <2>1, LinkKept
<1>3. CASE SpTransduce \/ SpBounds \/ SpAlignError \/ SpAlignSil \/ SpAlignEnd
  <2>1. UNCHANGED << came, stored, cbIn, spHeadx >>
    BY <1>3 DEF SpTransduce, SpBounds, SpAlignError, SpAlignSil, SpAlignEnd, AlignOnly, NoTransfer, spHist
  <2> QED  BY <2>1, LinkKept
<1>4. CASE SpAlignBound \/ SpAlignOther
  <2>1. UNCHANGED << came, stored, cbIn >>
    BY <1>4 DEF SpAlignBound, SpAlignOther, AlignOnly, NoTransfer, spHist
  <2>2. (\E brk, i, orig, origType, bound : SetTypes(brk, i, orig, origType, bound)) \/ spHeadx' = spHeadx
    BY <1>4 DEF SpAlignBound, SpAlignOther, SetBound, SetBreak
  <2>3. Kept(spHeadx, spHeadx') \/ spHeadx' = spHeadx
    BY <2>2, TypesKept DEF SpInv, Types
  <2> QED  BY <2>1, <2>3, LinkKept
<1>5. CASE SpRecombSide
  <2>1. UNCHANGED << came, stored, cbIn >> /\ spHeadx' = WithBound(spHeadx, spAli.out, NoBound)
    BY <1>5 DEF SpRecombSide, RecombOnly, NoTransfer, spHist
  <2>2. Kept(spHeadx, spHeadx')
    BY <2>1, WithBoundKept DEF SpInv, Types
  <2> QED  BY <2>1, <2>2, LinkKept
<1>6. CASE \/ SpRecombEnd \/ SpRecombContext \/ SpRecombBound \/ SpRecombWord
           \/ SpRecombError \/ SpRecombSil \/ SpRecombOther \/ SpSyl
  <2>1. UNCHANGED << came, stored, cbIn, spHeadx >>
    BY <1>6 DEF SpRecombEnd, SpRecombContext, SpRecombBound, SpRecombWord, SpRecombError, SpRecombSil,
       SpRecombOther, SpSyl, Wrong, RecombOnly, NoTransfer, spHist
  <2> QED  BY <2>1, LinkKept
<1>7. CASE SpFeed \/ SpFeedFull
  <2>1. UNCHANGED << came, stored, cbIn, spHeadx >>
    BY <1>7 DEF SpFeed, SpFeedFull, Put, NoTransfer, spHist
  <2> QED  BY <2>1, LinkKept
<1>8. CASE (Call \/ Fetch) /\ UNCHANGED spOnly
  <2>1. UNCHANGED << came, stored, cbIn, spHeadx >>
    BY <1>8 DEF Call, Fetch, spOnly, spHist
  <2> QED  BY <2>1, LinkKept
<1>9. CASE UNCHANGED spVars
  <2>1. UNCHANGED << came, stored, cbIn, spHeadx >>
    BY <1>9 DEF spVars, unitVars, spHist
  <2> QED  BY <2>1, LinkKept
<1> QED  BY <1>1, <1>2, <1>3, <1>4, <1>5, <1>6, <1>7, <1>8, <1>9, LinkShift, LinkCollect, LinkLost, LinkArrive, Zenon
         DEF SpNext, SpStep

LEMMA StepNext ==
  ASSUME SpInv, Linked, [SpNext]_spVars, ~SpReset
  PROVE  SpInv'
<1>1. CASE SpStep
  <2>1. CASE \/ SpStart \/ SpCollect \/ SpCollectEnd \/ SpCollectFull \/ SpCollectLost
    BY <2>1, StepStart, StepCollect, StepCollectEnd, StepCollectFull, StepCollectLost
  <2>2. CASE \/ SpParseEnd \/ SpParseSentEnd \/ SpParseFlush \/ SpParsePhones \/ SpParseOverflow \/ SpParseOther
    BY <2>2, StepParseEnd, StepParseSentEnd, StepParseFlush, StepParsePhones, StepParseOverflow, StepParseOther
  <2>3. CASE \/ SpTransduce
             \/ SpBounds \/ SpAlignBound \/ SpAlignError \/ SpAlignSil \/ SpAlignOther \/ SpAlignEnd
    BY <2>3, StepTransduce, StepBounds, StepAlignBound, StepAlignError, StepAlignSil, StepAlignOther, StepAlignEnd
  <2>4. CASE \/ SpRecombEnd \/ SpRecombContext \/ SpRecombSide \/ SpRecombBound \/ SpRecombWord
             \/ SpRecombError \/ SpRecombSil \/ SpRecombOther \/ SpSyl
    BY <2>4, StepRecombEnd, StepRecombContext, StepRecombSide, StepRecombBound, StepRecombWord,
       StepRecombError, StepRecombSil, StepRecombOther, StepSyl
  <2>5. CASE SpFeed \/ SpFeedFull \/ SpShift \/ SpShiftActive
    BY <2>5, StepFeed, StepFeedFull, StepShift, StepShiftActive
  <2> QED  BY <1>1, <2>1, <2>2, <2>3, <2>4, <2>5, Zenon DEF SpStep
<1>2. CASE (Call \/ Fetch) /\ UNCHANGED spOnly
  <2>1. UNCHANGED << spHeadx, spPhon, spPar, spWin, spAli, spOut, stored, told, cbIn, procState, fed >>
    BY <1>2 DEF Call, Fetch, spOnly, spHist
  <2> QED  BY <2>1, StepSame
<1>3. CASE Arrive(MayFollow(came \o cbIn)) /\ UNCHANGED spOnly
  <2>1. MayFollow(came \o cbIn) \subseteq MayCome(stored \o cbIn)
    BY DEF MayFollow, MayCome, Linked
  <2>2. Arrive(MayCome(stored \o cbIn))
    BY <1>3, <2>1 DEF Arrive
  <2> QED  BY <1>3, <2>2, StepArrive
<1>4. CASE UNCHANGED spVars
  <2>1. UNCHANGED << spHeadx, spPhon, spPar, spWin, spAli, spOut, stored, told, cbIn, procState, fed >>
    BY <1>4 DEF spVars, unitVars, spHist
  <2> QED  BY <2>1, StepSame
<1> QED  BY <1>1, <1>2, <1>3, <1>4, Zenon DEF SpNext

Blank ==
  /\ procState = "INIT" /\ spHeadx = << >> /\ cbIn = << >> /\ told = << >> /\ spOut = << >>
  /\ came = << >> /\ stored = << >>
  /\ spWin = [start |-> 0, pen |-> Invalid, end |-> Invalid]
  /\ spPar = [rd |-> 0, started |-> FALSE, suppress |-> FALSE]
  /\ fed \in Nat /\ "out" \in DOMAIN spAli /\ spAli.out \in Nat

LEMMA BlankInv == Blank => SpInv
<1> SUFFICES ASSUME Blank PROVE SpInv
  OBVIOUS
<1> DEFINE none == << >>
<1>1. IsSeq(none) /\ Len(none) = 0 /\ DOMAIN none = {}
  BY Empty
<1>2. none \o none = none
  OBVIOUS
<1>3. /\ procState = "INIT" /\ spHeadx = none /\ cbIn = none /\ stored = none /\ told = none /\ spOut = none
      /\ spWin = [start |-> 0, pen |-> Invalid, end |-> Invalid]
      /\ spPar = [rd |-> 0, started |-> FALSE, suppress |-> FALSE]
      /\ fed \in Nat /\ "out" \in DOMAIN spAli /\ spAli.out \in Nat
  BY DEF Blank
<1>4. Said = told
  BY <1>3 DEF Said
<1> HIDE DEF none
<1>5. Waiting = none /\ stored \o cbIn = none
  BY <1>2, <1>3 DEF Waiting
<1>6. Follow = "INIT" /\ Base = 0 /\ Progress = 0
  BY <1>3 DEF Follow, Base, Progress, Putting
<1>7. Types
  <2>1. ItemsOK(none)
    BY <1>1 DEF ItemsOK
  <2>2. spWin \in [start : Nat, pen : Int, end : Int]
    BY <1>3 DEF Invalid
  <2>3. spPar \in [rd : Nat, started : BOOLEAN, suppress : BOOLEAN]
    BY <1>3
  <2> QED  BY <1>1, <1>3, <2>1, <2>2, <2>3 DEF Types
<1>8. Turn
  BY <1>3, <1>6 DEF Turn, Early, Putting, none
<1>9. Window
  <2>1. spWin.start = 0
    BY <1>3
  <2>2. NoEnd(none, 0, 0)
    BY DEF NoEnd
  <2>3. Sized(none, 0, 0, SpPhonCap)
    BY SizedNothing, SpAssumption
  <2> QED  BY <1>1, <1>3, <2>1, <2>2, <2>3 DEF Window, Early
<1>10. Grammar
  <2>1. ~Open(none)
    BY <1>1 DEF Open
  <2>2. GrammarOf(none, 0, FALSE, FALSE)
    BY <1>1 DEF GrammarOf
  <2>3. spPar.started = FALSE
    BY <1>3
  <2>4. Open(none) = FALSE
    BY <2>1, Zenon DEF Open
  <2> QED  BY <1>5, <1>6, <2>2, <2>3, <2>4, Zenon DEF Grammar
<1>11. Order
  <2>1. Ordered(none, 0, 0, FALSE, none, none, fed)
    BY <1>1 DEF Ordered, Rising, Known, Spoken, Ahead, Heeded, Complete
  <2>2. Ordered(Waiting, Len(spHeadx), Progress, FALSE, Said, stored, fed)
    BY <1>1, <1>3, <1>4, <1>5, <1>6, <2>1
  <2> DEFINE mid == Follow = "SYL"
  <2>3. mid = FALSE
    BY <1>6
  <2> HIDE DEF mid
  <2> QED  BY <2>2, <2>3 DEF Order, mid
<1> QED  BY <1>7, <1>8, <1>9, <1>10, <1>11 DEF SpInv

LEMMA BlankLinked == Blank => Linked
<1> SUFFICES ASSUME Blank PROVE Linked
  OBVIOUS
<1>1. IsSeq(<< >>) /\ Len(<< >>) = 0 /\ DOMAIN << >> = {}
  BY Empty
<1>2. Placed(<< >>, << >>, << >>)
  BY <1>1 DEF Placed
<1>3. \E p : Placed(p, spHeadx, came)
  BY <1>2 DEF Blank
<1>4. came \o cbIn = stored \o cbIn
  BY DEF Blank
<1>5. IsSeq(came) /\ 1 .. Len(came) = {} /\ 1 .. Len(stored) = {}
  BY <1>1 DEF Blank
<1> QED  BY <1>3, <1>4, <1>5 DEF Linked, Stored

\* The invariant: the buffers are windows of what found room, what was said of it is
\* in order and complete, and only what overflowed found none, whenever the calls of
\* the unit run and are reset.
THEOREM SpInductive == SpSpec => [](SpInv /\ Linked)
<1>1. SpInit => Blank
  BY DEF SpInit, UnitInit, Blank
<1>2. SpInv /\ Linked /\ [SpNext]_spVars /\ ~SpReset => SpInv' /\ Linked'
  BY StepNext, LinkNext
<1>3. SpInv /\ SpReset => Blank'
  <2> SUFFICES ASSUME SpInv, SpReset PROVE Blank'
    OBVIOUS
  <2>1. fed \in Nat
    BY DEF SpInv, Types
  <2>2. "out" \in DOMAIN spAli' /\ spAli'.out \in Nat
    BY DEF SpReset
  <2> QED  BY <2>1, <2>2 DEF SpReset, UnitReset, Blank
<1>4. Blank => SpInv /\ Linked
  BY BlankInv, BlankLinked
<1> QED  BY <1>1, <1>2, <1>3, <1>4, PTL DEF SpSpec

\* ItemsInOrder of the items that found room.
StoredInOrder ==
  /\ \A n \in DOMAIN told : told[n].id # Made => \E k \in DOMAIN stored : Of(told[n], stored[k])
  /\ \A m, n \in DOMAIN told : m < n /\ told[m].id # Made /\ told[n].id # Made =>
       \/ told[m].id < told[n].id
       \/ told[m].id = told[n].id /\ told[m].kind = "SYLL" /\ told[n].kind = "SYLL"
  /\ \A k \in Commands(stored) :
       (\E n \in DOMAIN told : stored[k].id < told[n].id) \/ (spHeadx = << >> /\ spOut = << >>)
         => \E n \in DOMAIN told : Of(told[n], stored[k])

LEMMA ItemsFollow == SpInv => StoredInOrder
<1> SUFFICES ASSUME SpInv PROVE StoredInOrder
  OBVIOUS
<1> DEFINE s == Said
           w == Waiting
           n == Len(spHeadx)
           p == Progress
           mid == Follow = "SYL"
           l == Len(told)
<1>1. IsSeq(told) /\ ItemsOK(stored) /\ IsSeq(stored)
  BY DEF SpInv, Types, ItemsOK
<1>2. l \in Nat /\ DOMAIN told = 1 .. l /\ DOMAIN stored = 1 .. Len(stored)
  BY <1>1, Lengths
<1>3. /\ Len(s) \in {l, l + 1} /\ \A i \in 1 .. l : s[i] = told[i]
      /\ spOut = << >> => Len(s) = l
  <2>1. CASE spOut = << >>
    BY <2>1 DEF Said
  <2>2. CASE spOut # << >>
    <3> DEFINE x == spOut[1]
    <3>1. s = Append(told, x)
      BY <2>2 DEF Said
    <3> HIDE DEF x, s
    <3>2. Len(s) = Len(told) + 1 /\ \A i \in 1 .. Len(told) : s[i] = told[i]
      BY <1>1, <3>1, Appended
    <3> QED  BY <2>2, <3>2
  <2> QED  BY <2>1, <2>2
<1>4. Ordered(w, n, p, mid, s, stored, fed)
  BY DEF SpInv, Order
<1>5. p \in Nat /\ p <= n /\ n \in Nat /\ Len(w) \in Nat /\ n <= Len(w)
  <2>1. IsSeq(spHeadx) /\ IsSeq(cbIn)
    BY DEF SpInv, Types, ItemsOK
  <2>2. Len(w) = n + Len(cbIn) /\ Len(cbIn) \in Nat /\ n \in Nat
    BY <2>1, Joined, Lengths DEF Waiting
  <2> HIDE DEF w, n
  <2>3. n <= Len(w) /\ Len(w) \in Nat
    BY <2>2
  <2>4. p \in Nat /\ p <= n
    BY Reach DEF n
  <2> QED  BY <2>2, <2>3, <2>4
<1>6. spHeadx = << >> => n = 0
  BY Empty
<1> HIDE DEF s, w, n, p, mid, l
<1>7. \A i \in 1 .. l : i \in 1 .. Len(s)
  BY <1>2, <1>3
<1>8. \A i \in DOMAIN told : told[i].id # Made => \E k \in DOMAIN stored : Of(told[i], stored[k])
  BY <1>2, <1>3, <1>4, <1>7 DEF Ordered, Heeded, Made
<1>9. \A m, i \in DOMAIN told : m < i /\ told[m].id # Made /\ told[i].id # Made =>
        \/ told[m].id < told[i].id
        \/ told[m].id = told[i].id /\ told[m].kind = "SYLL" /\ told[i].kind = "SYLL"
  BY <1>2, <1>3, <1>4, <1>7 DEF Ordered, Spoken, Made
<1>10. ASSUME NEW k \in Commands(stored), ~\E i \in DOMAIN told : Of(told[i], stored[k]),
              (\E i \in DOMAIN told : stored[k].id < told[i].id) \/ (spHeadx = << >> /\ spOut = << >>)
       PROVE  FALSE
  <2>1. k \in 1 .. Len(stored) /\ stored[k].kind \notin Silent
    BY <1>2 DEF Commands, Silent
  <2>2. stored[k].id \in Nat \ {0}
    BY <1>1, <2>1 DEF ItemsOK, ItemOK
  <2>3. \/ \E m \in 1 .. Len(s) : Of(s[m], stored[k])
        \/ \E j \in p + 1 .. n : w[j].id = stored[k].id /\ w[j].kind = stored[k].kind
    BY <1>4, <2>1 DEF Ordered, Complete
  <2>4. CASE \E m \in 1 .. Len(s) : Of(s[m], stored[k])
    <3>1. PICK m \in 1 .. Len(s) : Of(s[m], stored[k])
      BY <2>4
    <3>2. m \notin 1 .. l
      <4>1. m \in 1 .. l => Of(told[m], stored[k])
        BY <1>3, <3>1
      <4> QED  BY <4>1, <1>2, <1>10
    <3>3. m = l + 1 /\ spOut # << >>
      BY <1>2, <1>3, <3>2
    <3>4. PICK i \in DOMAIN told : stored[k].id < told[i].id
      BY <1>10, <3>3
    <3>5. i \in 1 .. l /\ i \in 1 .. Len(s) /\ i < m /\ s[i] = told[i] /\ s[m].id = stored[k].id
      BY <1>2, <1>3, <1>7, <3>1, <3>3, <3>4 DEF Of
    <3>6. s[i].id \in Nat /\ s[m].id \in Nat
      BY <1>4, <3>1, <3>5 DEF Ordered, Spoken
    <3>7. s[i].id # 0 /\ s[m].id # 0
      BY <2>2, <3>4, <3>5, <3>6
    <3>8. s[i].id < s[m].id \/ s[i].id = s[m].id
      BY <1>4, <3>1, <3>5, <3>7 DEF Ordered, Spoken
    <3> QED  BY <2>2, <3>4, <3>5, <3>6, <3>8
  <2>5. CASE \E j \in p + 1 .. n : w[j].id = stored[k].id /\ w[j].kind = stored[k].kind
    <3>1. PICK j \in p + 1 .. n : w[j].id = stored[k].id
      BY <2>5
    <3>2. n # 0 /\ j \in p + 1 .. Len(w)
      BY <1>5, <3>1
    <3>3. PICK i \in DOMAIN told : stored[k].id < told[i].id
      BY <1>6, <1>10, <3>2
    <3>4. i \in 1 .. Len(s) /\ s[i] = told[i]
      BY <1>2, <1>3, <1>7, <3>3
    <3>5. s[i].id \in Nat
      BY <1>4, <3>4 DEF Ordered, Spoken
    <3>6. s[i].id # 0
      BY <2>2, <3>3, <3>4, <3>5
    <3>7. s[i].id < w[j].id \/ s[i].id = w[j].id
      BY <1>4, <3>2, <3>4, <3>6 DEF Ordered, Ahead
    <3> QED  BY <2>2, <3>1, <3>3, <3>4, <3>5, <3>7
  <2> QED  BY <2>3, <2>4, <2>5
<1>11. \A k \in Commands(stored) :
         (\E i \in DOMAIN told : stored[k].id < told[i].id) \/ (spHeadx = << >> /\ spOut = << >>)
           => \E i \in DOMAIN told : Of(told[i], stored[k])
  BY <1>10
<1> QED  BY <1>8, <1>9, <1>11, Zenon DEF StoredInOrder

\* What found room came, and what came found room or overflowed.
LEMMA CameInOrder == SpInv /\ Linked /\ StoredInOrder => ItemsInOrder
<1> SUFFICES ASSUME SpInv, Linked, StoredInOrder PROVE ItemsInOrder
  OBVIOUS
<1>1. DOMAIN came = 1 .. Len(came) /\ DOMAIN stored = 1 .. Len(stored)
  BY Lengths DEF Linked, SpInv, Types, ItemsOK
<1>2. ASSUME NEW n \in DOMAIN told, told[n].id # Made
      PROVE  \E k \in DOMAIN came : Of(told[n], came[k])
  <2>1. PICK i \in DOMAIN stored : Of(told[n], stored[i])
    BY <1>2 DEF StoredInOrder
  <2>2. PICK k \in DOMAIN came : stored[i] = came[k]
    BY <1>1 DEF Linked
  <2> QED  BY <2>1, <2>2
<1>3. ASSUME NEW k \in Commands(came), ~Overflowed(k),
             (\E n \in DOMAIN told : came[k].id < told[n].id) \/ (spHeadx = << >> /\ spOut = << >>)
      PROVE  \E n \in DOMAIN told : Of(told[n], came[k])
  <2>1. k \in DOMAIN came /\ came[k].kind \notin WithPhones \union {"SIL"}
    BY DEF Commands
  <2>2. PICK i \in DOMAIN stored : stored[i] = came[k]
    BY <1>1, <1>3, <2>1 DEF Linked, Stored
  <2>3. i \in Commands(stored)
    BY <2>1, <2>2 DEF Commands
  <2> QED  BY <1>3, <2>2, <2>3 DEF StoredInOrder
<1>4. \A m, n \in DOMAIN told : m < n /\ told[m].id # Made /\ told[n].id # Made =>
        \/ told[m].id < told[n].id
        \/ told[m].id = told[n].id /\ told[m].kind = "SYLL" /\ told[n].kind = "SYLL"
  BY DEF StoredInOrder
<1> QED  BY <1>2, <1>3, <1>4, Zenon DEF ItemsInOrder

\* Words and commands leave in the order in which they came: what is put is a syllable of
\* a word, or a command, that came; a command is put once, and none is passed over, or left
\* behind when the unit holds nothing, but one whose content fits no more into the content
\* buffer beside that of others before it (picospho.c, COLLECT). So it is wherever the
\* windows are cut (PICOSPHO_SHIFT), the parser goes back, and the output is full.
THEOREM SpItemsInOrder == SpSpec => []ItemsInOrder
<1>1. SpSpec => [](SpInv /\ Linked)
  BY SpInductive
<1>2. SpInv /\ Linked => ItemsInOrder
  BY ItemsFollow, CameInOrder
<1> QED  BY <1>1, <1>2, PTL

=============================================================================
