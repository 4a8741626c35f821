----------------------------- MODULE UnitProofs ------------------------------
(***************************************************************************)
(* Two of the units between the text and the sound: the word analysis with *)
(* the lexicon it looks words up in, and the phonetic-acoustic mapping.    *)
(*                                                                         *)
(* Lexicon and word analysis, for all lexica that are well formed and all  *)
(* words: a lookup finds what a search of the whole lexicon would find,    *)
(* and what the unit makes of a word leads back to the entries of this     *)
(* word.  The prefixes of words as numbers have the order of the words     *)
(* (ValMonotone), so the index of the blocks is in order (IndexInOrder)    *)
(* and the binary search finds the first block that is not less            *)
(* (SearchIs); from it, the blocks taken have all entries of the word      *)
(* (BlocksFound), and the walk through them takes these and no other       *)
(* (MoreIs).                                                               *)
(*                                                                         *)
(* Phonetic-acoustic mapping, for all sizes of its buffers, any trees and  *)
(* any items: every phone goes out once and in order, and nothing that was *)
(* collected stays behind when the unit rests, also when ends of sentences *)
(* are forced and the queue of attached items overflows.                   *)
(* What was put is a beginning and what the cursor has passed of the       *)
(* sentence; what is due is the same beginning, the whole sentence and     *)
(* what the item in inBuf says (Owes).  The sentence is given up only when *)
(* the cursor is at its end; that depends on the numbers of tied items,    *)
(* for a syllable is left when the last of its items is out.               *)
(***************************************************************************)
EXTENDS Pam, WordAna, SequenceTheorems, WellFoundedInduction, TLAPS

-----------------------------------------------------------------------------
(* Numbers: the least of a set.                                             *)
Below == OpToRel(<, Nat)
LEMMA LeastMember ==
  ASSUME NEW T, T \subseteq Nat, T # {}
  PROVE  \E m \in T : \A k \in T : m <= k
<1>1. IsWellFoundedOn(Below, Nat)
  BY NatLessThanWellFounded DEF Below
<1>2. \E x \in T : \A y \in T : << y, x >> \notin Below
  BY <1>1, WFMin, Zenon
<1>3. PICK m \in T : \A y \in T : << y, m >> \notin Below
  BY <1>2
<1>4. \A x, y \in Nat : x < y => << x, y >> \in Below
  BY DEF Below, OpToRel
<1>5. \A k \in T : k \in Nat /\ m \in Nat /\ ~(k < m)
  BY <1>3, <1>4
<1> QED  BY <1>5

-----------------------------------------------------------------------------
(* Sequences, of whatever they are.                                         *)
IsSeq(s) == \E S : s \in Seq(S)

LEMMA SeqFacts ==
  ASSUME NEW s, IsSeq(s)
  PROVE  Len(s) \in Nat /\ DOMAIN s = 1 .. Len(s) /\ (Len(s) = 0 <=> s = << >>)
BY DEF IsSeq

LEMMA SeqEmpty == IsSeq(<< >>) /\ Len(<< >>) = 0
<1>1. << >> \in Seq({})
  OBVIOUS
<1> QED  BY <1>1 DEF IsSeq

LEMMA SeqOne == ASSUME NEW e PROVE IsSeq(<< e >>) /\ Len(<< e >>) = 1 /\ << e >>[1] = e
<1>1. << e >> \in Seq({e})
  OBVIOUS
<1> QED  BY <1>1 DEF IsSeq

LEMMA SameSeq ==
  ASSUME NEW s, IsSeq(s), NEW t, IsSeq(t), Len(s) = Len(t), \A i \in 1 .. Len(s) : s[i] = t[i]
  PROVE  s = t
<1>1. PICK S : s \in Seq(S)
  BY DEF IsSeq
<1>2. PICK T : t \in Seq(T)
  BY DEF IsSeq
<1> DEFINE U == S \cup T
<1>3. s \in Seq(U) /\ t \in Seq(U)
  BY <1>1, <1>2
<1> HIDE DEF U
<1> QED  BY <1>3, SeqEqual

LEMMA SeqAppend ==
  ASSUME NEW s, IsSeq(s), NEW e
  PROVE  /\ IsSeq(Append(s, e)) /\ Len(Append(s, e)) = Len(s) + 1
         /\ Append(s, e)[Len(s) + 1] = e /\ \A i \in 1 .. Len(s) : Append(s, e)[i] = s[i]
<1>1. PICK S : s \in Seq(S)
  BY DEF IsSeq
<1> DEFINE U == S \cup {e}
<1>2. s \in Seq(U) /\ e \in U
  BY <1>1
<1> HIDE DEF U
<1>3. Append(s, e) \in Seq(U)
  BY <1>2
<1> QED  BY <1>2, <1>3 DEF IsSeq

LEMMA SeqTail ==
  ASSUME NEW s, IsSeq(s), s # << >>
  PROVE  /\ IsSeq(Tail(s)) /\ Len(s) >= 1 /\ Len(Tail(s)) = Len(s) - 1 /\ Head(s) = s[1]
         /\ \A i \in 1 .. Len(s) - 1 : Tail(s)[i] = s[i + 1]
<1>1. PICK S : s \in Seq(S)
  BY DEF IsSeq
<1>2. Tail(s) \in Seq(S)
  BY <1>1
<1> QED  BY <1>1, <1>2 DEF IsSeq

LEMMA SeqConcat ==
  ASSUME NEW s, IsSeq(s), NEW t, IsSeq(t)
  PROVE  /\ IsSeq(s \o t) /\ Len(s \o t) = Len(s) + Len(t)
         /\ \A i \in 1 .. Len(s) : (s \o t)[i] = s[i]
         /\ \A i \in 1 .. Len(t) : (s \o t)[Len(s) + i] = t[i]
<1>1. PICK S : s \in Seq(S)
  BY DEF IsSeq
<1>2. PICK T : t \in Seq(T)
  BY DEF IsSeq
<1> DEFINE U == S \cup T
<1>3. s \in Seq(U) /\ t \in Seq(U)
  BY <1>1, <1>2
<1> HIDE DEF U
<1>4. s \o t \in Seq(U)
  BY <1>3
<1> QED  BY <1>3, <1>4 DEF IsSeq

LEMMA SeqAssoc ==
  ASSUME NEW s, IsSeq(s), NEW t, IsSeq(t), NEW u, IsSeq(u)
  PROVE  (s \o t) \o u = s \o (t \o u)
<1>1. PICK S : s \in Seq(S)
  BY DEF IsSeq
<1>2. PICK T : t \in Seq(T)
  BY DEF IsSeq
<1>3. PICK V : u \in Seq(V)
  BY DEF IsSeq
<1> DEFINE U == (S \cup T) \cup V
<1>4. s \in Seq(U) /\ t \in Seq(U) /\ u \in Seq(U)
  BY <1>1, <1>2, <1>3
<1> HIDE DEF U
<1> QED  BY <1>4, ConcatAssociative

LEMMA SeqNothing ==
  ASSUME NEW s, IsSeq(s)
  PROVE  s \o << >> = s /\ << >> \o s = s
<1>1. PICK S : s \in Seq(S)
  BY DEF IsSeq
<1> QED  BY <1>1

\* An element at the end.
LEMMA AppendBehind ==
  ASSUME NEW s, IsSeq(s), NEW t, IsSeq(t), NEW e
  PROVE  s \o Append(t, e) = Append(s \o t, e)
<1>1. PICK S : s \in Seq(S)
  BY DEF IsSeq
<1>2. PICK T : t \in Seq(T)
  BY DEF IsSeq
<1> DEFINE U == (S \cup T) \cup {e}
<1>3. s \in Seq(U) /\ t \in Seq(U) /\ e \in U
  BY <1>1, <1>2
<1> HIDE DEF U
<1>4. /\ << e >> \in Seq(U) /\ s \o t \in Seq(U)
      /\ Append(t, e) = t \o << e >> /\ Append(s \o t, e) = (s \o t) \o << e >>
  <2>1. << e >> \in Seq(U) /\ s \o t \in Seq(U)
    BY <1>3
  <2> QED  BY <1>3, <2>1, AppendIsConcat
<1> QED  BY <1>3, <1>4, ConcatAssociative

\* The first of t moves to the end of s.
LEMMA FirstMoves ==
  ASSUME NEW s, IsSeq(s), NEW t, IsSeq(t), t # << >>
  PROVE  Append(s, Head(t)) \o Tail(t) = s \o t
<1> DEFINE a == Append(s, Head(t))
           b == Tail(t)
           l == a \o b
           r == s \o t
<1>1. /\ IsSeq(a) /\ Len(a) = Len(s) + 1 /\ a[Len(s) + 1] = t[1]
      /\ \A i \in 1 .. Len(s) : a[i] = s[i]
  BY SeqAppend, SeqTail
<1>2. /\ IsSeq(b) /\ Len(b) = Len(t) - 1 /\ Len(t) >= 1
      /\ \A i \in 1 .. Len(t) - 1 : b[i] = t[i + 1]
  BY SeqTail
<1> HIDE DEF a, b
<1>3. /\ IsSeq(l) /\ Len(l) = Len(a) + Len(b)
      /\ \A i \in 1 .. Len(a) : l[i] = a[i]
      /\ \A i \in 1 .. Len(b) : l[Len(a) + i] = b[i]
  <2>1. IsSeq(a) /\ IsSeq(b)
    BY <1>1, <1>2
  <2> QED  BY <2>1, SeqConcat
<1>4. /\ IsSeq(r) /\ Len(r) = Len(s) + Len(t)
      /\ \A i \in 1 .. Len(s) : r[i] = s[i]
      /\ \A i \in 1 .. Len(t) : r[Len(s) + i] = t[i]
  BY SeqConcat
<1>5. Len(s) \in Nat /\ Len(t) \in Nat
  BY SeqFacts
<1> HIDE DEF l, r
<1>6. Len(l) = Len(r)
  BY <1>1, <1>2, <1>3, <1>4, <1>5
<1>7. ASSUME NEW i \in 1 .. Len(l) PROVE l[i] = r[i]
  <2>1. CASE i <= Len(s)
    <3>1. i \in 1 .. Len(s) /\ i \in 1 .. Len(a)
      BY <2>1, <1>1, <1>5, <1>7
    <3> QED  BY <3>1, <1>1, <1>3, <1>4
  <2>2. CASE i = Len(s) + 1
    <3>1. i \in 1 .. Len(a) /\ 1 \in 1 .. Len(t)
      BY <2>2, <1>1, <1>2, <1>5
    <3> QED  BY <2>2, <3>1, <1>1, <1>3, <1>4
  <2>3. CASE i > Len(s) + 1
    <3>1. PICK k \in 1 .. Len(t) - 1 : i = Len(s) + (k + 1)
      <4>1. i \in 1 .. Len(s) + Len(t)
        BY <1>4, <1>6, <1>7
      <4>2. i - Len(s) - 1 \in 1 .. Len(t) - 1 /\ i = Len(s) + ((i - Len(s) - 1) + 1)
        BY <4>1, <2>3, <1>5
      <4> QED  BY <4>2
    <3>2. i = Len(a) + k /\ k \in 1 .. Len(b) /\ k + 1 \in 1 .. Len(t)
      BY <3>1, <1>1, <1>2, <1>5
    <3>3. l[i] = t[k + 1]
      BY <3>2, <1>2, <1>3
    <3> QED  BY <3>1, <3>2, <3>3, <1>4
  <2> QED  BY <2>1, <2>2, <2>3, <1>5, <1>7
<1>8. l = r
  BY <1>3, <1>4, <1>6, <1>7, SameSeq
<1> QED  BY <1>8 DEF l, r, a, b

LEMMA Prefixed ==
  ASSUME NEW s, IsSeq(s), NEW t, IsSeq(t)
  PROVE  IsPrefix(s, s \o t)
<1> DEFINE u == s \o t
<1>1. /\ IsSeq(u) /\ Len(u) = Len(s) + Len(t) /\ Len(s) \in Nat /\ Len(t) \in Nat
      /\ \A i \in 1 .. Len(s) : u[i] = s[i]
  BY SeqConcat, SeqFacts
<1> HIDE DEF u
<1>2. SubSeq(s, 1, Len(s)) = [i \in 1 .. Len(s) |-> s[i]]
  <2>1. PICK S : s \in Seq(S)
    BY DEF IsSeq
  <2> QED  BY <2>1
<1>3. SubSeq(u, 1, Len(s)) = [i \in 1 .. Len(s) |-> u[i]]
  <2>1. PICK S : u \in Seq(S)
    BY <1>1 DEF IsSeq
  <2> QED  BY <2>1, <1>1
<1> QED  BY <1>1, <1>2, <1>3 DEF IsPrefix, u

-----------------------------------------------------------------------------
(* Functions defined by recursion over 0 .. n, with values in a set.        *)
Recurs(f, base, step, n) == f[0] = base /\ \A i \in 1 .. n : f[i] = step[<< i, f[i - 1] >>]

LEMMA RecursionExists ==
  ASSUME NEW S, NEW base \in S, NEW n \in Nat, NEW step \in [(1 .. n) \X S -> S]
  PROVE  \E f \in [0 .. n -> S] : Recurs(f, base, step, n)
<1> DEFINE Bad == {m \in 0 .. n : ~\E f \in [0 .. m -> S] : Recurs(f, base, step, m)}
<1> SUFFICES ASSUME Bad # {} PROVE FALSE
  <2>1. n \in 0 .. n
    OBVIOUS
  <2>2. CASE Bad = {}
    <3>1. n \notin Bad
      BY <2>2
    <3> QED  BY <2>1, <3>1
  <2> QED  BY <2>2
<1>1. PICK m \in Bad : \A k \in Bad : m <= k
  <2>1. Bad \subseteq Nat
    OBVIOUS
  <2> HIDE DEF Bad
  <2> QED  BY <2>1, LeastMember
<1>2. m \in 0 .. n /\ ~\E f \in [0 .. m -> S] : Recurs(f, base, step, m)
  BY <1>1
<1>3. m # 0
  <2> SUFFICES ASSUME m = 0 PROVE FALSE
    OBVIOUS
  <2> DEFINE f == [i \in 0 .. 0 |-> base]
  <2>1. f \in [0 .. 0 -> S] /\ Recurs(f, base, step, 0)
    BY DEF Recurs
  <2> QED  BY <2>1, <1>2
<1>4. m - 1 \in 0 .. n /\ m - 1 \notin Bad
  <2>1. m - 1 \in 0 .. n
    BY <1>2, <1>3
  <2>2. ~(m <= m - 1)
    BY <1>2
  <2> QED  BY <2>1, <2>2, <1>1
<1>5. PICK g \in [0 .. m - 1 -> S] : Recurs(g, base, step, m - 1)
  BY <1>4
<1> DEFINE f == [i \in 0 .. m |-> IF i = m THEN step[<< m, g[m - 1] >>] ELSE g[i]]
<1>6. step[<< m, g[m - 1] >>] \in S
  <2>1. m \in 1 .. n /\ m - 1 \in 0 .. m - 1
    BY <1>2, <1>3
  <2> QED  BY <2>1, <1>5
<1>7. f \in [0 .. m -> S]
  <2>1. \A i \in 0 .. m : i # m => i \in 0 .. m - 1
    BY <1>2
  <2> QED  BY <2>1, <1>6
<1>8. f[0] = base
  <2>1. 0 \in 0 .. m /\ 0 # m
    BY <1>2, <1>3
  <2> QED  BY <2>1, <1>5 DEF Recurs
<1>9. ASSUME NEW i \in 1 .. m PROVE f[i] = step[<< i, f[i - 1] >>]
  <2>1. i \in 0 .. m /\ i - 1 \in 0 .. m /\ i - 1 # m /\ i \in Int /\ i - 1 \in Int
    BY <1>2, <1>9
  <2>2. f[i - 1] = g[i - 1]
    BY <2>1
  <2>3. CASE i = m
    BY <2>1, <2>2, <2>3
  <2>4. CASE i # m
    <3>1. i \in 1 .. m - 1
      BY <1>2, <2>4
    <3>2. f[i] = g[i] /\ g[i] = step[<< i, g[i - 1] >>]
      BY <2>1, <2>4, <3>1, <1>5 DEF Recurs
    <3> QED  BY <2>2, <3>2
  <2> QED  BY <2>3, <2>4
<1>10. Recurs(f, base, step, m)
  <2> HIDE DEF f
  <2> QED  BY <1>8, <1>9 DEF Recurs
<1> QED  BY <1>2, <1>7, <1>10

\* Something that holds of 0 and is passed on from each number to the next one
\* below n holds of all of them up to n; T is the set of which it holds.
LEMMA UpTo ==
  ASSUME NEW n \in Nat, NEW T, 0 \in T, \A i \in 1 .. n : i - 1 \in T => i \in T
  PROVE  0 .. n \subseteq T
<1> DEFINE Bad == (0 .. n) \ T
<1> SUFFICES ASSUME Bad # {} PROVE FALSE
  OBVIOUS
<1>1. PICK m \in Bad : \A k \in Bad : m <= k
  <2>1. Bad \subseteq Nat
    OBVIOUS
  <2> HIDE DEF Bad
  <2> QED  BY <2>1, LeastMember
<1>2. m \in 1 .. n /\ m - 1 \in 0 .. n
  BY <1>1
<1>3. m - 1 \in T
  BY <1>1, <1>2
<1> QED  BY <1>1, <1>2, <1>3

-----------------------------------------------------------------------------
(* Spellings in the order of their letters, filled up with zeros.               *)
Spellings == Seq(1 .. 255)
Places == Nat \ {0}
Less(e, g) == \E i \in Places : Letter(e, i) < Letter(g, i) /\ \A j \in 1 .. i - 1 : Letter(e, j) = Letter(g, j)

LEMMA LetterIs ==
  ASSUME NEW g \in Spellings, NEW i \in Places
  PROVE  /\ Letter(g, i) \in Nat /\ Letter(g, i) <= 255
         /\ (Letter(g, i) = 0 <=> i > Len(g)) /\ (i <= Len(g) => Letter(g, i) = g[i])
<1>1. Len(g) \in Nat /\ i \in Nat /\ i >= 1
  BY DEF Spellings, Places
<1>2. CASE i <= Len(g)
  <2>1. i \in 1 .. Len(g)
    BY <1>1, <1>2
  <2>2. g[i] \in 1 .. 255
    BY <2>1, ElementOfSeq DEF Spellings
  <2>3. g[i] \in Nat /\ g[i] # 0 /\ g[i] <= 255
    BY <2>2
  <2>4. Letter(g, i) = g[i]
    BY <1>2 DEF Letter
  <2> QED  BY <1>1, <1>2, <2>3, <2>4
<1>3. CASE ~(i <= Len(g))
  <2>1. Letter(g, i) = 0
    BY <1>3 DEF Letter
  <2> QED  BY <1>1, <1>3, <2>1
<1> QED  BY <1>2, <1>3

LEMMA LettersSame ==
  ASSUME NEW e \in Spellings, NEW g \in Spellings, \A i \in Places : Letter(e, i) = Letter(g, i)
  PROVE  e = g
<1>1. Len(e) \in Nat /\ Len(g) \in Nat
  BY DEF Spellings
<1>2. ~(Len(e) < Len(g))
  <2> SUFFICES ASSUME Len(e) < Len(g) PROVE FALSE
    OBVIOUS
  <2>1. Len(g) \in Places /\ Len(g) > Len(e)
    BY <1>1 DEF Places
  <2>2. Letter(e, Len(g)) = 0 /\ Letter(g, Len(g)) # 0
    BY <1>1, <2>1, LetterIs
  <2> QED  BY <2>1, <2>2
<1>3. ~(Len(g) < Len(e))
  <2> SUFFICES ASSUME Len(g) < Len(e) PROVE FALSE
    OBVIOUS
  <2>1. Len(e) \in Places /\ Len(e) > Len(g)
    BY <1>1 DEF Places
  <2>2. Letter(g, Len(e)) = 0 /\ Letter(e, Len(e)) # 0
    BY <1>1, <2>1, LetterIs
  <2> QED  BY <2>1, <2>2
<1>4. Len(e) = Len(g)
  BY <1>1, <1>2, <1>3
<1>5. \A i \in 1 .. Len(e) : e[i] = g[i]
  <2> SUFFICES ASSUME NEW i \in 1 .. Len(e) PROVE e[i] = g[i]
    OBVIOUS
  <2>1. i \in Places /\ i <= Len(e) /\ i <= Len(g)
    BY <1>1, <1>4 DEF Places
  <2> QED  BY <2>1, LetterIs
<1> QED  BY <1>4, <1>5, SeqEqual DEF Spellings

LEMMA LessTotal ==
  ASSUME NEW e \in Spellings, NEW g \in Spellings, e # g
  PROVE  Less(e, g) \/ Less(g, e)
<1> DEFINE Differ == {i \in Places : Letter(e, i) # Letter(g, i)}
<1>1. Differ # {}
  BY LettersSame
<1>2. PICK i \in Differ : \A k \in Differ : i <= k
  <2>1. Differ \subseteq Nat
    BY DEF Places
  <2> HIDE DEF Differ
  <2> QED  BY <1>1, <2>1, LeastMember
<1>3. i \in Places /\ Letter(e, i) # Letter(g, i)
  BY <1>2
<1>4. \A j \in 1 .. i - 1 : Letter(e, j) = Letter(g, j)
  <2> SUFFICES ASSUME NEW j \in 1 .. i - 1 PROVE Letter(e, j) = Letter(g, j)
    OBVIOUS
  <2>1. j \in Places /\ ~(i <= j)
    BY <1>3 DEF Places
  <2> QED  BY <2>1, <1>2
<1>5. Letter(e, i) \in Int /\ Letter(g, i) \in Int
  BY <1>3, LetterIs
<1>6. CASE Letter(e, i) < Letter(g, i)
  BY <1>3, <1>4, <1>6 DEF Less
<1>7. CASE Letter(g, i) < Letter(e, i)
  BY <1>3, <1>4, <1>7 DEF Less
<1> QED  BY <1>3, <1>5, <1>6, <1>7

LEMMA LessTransitive ==
  ASSUME NEW a \in Spellings, NEW b \in Spellings, NEW c \in Spellings, Less(a, b), Less(b, c)
  PROVE  Less(a, c)
<1>1. PICK i \in Places : Letter(a, i) < Letter(b, i) /\ \A j \in 1 .. i - 1 : Letter(a, j) = Letter(b, j)
  BY DEF Less
<1>2. PICK k \in Places : Letter(b, k) < Letter(c, k) /\ \A j \in 1 .. k - 1 : Letter(b, j) = Letter(c, j)
  BY DEF Less
<1>3. /\ Letter(a, i) \in Int /\ Letter(b, i) \in Int /\ Letter(c, i) \in Int
      /\ Letter(a, k) \in Int /\ Letter(b, k) \in Int /\ Letter(c, k) \in Int
  BY LetterIs
<1>4. CASE i <= k
  <2>1. Letter(a, i) < Letter(c, i)
    <3>1. CASE i = k
      BY <3>1, <1>1, <1>2, <1>3
    <3>2. CASE i # k
      <4>1. i \in 1 .. k - 1
        BY <1>4, <3>2 DEF Places
      <4> QED  BY <4>1, <1>1, <1>2
    <3> QED  BY <3>1, <3>2
  <2>2. \A j \in 1 .. i - 1 : Letter(a, j) = Letter(c, j)
    <3> SUFFICES ASSUME NEW j \in 1 .. i - 1 PROVE Letter(a, j) = Letter(c, j)
      OBVIOUS
    <3>1. j \in 1 .. k - 1
      BY <1>4 DEF Places
    <3> QED  BY <3>1, <1>1, <1>2
  <2> QED  BY <2>1, <2>2 DEF Less
<1>5. CASE k < i
  <2>1. Letter(a, k) < Letter(c, k)
    <3>1. k \in 1 .. i - 1
      BY <1>5 DEF Places
    <3> QED  BY <3>1, <1>1, <1>2
  <2>2. \A j \in 1 .. k - 1 : Letter(a, j) = Letter(c, j)
    <3> SUFFICES ASSUME NEW j \in 1 .. k - 1 PROVE Letter(a, j) = Letter(c, j)
      OBVIOUS
    <3>1. j \in 1 .. i - 1
      BY <1>5 DEF Places
    <3> QED  BY <3>1, <1>1, <1>2
  <2> QED  BY <2>1, <2>2 DEF Less
<1> QED  BY <1>4, <1>5 DEF Places

LEMMA LessIrreflexive ==
  ASSUME NEW a \in Spellings
  PROVE  ~Less(a, a)
<1> SUFFICES ASSUME Less(a, a) PROVE FALSE
  OBVIOUS
<1>1. PICK i \in Places : Letter(a, i) < Letter(a, i)
  BY DEF Less
<1>2. Letter(a, i) \in Int
  BY LetterIs
<1> QED  BY <1>1, <1>2

\* What a comparison of a word in the lexicon with another one tells.
LEMMA MatchIs ==
  ASSUME NEW entry, entry.graph \in Spellings, NEW g \in Spellings
  PROVE  \/ LexMatch(entry, g) = -1 /\ Less(entry.graph, g)
         \/ LexMatch(entry, g) = 0 /\ entry.graph = g
         \/ LexMatch(entry, g) = 1 /\ Less(g, entry.graph)
<1> DEFINE e == entry.graph
           common == {i \in DOMAIN e \intersect DOMAIN g : e[i] # g[i]}
           least == CHOOSE i \in common : \A j \in common : i <= j
<1>1. e \in Spellings /\ Len(e) \in Nat /\ Len(g) \in Nat /\ DOMAIN e = 1 .. Len(e) /\ DOMAIN g = 1 .. Len(g)
  BY DEF Spellings
<1>2. LexMatch(entry, g) =
        IF common # {} THEN IF e[least] < g[least] THEN -1 ELSE 1
        ELSE IF Len(e) = Len(g) THEN 0 ELSE IF Len(e) < Len(g) THEN -1 ELSE 1
  BY DEF LexMatch
<1> HIDE DEF e
<1>3. CASE common # {}
  <2>1. least \in common /\ \A j \in common : least <= j
    <3>1. common \subseteq Nat
      BY <1>1
    <3> HIDE DEF common
    <3>2. \E i \in common : \A j \in common : i <= j
      BY <1>3, <3>1, LeastMember
    <3> QED  BY <3>2
  <2> HIDE DEF least
  <2>2. least \in 1 .. Len(e) /\ least \in 1 .. Len(g) /\ e[least] # g[least]
    BY <1>1, <2>1
  <2>3. least \in Places /\ Letter(e, least) = e[least] /\ Letter(g, least) = g[least]
        /\ e[least] \in Int /\ g[least] \in Int
    <3>1. least \in Places /\ least <= Len(e) /\ least <= Len(g)
      BY <1>1, <2>2 DEF Places
    <3> QED  BY <1>1, <3>1, LetterIs
  <2>4. \A j \in 1 .. least - 1 : Letter(e, j) = Letter(g, j)
    <3> SUFFICES ASSUME NEW j \in 1 .. least - 1 PROVE Letter(e, j) = Letter(g, j)
      OBVIOUS
    <3>1. j \in 1 .. Len(e) /\ j \in 1 .. Len(g) /\ ~(least <= j) /\ j <= Len(e) /\ j <= Len(g)
      BY <1>1, <2>2
    <3>2. e[j] = g[j]
      BY <1>1, <2>1, <3>1
    <3> QED  BY <3>1, <3>2 DEF Letter
  <2>5. CASE e[least] < g[least]
    <3>1. Less(e, g)
      BY <2>3, <2>4, <2>5 DEF Less
    <3> QED  BY <1>2, <1>3, <2>5, <3>1 DEF e
  <2>6. CASE ~(e[least] < g[least])
    <3>1. g[least] < e[least]
      BY <2>2, <2>3, <2>6
    <3>2. Less(g, e)
      BY <2>3, <2>4, <3>1 DEF Less
    <3> QED  BY <1>2, <1>3, <2>6, <3>2 DEF e
  <2> QED  BY <2>5, <2>6
<1>4. CASE common = {}
  <2>1. \A j \in 1 .. Len(e) : j <= Len(g) => e[j] = g[j]
    BY <1>1, <1>4
  <2>2. CASE Len(e) = Len(g)
    <3>1. e = g
      BY <1>1, <2>1, <2>2, SeqEqual DEF Spellings
    <3> QED  BY <1>2, <1>4, <2>2, <3>1 DEF e
  <2>3. ASSUME NEW a \in Spellings, NEW b \in Spellings, Len(a) < Len(b), \A j \in 1 .. Len(a) : a[j] = b[j]
        PROVE  Less(a, b)
    <3>0. Len(a) \in Nat /\ Len(b) \in Nat
      BY DEF Spellings
    <3>1. Len(a) + 1 \in Places /\ Len(a) + 1 > Len(a) /\ ~(Len(a) + 1 > Len(b))
      BY <3>0, <2>3 DEF Places
    <3>2. Letter(a, Len(a) + 1) = 0 /\ Letter(b, Len(a) + 1) # 0
      BY <3>1, LetterIs
    <3>3. Letter(a, Len(a) + 1) < Letter(b, Len(a) + 1)
      BY <3>1, <3>2, LetterIs
    <3>4. \A j \in 1 .. (Len(a) + 1) - 1 : Letter(a, j) = Letter(b, j)
      <4> SUFFICES ASSUME NEW j \in 1 .. (Len(a) + 1) - 1 PROVE Letter(a, j) = Letter(b, j)
        OBVIOUS
      <4>1. j \in 1 .. Len(a) /\ j <= Len(a) /\ j <= Len(b)
        BY <3>0, <2>3
      <4> QED  BY <4>1, <2>3 DEF Letter
    <3> QED  BY <3>1, <3>3, <3>4 DEF Less
  <2>4. CASE Len(e) < Len(g)
    <3>1. \A j \in 1 .. Len(e) : e[j] = g[j]
      BY <1>1, <2>1, <2>4
    <3>2. Less(e, g)
      BY <1>1, <2>3, <2>4, <3>1
    <3> QED  BY <1>1, <1>2, <1>4, <2>4, <3>2 DEF e
  <2>5. CASE Len(g) < Len(e)
    <3>1. \A j \in 1 .. Len(g) : g[j] = e[j]
      BY <1>1, <2>1, <2>5
    <3>2. Less(g, e)
      BY <1>1, <2>3, <2>5, <3>1
    <3> QED  BY <1>1, <1>2, <1>4, <2>5, <3>2 DEF e
  <2>6. Len(e) \in Nat /\ Len(g) \in Nat
    BY <1>1
  <2>7. \A m, n \in Nat : m = n \/ m < n \/ n < m
    OBVIOUS
  <2> QED  BY <2>2, <2>4, <2>5, <2>6, <2>7, Zenon
<1> QED  BY <1>3, <1>4

-----------------------------------------------------------------------------
(* The numbers of prefixes have the order of the words.                     *)
Numbers(f, g) ==
  /\ f \in [0 .. NumGraphs -> Nat] /\ f[0] = 0
  /\ \A i \in 1 .. NumGraphs : f[i] = f[i - 1] * 256 + Letter(g, i)

LEMMA GraphValIs ==
  ASSUME NEW g \in Spellings
  PROVE  \E f : Numbers(f, g) /\ GraphVal(g) = f[NumGraphs]
<1> DEFINE step == [p \in (1 .. NumGraphs) \X Nat |-> p[2] * 256 + Letter(g, p[1])]
           IsVal(f) == f = [i \in 0 .. NumGraphs |-> IF i = 0 THEN 0 ELSE f[i - 1] * 256 + Letter(g, i)]
           val == CHOOSE f : IsVal(f)
<1>1. NumGraphs \in Nat /\ 0 \in 0 .. NumGraphs /\ NumGraphs \in 0 .. NumGraphs
  BY LexiconAssumption
<1>2. \A i \in 1 .. NumGraphs : Letter(g, i) \in Nat
  <2> SUFFICES ASSUME NEW i \in 1 .. NumGraphs PROVE Letter(g, i) \in Nat
    OBVIOUS
  <2>1. i \in Places
    BY DEF Places
  <2> QED  BY <2>1, LetterIs
<1>3. step \in [(1 .. NumGraphs) \X Nat -> Nat]
  <2> SUFFICES ASSUME NEW p \in (1 .. NumGraphs) \X Nat PROVE p[2] * 256 + Letter(g, p[1]) \in Nat
    OBVIOUS
  <2>1. p[1] \in 1 .. NumGraphs /\ p[2] \in Nat
    OBVIOUS
  <2>2. Letter(g, p[1]) \in Nat
    BY <1>2, <2>1
  <2> QED  BY <2>1, <2>2
<1>4. PICK f \in [0 .. NumGraphs -> Nat] : Recurs(f, 0, step, NumGraphs)
  <2> HIDE DEF step
  <2>1. \E f \in [0 .. NumGraphs -> Nat] : Recurs(f, 0, step, NumGraphs)
    BY <1>1, <1>3, RecursionExists
  <2> QED  BY <2>1
<1>5. \A i \in 1 .. NumGraphs : f[i] = f[i - 1] * 256 + Letter(g, i)
  <2> SUFFICES ASSUME NEW i \in 1 .. NumGraphs PROVE f[i] = f[i - 1] * 256 + Letter(g, i)
    OBVIOUS
  <2>1. i - 1 \in 0 .. NumGraphs
    BY <1>1
  <2>2. f[i - 1] \in Nat
    BY <1>4, <2>1
  <2>3. step[<< i, f[i - 1] >>] = f[i - 1] * 256 + Letter(g, i)
    BY <2>2
  <2>4. f[i] = step[<< i, f[i - 1] >>]
    BY <1>4 DEF Recurs
  <2> QED  BY <2>3, <2>4
<1> HIDE DEF step
<1>6. IsVal(f)
  <2>1. f[0] = 0
    BY <1>4 DEF Recurs
  <2>2. \A i \in 0 .. NumGraphs : i # 0 => i \in 1 .. NumGraphs
    OBVIOUS
  <2>3. \A i \in 0 .. NumGraphs : f[i] = IF i = 0 THEN 0 ELSE f[i - 1] * 256 + Letter(g, i)
    BY <1>5, <2>1, <2>2, Zenon
  <2> QED  BY <1>4, <2>3, Zenon
<1>7. IsVal(val)
  <2> HIDE DEF IsVal
  <2>1. \E h : IsVal(h)
    BY <1>6
  <2> QED  BY <2>1
<1>8. GraphVal(g) = val[NumGraphs]
  BY DEF GraphVal
<1> HIDE DEF val
<1>9. \A i \in 0 .. NumGraphs : val[i] = IF i = 0 THEN 0 ELSE val[i - 1] * 256 + Letter(g, i)
  BY <1>7, Zenon
<1>10. \A i \in 0 .. NumGraphs : val[i] \in Nat
  <2> DEFINE T == {i \in 0 .. NumGraphs : val[i] \in Nat}
  <2>1. 0 \in T
    BY <1>1, <1>9
  <2>2. ASSUME NEW i \in 1 .. NumGraphs, i - 1 \in T PROVE i \in T
    <3>1. i \in 0 .. NumGraphs /\ i # 0
      BY <1>1
    <3>2. val[i] = val[i - 1] * 256 + Letter(g, i)
      BY <1>9, <3>1
    <3> QED  BY <1>2, <2>2, <3>1, <3>2
  <2>3. 0 .. NumGraphs \subseteq T
    <3> HIDE DEF T
    <3> QED  BY <1>1, <2>1, <2>2, UpTo
  <2> QED  BY <2>3
<1>11. Numbers(val, g)
  <2>1. val \in [0 .. NumGraphs -> Nat]
    BY <1>7, <1>10
  <2>2. \A i \in 1 .. NumGraphs : i \in 0 .. NumGraphs /\ i # 0
    BY <1>1
  <2> QED  BY <1>1, <1>9, <2>1, <2>2 DEF Numbers
<1> QED  BY <1>8, <1>11

LEMMA GraphValNat == ASSUME NEW g \in Spellings PROVE GraphVal(g) \in Nat
<1>1. PICK f : Numbers(f, g) /\ GraphVal(g) = f[NumGraphs]
  BY GraphValIs
<1>2. NumGraphs \in 0 .. NumGraphs
  BY LexiconAssumption
<1> QED  BY <1>1, <1>2 DEF Numbers

LEMMA ValMonotone ==
  ASSUME NEW a \in Spellings, NEW b \in Spellings, Less(a, b)
  PROVE  GraphVal(a) <= GraphVal(b)
<1>1. PICK i \in Places : Letter(a, i) < Letter(b, i) /\ \A j \in 1 .. i - 1 : Letter(a, j) = Letter(b, j)
  BY DEF Less
<1>2. PICK f : Numbers(f, a) /\ GraphVal(a) = f[NumGraphs]
  BY GraphValIs
<1>3. PICK h : Numbers(h, b) /\ GraphVal(b) = h[NumGraphs]
  BY GraphValIs
<1>4. NumGraphs \in Nat /\ NumGraphs \in 0 .. NumGraphs /\ 0 \in 0 .. NumGraphs
  BY LexiconAssumption
<1> DEFINE T == {k \in 0 .. NumGraphs : (k < i => f[k] = h[k]) /\ (k >= i => f[k] < h[k])}
<1>5. 0 \in T
  BY <1>2, <1>3, <1>4 DEF Numbers, Places
<1>6. ASSUME NEW k \in 1 .. NumGraphs, k - 1 \in T PROVE k \in T
  <2>1. k \in 0 .. NumGraphs /\ k - 1 \in 0 .. NumGraphs /\ k \in Places /\ k \in Nat
    BY <1>4 DEF Places
  <2>2. f[k] = f[k - 1] * 256 + Letter(a, k) /\ h[k] = h[k - 1] * 256 + Letter(b, k)
    BY <1>2, <1>3 DEF Numbers
  <2>3. f[k] \in Nat /\ h[k] \in Nat /\ f[k - 1] \in Nat /\ h[k - 1] \in Nat
    BY <1>2, <1>3, <2>1 DEF Numbers
  <2>4. /\ Letter(a, k) \in Nat /\ Letter(b, k) \in Nat
        /\ Letter(a, k) <= 255 /\ Letter(b, k) <= 255
    BY <2>1, LetterIs
  <2>5. i \in Nat
    BY DEF Places
  <2>6. CASE k < i
    <3>1. k \in 1 .. i - 1 /\ k - 1 < i
      BY <2>1, <2>5, <2>6
    <3>2. Letter(a, k) = Letter(b, k) /\ f[k - 1] = h[k - 1]
      BY <1>1, <1>6, <3>1
    <3> QED  BY <2>1, <2>2, <2>5, <2>6, <3>2
  <2>7. CASE k = i
    <3>1. k - 1 < i
      BY <2>1, <2>5, <2>7
    <3>2. f[k - 1] = h[k - 1] /\ Letter(a, k) < Letter(b, k)
      BY <1>1, <1>6, <2>7, <3>1
    <3>3. f[k] < h[k]
      BY <2>2, <2>3, <2>4, <3>2
    <3> QED  BY <2>1, <2>5, <2>7, <3>3
  <2>8. CASE k > i
    <3>1. k - 1 >= i
      BY <2>1, <2>5, <2>8
    <3>2. f[k - 1] < h[k - 1]
      BY <1>6, <3>1
    <3>3. f[k - 1] + 1 <= h[k - 1]
      BY <2>3, <3>2
    <3>4. f[k] < h[k]
      BY <2>2, <2>3, <2>4, <3>3
    <3> QED  BY <2>1, <2>5, <2>8, <3>4
  <2> QED  BY <2>1, <2>5, <2>6, <2>7, <2>8
<1>7. NumGraphs \in T
  <2>1. 0 .. NumGraphs \subseteq T
    <3> HIDE DEF T
    <3> QED  BY <1>4, <1>5, <1>6, UpTo
  <2> QED  BY <1>4, <2>1
<1>8. f[NumGraphs] \in Nat /\ h[NumGraphs] \in Nat
  BY <1>2, <1>3, <1>4 DEF Numbers
<1> QED  BY <1>2, <1>3, <1>7, <1>8 DEF Places

-----------------------------------------------------------------------------
(* Blocks put one behind the other.                                         *)
Joins(f, seqs, S) ==
  /\ f \in [0 .. Len(seqs) -> Seq(S)] /\ f[0] = << >>
  /\ \A i \in 1 .. Len(seqs) : f[i] = f[i - 1] \o seqs[i]

LEMMA FlattenIs ==
  ASSUME NEW S, NEW seqs \in Seq(Seq(S))
  PROVE  \E f : Joins(f, seqs, S) /\ FlattenSeq(seqs) = f[Len(seqs)]
<1> DEFINE n == Len(seqs)
           step == [p \in (1 .. n) \X Seq(S) |-> p[2] \o seqs[p[1]]]
           IsFlat(f) == f = [i \in 1 .. Len(seqs) |-> IF i = 1 THEN seqs[i] ELSE f[i - 1] \o seqs[i]]
           flatten == CHOOSE f : IsFlat(f)
<1>1. n \in Nat /\ 0 \in 0 .. n /\ n \in 0 .. n
  OBVIOUS
<1>2. \A i \in 1 .. n : seqs[i] \in Seq(S)
  BY ElementOfSeq
<1> HIDE DEF n
<1>3. step \in [(1 .. n) \X Seq(S) -> Seq(S)]
  <2> SUFFICES ASSUME NEW p \in (1 .. n) \X Seq(S) PROVE p[2] \o seqs[p[1]] \in Seq(S)
    OBVIOUS
  <2>1. p[1] \in 1 .. n /\ p[2] \in Seq(S)
    OBVIOUS
  <2>2. seqs[p[1]] \in Seq(S)
    BY <1>2, <2>1
  <2> QED  BY <2>1, <2>2, ConcatProperties
<1>4. PICK f \in [0 .. n -> Seq(S)] : Recurs(f, << >>, step, n)
  <2> HIDE DEF step
  <2>1. << >> \in Seq(S)
    OBVIOUS
  <2>2. \E f \in [0 .. n -> Seq(S)] : Recurs(f, << >>, step, n)
    BY <1>1, <1>3, <2>1, RecursionExists
  <2> QED  BY <2>2
<1>5. \A i \in 1 .. n : f[i] = f[i - 1] \o seqs[i]
  <2> SUFFICES ASSUME NEW i \in 1 .. n PROVE f[i] = f[i - 1] \o seqs[i]
    OBVIOUS
  <2>1. i - 1 \in 0 .. n
    BY <1>1
  <2>2. f[i - 1] \in Seq(S)
    BY <1>4, <2>1
  <2>3. step[<< i, f[i - 1] >>] = f[i - 1] \o seqs[i]
    BY <2>2
  <2>4. f[i] = step[<< i, f[i - 1] >>]
    BY <1>4 DEF Recurs
  <2> QED  BY <2>3, <2>4
<1> HIDE DEF step
<1>6. f[0] = << >>
  BY <1>4 DEF Recurs
<1>7. Joins(f, seqs, S)
  BY <1>4, <1>5, <1>6 DEF Joins, n
<1>8. CASE n = 0
  <2>1. seqs = << >>
    BY <1>8 DEF n
  <2>2. FlattenSeq(seqs) = << >>
    BY <1>8, <2>1 DEF FlattenSeq, n
  <2> QED  BY <1>6, <1>7, <1>8, <2>2 DEF n
<1>9. CASE n # 0
  <2> DEFINE g == [i \in 1 .. n |-> f[i]]
  <2>1. ASSUME NEW i \in 1 .. n PROVE g[i] = IF i = 1 THEN seqs[i] ELSE g[i - 1] \o seqs[i]
    <3>1. CASE i = 1
      <4>1. f[1] = << >> \o seqs[1]
        <5>1. 1 - 1 = 0
          OBVIOUS
        <5>2. f[1] = f[1 - 1] \o seqs[1]
          BY <1>5, <3>1
        <5> QED  BY <1>6, <5>1, <5>2
      <4>2. seqs[1] \in Seq(S) /\ 1 \in 1 .. n
        BY <1>1, <1>2, <1>9
      <4>3. << >> \o seqs[1] = seqs[1]
        BY <4>2
      <4> QED  BY <3>1, <4>1, <4>2, <4>3
    <3>2. CASE i # 1
      <4>1. i - 1 \in 1 .. n
        BY <1>1, <3>2
      <4> QED  BY <1>5, <3>2, <4>1
    <3> QED  BY <3>1, <3>2
  <2>2. IsFlat(g)
    <3>1. g = [i \in 1 .. n |-> g[i]]
      OBVIOUS
    <3> HIDE DEF g
    <3>2. g = [i \in 1 .. n |-> IF i = 1 THEN seqs[i] ELSE g[i - 1] \o seqs[i]]
      BY <2>1, <3>1, Zenon
    <3> QED  BY <3>2 DEF n
  <2>3. IsFlat(flatten)
    BY <2>2
  <2> HIDE DEF g
  <2>4. FlattenSeq(seqs) = flatten[n]
    BY <1>9 DEF FlattenSeq, n
  <2> HIDE DEF flatten
  <2>5. \A i \in 1 .. n : flatten[i] = IF i = 1 THEN seqs[i] ELSE flatten[i - 1] \o seqs[i]
    <3>1. flatten = [i \in 1 .. n |-> IF i = 1 THEN seqs[i] ELSE flatten[i - 1] \o seqs[i]]
      BY <2>3 DEF n
    <3> QED  BY <3>1, Zenon
  <2> DEFINE T == {i \in 0 .. n : i # 0 => flatten[i] = f[i]}
  <2>6. 0 \in T
    BY <1>1
  <2>7. ASSUME NEW i \in 1 .. n, i - 1 \in T PROVE i \in T
    <3>1. i \in 0 .. n /\ 1 \in 1 .. n
      BY <1>1
    <3>2. CASE i = 1
      <4>1. seqs[1] \in Seq(S)
        BY <1>2, <3>1
      <4>2. f[1] = << >> \o seqs[1]
        <5>1. 1 - 1 = 0
          OBVIOUS
        <5>2. f[1] = f[1 - 1] \o seqs[1]
          BY <1>5, <3>2
        <5> QED  BY <1>6, <5>1, <5>2
      <4>3. flatten[1] = seqs[1]
        BY <2>5, <3>1
      <4>4. << >> \o seqs[1] = seqs[1]
        BY <4>1
      <4> QED  BY <3>1, <3>2, <4>2, <4>3, <4>4
    <3>3. CASE i # 1
      <4>1. flatten[i] = flatten[i - 1] \o seqs[i]
        BY <2>5, <3>3
      <4>2. i - 1 # 0
        BY <1>1, <3>3
      <4>3. flatten[i - 1] = f[i - 1]
        BY <2>7, <4>2
      <4> QED  BY <1>5, <3>1, <4>1, <4>3
    <3> QED  BY <3>2, <3>3
  <2>8. n \in T
    <3>1. 0 .. n \subseteq T
      <4> HIDE DEF T
      <4> QED  BY <1>1, <2>6, <2>7, UpTo
    <3> QED  BY <1>1, <3>1
  <2> QED  BY <1>7, <1>9, <2>4, <2>8 DEF n
<1> QED  BY <1>8, <1>9

LEMMA FlattenNext ==
  ASSUME NEW S, NEW seqs \in Seq(Seq(S)), NEW s \in Seq(S)
  PROVE  FlattenSeq(seqs) \in Seq(S) /\ FlattenSeq(Append(seqs, s)) = FlattenSeq(seqs) \o s
<1> DEFINE n == Len(seqs)
           more == Append(seqs, s)
<1>1. more \in Seq(Seq(S)) /\ Len(more) = n + 1 /\ more[n + 1] = s /\ n \in Nat
      /\ \A i \in 1 .. n : more[i] = seqs[i]
  BY AppendProperties
<1>2. PICK f : Joins(f, seqs, S) /\ FlattenSeq(seqs) = f[n]
  BY FlattenIs
<1> HIDE DEF more
<1>3. PICK g : Joins(g, more, S) /\ FlattenSeq(more) = g[n + 1]
  BY <1>1, FlattenIs
<1> HIDE DEF n
<1>4. /\ f[0] = << >> /\ \A i \in 1 .. n : f[i] = f[i - 1] \o seqs[i]
  BY <1>2 DEF Joins, n
<1>5. /\ g[0] = << >> /\ \A i \in 1 .. n + 1 : g[i] = g[i - 1] \o more[i]
  BY <1>1, <1>3 DEF Joins
<1> DEFINE T == {i \in 0 .. n : f[i] = g[i]}
<1>6. 0 \in T
  BY <1>1, <1>4, <1>5
<1>7. ASSUME NEW i \in 1 .. n, i - 1 \in T PROVE i \in T
  <2>1. i \in 1 .. n + 1 /\ i \in 0 .. n
    BY <1>1
  <2>2. g[i] = g[i - 1] \o more[i] /\ f[i] = f[i - 1] \o seqs[i] /\ more[i] = seqs[i]
    BY <1>1, <1>4, <1>5, <2>1
  <2> QED  BY <1>7, <2>1, <2>2
<1>8. n \in 0 .. n /\ n + 1 \in 1 .. n + 1 /\ (n + 1) - 1 = n
  BY <1>1
<1>9. f[n] = g[n]
  <2>1. 0 .. n \subseteq T
    <3> HIDE DEF T
    <3> QED  BY <1>1, <1>6, <1>7, UpTo
  <2> QED  BY <1>8, <2>1
<1>10. g[n + 1] = g[n] \o s
  BY <1>1, <1>5, <1>8
<1>11. f[n] \in Seq(S)
  BY <1>2, <1>8 DEF Joins, n
<1> QED  BY <1>2, <1>3, <1>9, <1>10, <1>11 DEF more

-----------------------------------------------------------------------------
(* Where the entries of a lexicon are.                                      *)
Located == [entry : LexEntry, ind : Nat]
Laid(lex) == lex.blocks \in Seq(Seq(LexEntry))
BlockAt(lex, b) ==      \* the entries of block b, from 0
  [k \in DOMAIN lex.blocks[b + 1] |-> [entry |-> lex.blocks[b + 1][k], ind |-> b * BlockSize + k - 1]]
BlockSeqs(lex, nr, count) ==
  [b \in 1 .. count |->
    [k \in DOMAIN lex.blocks[nr + b] |->
       [entry |-> lex.blocks[nr + b][k], ind |-> (nr + b - 1) * BlockSize + k - 1]]]

LEMMA BlockIs ==
  ASSUME NEW lex, Laid(lex), NEW b \in 0 .. NrBlocks(lex) - 1
  PROVE  /\ NrBlocks(lex) \in Nat /\ lex.blocks[b + 1] \in Seq(LexEntry)
         /\ BlockAt(lex, b) \in Seq(Located) /\ Len(BlockAt(lex, b)) = Len(lex.blocks[b + 1])
         /\ \A k \in 1 .. Len(lex.blocks[b + 1]) :
              BlockAt(lex, b)[k] = [entry |-> lex.blocks[b + 1][k], ind |-> b * BlockSize + k - 1]
<1>1. NrBlocks(lex) \in Nat /\ b + 1 \in 1 .. Len(lex.blocks)
  BY DEF NrBlocks, Laid
<1> DEFINE s == lex.blocks[b + 1]
<1>2. s \in Seq(LexEntry)
  BY <1>1, ElementOfSeq DEF Laid
<1>3. BlockAt(lex, b) = [k \in DOMAIN s |-> [entry |-> s[k], ind |-> b * BlockSize + k - 1]]
  BY DEF BlockAt
<1> HIDE DEF s
<1>4. DOMAIN s = 1 .. Len(s) /\ Len(s) \in Nat
  BY <1>2
<1>5. b * BlockSize \in Nat
  BY LexiconAssumption
<1>6. \A k \in 1 .. Len(s) : [entry |-> s[k], ind |-> b * BlockSize + k - 1] \in Located
  <2> SUFFICES ASSUME NEW k \in 1 .. Len(s) PROVE [entry |-> s[k], ind |-> b * BlockSize + k - 1] \in Located
    OBVIOUS
  <2>1. s[k] \in LexEntry
    BY <1>2, ElementOfSeq
  <2> DEFINE m == b * BlockSize
  <2>2. m \in Nat /\ m + k - 1 \in Nat
    <3> HIDE DEF m
    <3> QED  BY <1>4, <1>5 DEF m
  <2> QED  BY <2>1, <2>2 DEF Located
<1>7. BlockAt(lex, b) \in [1 .. Len(s) -> Located]
  BY <1>3, <1>4, <1>6
<1>8. BlockAt(lex, b) \in Seq(Located) /\ Len(BlockAt(lex, b)) = Len(s)
  <2> DEFINE t == BlockAt(lex, b)
  <2> HIDE DEF t
  <2> QED  BY <1>4, <1>7 DEF t
<1>9. \A k \in 1 .. Len(s) : BlockAt(lex, b)[k] = [entry |-> s[k], ind |-> b * BlockSize + k - 1]
  BY <1>3, <1>4
<1> QED  BY <1>1, <1>2, <1>8, <1>9 DEF s

LEMMA BlockSeqsAre ==
  ASSUME NEW lex, Laid(lex), NEW nr \in Nat, NEW count \in Nat, nr + count <= NrBlocks(lex)
  PROVE  BlockSeqs(lex, nr, count) = [b \in 1 .. count |-> BlockAt(lex, nr + b - 1)]
<1>1. \A b \in 1 .. count : (nr + b - 1) + 1 = nr + b
  OBVIOUS
<1>2. \A b \in 1 .. count :
        BlockAt(lex, nr + b - 1) = [k \in DOMAIN lex.blocks[nr + b] |->
           [entry |-> lex.blocks[nr + b][k], ind |-> (nr + b - 1) * BlockSize + k - 1]]
  BY <1>1, Zenon DEF BlockAt
<1> QED  BY <1>2, Zenon DEF BlockSeqs

LEMMA BlockSeqsType ==
  ASSUME NEW lex, Laid(lex), NEW nr \in Nat, NEW count \in Nat, nr + count <= NrBlocks(lex)
  PROVE  BlockSeqs(lex, nr, count) \in Seq(Seq(Located)) /\ Len(BlockSeqs(lex, nr, count)) = count
<1> DEFINE s == BlockSeqs(lex, nr, count)
<1>1. s = [b \in 1 .. count |-> BlockAt(lex, nr + b - 1)]
  BY BlockSeqsAre
<1>2. \A b \in 1 .. count : BlockAt(lex, nr + b - 1) \in Seq(Located)
  <2> SUFFICES ASSUME NEW b \in 1 .. count PROVE BlockAt(lex, nr + b - 1) \in Seq(Located)
    OBVIOUS
  <2>1. NrBlocks(lex) \in Nat
    BY DEF NrBlocks, Laid
  <2>2. nr + b - 1 \in 0 .. NrBlocks(lex) - 1
    BY <2>1
  <2> QED  BY <2>2, BlockIs
<1> HIDE DEF s
<1>3. s \in [1 .. count -> Seq(Located)]
  BY <1>1, <1>2
<1> QED  BY <1>3 DEF s

LEMMA EntriesNone == ASSUME NEW lex, NEW nr PROVE EntriesFrom(lex, nr, 0) = << >>
<1>1. EntriesFrom(lex, nr, 0) = FlattenSeq(BlockSeqs(lex, nr, 0))
  BY DEF EntriesFrom, BlockSeqs
<1>2. BlockSeqs(lex, nr, 0) = << >>
  <2>1. 1 .. 0 = {}
    OBVIOUS
  <2> DEFINE f == BlockSeqs(lex, nr, 0)
  <2>2. f \in [1 .. 0 -> {}]
    BY <2>1 DEF BlockSeqs
  <2> HIDE DEF f
  <2>3. f = << >>
    BY <2>2
  <2> QED  BY <2>3 DEF f
<1>3. << >> \in Seq(Seq({})) /\ Len(<< >>) = 0
  OBVIOUS
<1>4. FlattenSeq(<< >>) = << >>
  BY <1>3 DEF FlattenSeq
<1> QED  BY <1>1, <1>2, <1>4

LEMMA EntriesNext ==
  ASSUME NEW lex, Laid(lex), NEW nr \in Nat, NEW count \in Nat, nr + count < NrBlocks(lex)
  PROVE  /\ EntriesFrom(lex, nr, count) \in Seq(Located)
         /\ EntriesFrom(lex, nr, count + 1) = EntriesFrom(lex, nr, count) \o BlockAt(lex, nr + count)
<1>1. NrBlocks(lex) \in Nat
  BY DEF NrBlocks, Laid
<1> DEFINE s == BlockSeqs(lex, nr, count)
           t == BlockSeqs(lex, nr, count + 1)
           e == BlockAt(lex, nr + count)
<1> DEFINE more == count + 1
<1>0. more \in Nat /\ nr + count <= NrBlocks(lex) /\ nr + more <= NrBlocks(lex)
  BY <1>1
<1>2. /\ s \in Seq(Seq(Located)) /\ Len(s) = count /\ t \in Seq(Seq(Located)) /\ Len(t) = count + 1
  <2>1. s \in Seq(Seq(Located)) /\ Len(s) = count
    BY <1>0, BlockSeqsType
  <2> HIDE DEF more
  <2>2. BlockSeqs(lex, nr, more) \in Seq(Seq(Located)) /\ Len(BlockSeqs(lex, nr, more)) = more
    BY <1>0, BlockSeqsType
  <2> QED  BY <2>1, <2>2 DEF more
<1>3. e \in Seq(Located)
  BY <1>1, BlockIs
<1>4. s = [b \in 1 .. count |-> BlockAt(lex, nr + b - 1)] /\ t = [b \in 1 .. count + 1 |-> BlockAt(lex, nr + b - 1)]
  <2>1. s = [b \in 1 .. count |-> BlockAt(lex, nr + b - 1)]
    BY <1>0, BlockSeqsAre
  <2> HIDE DEF more
  <2>2. BlockSeqs(lex, nr, more) = [b \in 1 .. more |-> BlockAt(lex, nr + b - 1)]
    BY <1>0, BlockSeqsAre
  <2> QED  BY <2>1, <2>2 DEF more
<1>5. EntriesFrom(lex, nr, count) = FlattenSeq(s) /\ EntriesFrom(lex, nr, count + 1) = FlattenSeq(t)
  BY DEF EntriesFrom, BlockSeqs
<1> HIDE DEF s, t
<1>6. t = Append(s, e)
  <2>1. Append(s, e) \in Seq(Seq(Located)) /\ Len(Append(s, e)) = count + 1 /\ Append(s, e)[count + 1] = e
        /\ \A i \in 1 .. count : Append(s, e)[i] = s[i]
    BY <1>2, <1>3, AppendProperties
  <2>2. ASSUME NEW i \in 1 .. count + 1 PROVE t[i] = Append(s, e)[i]
    <3>1. CASE i = count + 1
      <4>1. nr + (count + 1) - 1 = nr + count
        OBVIOUS
      <4> QED  BY <3>1, <4>1, <1>4, <2>1
    <3>2. CASE i # count + 1
      <4>1. i \in 1 .. count
        BY <3>2
      <4> QED  BY <4>1, <1>4, <2>1
    <3> QED  BY <3>1, <3>2
  <2> DEFINE a == Append(s, e)
  <2> HIDE DEF a
  <2>3. t = a
    BY <1>2, <2>1, <2>2, SeqEqual DEF a
  <2> QED  BY <2>3 DEF a
<1> HIDE DEF e
<1>7. FlattenSeq(s) \in Seq(Located) /\ FlattenSeq(Append(s, e)) = FlattenSeq(s) \o e
  BY <1>2, <1>3, FlattenNext
<1> QED  BY <1>5, <1>6, <1>7 DEF e

LEMMA EntriesType ==
  ASSUME NEW lex, Laid(lex), NEW nr \in Nat, NEW count \in Nat, nr + count <= NrBlocks(lex)
  PROVE  EntriesFrom(lex, nr, count) \in Seq(Located)
<1>1. CASE count = 0
  <2>1. << >> \in Seq(Located)
    OBVIOUS
  <2> QED  BY <1>1, <2>1, EntriesNone
<1>2. CASE count # 0
  <2> DEFINE c == count - 1
  <2>1. c \in Nat /\ nr + c < NrBlocks(lex) /\ nr + c \in 0 .. NrBlocks(lex) - 1 /\ c + 1 = count
    BY <1>2 DEF NrBlocks, Laid
  <2> HIDE DEF c
  <2>2. /\ EntriesFrom(lex, nr, c) \in Seq(Located)
        /\ EntriesFrom(lex, nr, c + 1) = EntriesFrom(lex, nr, c) \o BlockAt(lex, nr + c)
    BY <2>1, EntriesNext
  <2>3. BlockAt(lex, nr + c) \in Seq(Located)
    BY <2>1, BlockIs
  <2>4. EntriesFrom(lex, nr, c + 1) \in Seq(Located)
    BY <2>2, <2>3, ConcatProperties
  <2> QED  BY <2>1, <2>4
<1> QED  BY <1>1, <1>2

\* The entries of some blocks are those of the first ones and those of the rest.
LEMMA Parts ==
  ASSUME NEW lex, Laid(lex), NEW nr \in Nat, NEW count \in Nat, nr + count <= NrBlocks(lex)
  PROVE  EntriesFrom(lex, 0, nr + count) = EntriesFrom(lex, 0, nr) \o EntriesFrom(lex, nr, count)
<1> DEFINE first == EntriesFrom(lex, 0, nr)
           T == {c \in 0 .. count : EntriesFrom(lex, 0, nr + c) = first \o EntriesFrom(lex, nr, c)}
<1>1. NrBlocks(lex) \in Nat /\ 0 + nr <= NrBlocks(lex) /\ 0 \in Nat
  BY DEF NrBlocks, Laid
<1>2. first \in Seq(Located)
  BY <1>1, EntriesType
<1>3. 0 \in T
  <2>1. first \o << >> = first
    BY <1>2
  <2>2. nr + 0 = nr /\ 0 \in 0 .. count
    OBVIOUS
  <2> QED  BY <2>1, <2>2, EntriesNone
<1>4. ASSUME NEW i \in 1 .. count, i - 1 \in T PROVE i \in T
  <2> DEFINE c == i - 1
             m == nr + c
  <2>1. c \in Nat /\ nr + c < NrBlocks(lex) /\ c + 1 = i /\ m \in Nat /\ 0 + m < NrBlocks(lex) /\ 0 + m = m
        /\ m \in 0 .. NrBlocks(lex) - 1 /\ m + 1 = nr + i /\ nr + c <= NrBlocks(lex)
    BY <1>1
  <2> HIDE DEF m
  <2>2. EntriesFrom(lex, 0, m + 1) = EntriesFrom(lex, 0, m) \o BlockAt(lex, 0 + m)
    BY <1>1, <2>1, EntriesNext
  <2>3. EntriesFrom(lex, nr, c + 1) = EntriesFrom(lex, nr, c) \o BlockAt(lex, nr + c)
        /\ EntriesFrom(lex, nr, c) \in Seq(Located)
    <3> HIDE DEF c
    <3> QED  BY <2>1, EntriesNext
  <2>4. BlockAt(lex, m) \in Seq(Located)
    BY <2>1, BlockIs
  <2>5. EntriesFrom(lex, 0, m) = first \o EntriesFrom(lex, nr, c)
    BY <1>4 DEF m
  <2> DEFINE x == EntriesFrom(lex, nr, c)
             y == BlockAt(lex, m)
  <2>6. (first \o x) \o y = first \o (x \o y)
    <3>1. x \in Seq(Located) /\ y \in Seq(Located)
      BY <2>3, <2>4
    <3> HIDE DEF x, y, first
    <3> QED  BY <1>2, <3>1, ConcatAssociative, SMTT(60)
  <2>7. EntriesFrom(lex, 0, nr + i) = first \o EntriesFrom(lex, nr, i)
    <3>1. EntriesFrom(lex, 0, m + 1) = (first \o x) \o y
      BY <2>1, <2>2, <2>5
    <3>2. EntriesFrom(lex, nr, c + 1) = x \o y
      BY <2>3 DEF m
    <3> QED  BY <2>1, <2>6, <3>1, <3>2
  <2> QED  BY <2>7
<1>5. count \in T
  <2>1. 0 .. count \subseteq T
    <3> HIDE DEF T
    <3> QED  BY <1>3, <1>4, UpTo
  <2>2. count \in 0 .. count
    OBVIOUS
  <2> QED  BY <2>1, <2>2
<1> QED  BY <1>5

LaidBefore(lex, b) == Len(EntriesFrom(lex, 0, b))       \* entries in the blocks before block b
Filled(lex) == Laid(lex) /\ \A b \in DOMAIN lex.blocks : Len(lex.blocks[b]) \in 1 .. BlockSize

LEMMA Slice ==
  ASSUME NEW lex, Laid(lex), NEW nr \in Nat, NEW count \in Nat, nr + count <= NrBlocks(lex)
  PROVE  /\ LaidBefore(lex, nr) \in Nat /\ LaidBefore(lex, nr + count) \in Nat
         /\ EntriesFrom(lex, nr, count) \in Seq(Located)
         /\ Len(EntriesFrom(lex, nr, count)) = LaidBefore(lex, nr + count) - LaidBefore(lex, nr)
         /\ LaidBefore(lex, nr) <= LaidBefore(lex, nr + count)
         /\ \A k \in 1 .. LaidBefore(lex, nr) : EntriesFrom(lex, 0, nr + count)[k] = EntriesFrom(lex, 0, nr)[k]
         /\ \A k \in 1 .. Len(EntriesFrom(lex, nr, count)) :
              EntriesFrom(lex, nr, count)[k] = EntriesFrom(lex, 0, nr + count)[LaidBefore(lex, nr) + k]
<1> DEFINE a == EntriesFrom(lex, 0, nr)
           b == EntriesFrom(lex, nr, count)
           c == EntriesFrom(lex, 0, nr + count)
           both == nr + count
<1>1. NrBlocks(lex) \in Nat /\ 0 \in Nat /\ 0 + nr <= NrBlocks(lex) /\ both \in Nat /\ 0 + both <= NrBlocks(lex)
  BY DEF NrBlocks, Laid
<1>2. a \in Seq(Located) /\ b \in Seq(Located)
  BY <1>1, EntriesType
<1>3. c \in Seq(Located)
  <2> HIDE DEF both
  <2>1. EntriesFrom(lex, 0, both) \in Seq(Located)
    BY <1>1, EntriesType
  <2> QED  BY <2>1 DEF both
<1>4. c = a \o b
  BY Parts
<1>5. LaidBefore(lex, nr) = Len(a) /\ LaidBefore(lex, nr + count) = Len(c)
  BY DEF LaidBefore
<1> HIDE DEF a, b, c
<1>6. /\ Len(c) = Len(a) + Len(b) /\ \A k \in 1 .. Len(a) : c[k] = a[k]
      /\ \A k \in 1 .. Len(b) : c[Len(a) + k] = b[k] /\ Len(a) \in Nat /\ Len(b) \in Nat
  <2>1. Len(a \o b) = Len(a) + Len(b) /\ Len(a) \in Nat /\ Len(b) \in Nat
    BY <1>2, ConcatProperties
  <2>2. \A k \in 1 .. Len(a) : (a \o b)[k] = a[k]
    BY <1>2
  <2>3. \A k \in 1 .. Len(b) : (a \o b)[Len(a) + k] = b[k]
    BY <1>2
  <2> QED  BY <1>4, <2>1, <2>2, <2>3
<1>7. Len(a) \in Nat /\ Len(b) \in Nat /\ Len(c) \in Nat
  BY <1>2, <1>3
<1>8. Len(b) = Len(c) - Len(a) /\ Len(a) <= Len(c)
  BY <1>6, <1>7
<1> QED  BY <1>2, <1>5, <1>6, <1>7, <1>8 DEF a, b, c

\* What stands where, in all entries and in those of some blocks.
LEMMA LayOut ==
  ASSUME NEW lex, Filled(lex)
  PROVE  /\ NrBlocks(lex) \in Nat /\ AllEntries(lex) \in Seq(Located)
         /\ LaidBefore(lex, 0) = 0 /\ Len(AllEntries(lex)) = LaidBefore(lex, NrBlocks(lex))
         /\ \A b \in 0 .. NrBlocks(lex) : LaidBefore(lex, b) \in Nat
         /\ \A b \in 0 .. NrBlocks(lex) - 1 :
              /\ Len(lex.blocks[b + 1]) \in 1 .. BlockSize
              /\ LaidBefore(lex, b + 1) = LaidBefore(lex, b) + Len(lex.blocks[b + 1])
              /\ \A k \in 1 .. Len(lex.blocks[b + 1]) :
                   AllEntries(lex)[LaidBefore(lex, b) + k] = [entry |-> lex.blocks[b + 1][k], ind |-> b * BlockSize + k - 1]
         /\ \A b, c \in 0 .. NrBlocks(lex) : b <= c => LaidBefore(lex, b) <= LaidBefore(lex, c)
<1> DEFINE N == NrBlocks(lex)
           all == AllEntries(lex)
<1>1. Laid(lex) /\ N \in Nat
  BY DEF Filled, Laid, NrBlocks
<1>2. all = EntriesFrom(lex, 0, N)
  BY DEF AllEntries
<1>3. all \in Seq(Located)
  <2>1. 0 + N <= NrBlocks(lex) /\ 0 \in Nat
    BY <1>1
  <2> QED  BY <1>1, <1>2, <2>1, EntriesType
<1>4. LaidBefore(lex, 0) = 0 /\ Len(all) = LaidBefore(lex, N)
  BY <1>2, EntriesNone DEF LaidBefore
<1>5. ASSUME NEW b \in 0 .. N PROVE LaidBefore(lex, b) \in Nat
  <2>1. b \in Nat /\ 0 \in Nat /\ b + 0 <= N
    BY <1>1
  <2> QED  BY <1>1, <2>1, Slice
<1>6. ASSUME NEW b \in 0 .. N, NEW c \in 0 .. N, b <= c PROVE LaidBefore(lex, b) <= LaidBefore(lex, c)
  <2>1. b \in Nat /\ c - b \in Nat /\ b + (c - b) <= NrBlocks(lex) /\ b + (c - b) = c
    BY <1>1, <1>6
  <2>2. LaidBefore(lex, b) <= LaidBefore(lex, b + (c - b))
    BY <1>1, <2>1, Slice
  <2> QED  BY <2>1, <2>2
<1>7. ASSUME NEW b \in 0 .. N - 1
      PROVE  /\ Len(lex.blocks[b + 1]) \in 1 .. BlockSize
             /\ LaidBefore(lex, b + 1) = LaidBefore(lex, b) + Len(lex.blocks[b + 1])
             /\ \A k \in 1 .. Len(lex.blocks[b + 1]) :
                  all[LaidBefore(lex, b) + k] = [entry |-> lex.blocks[b + 1][k], ind |-> b * BlockSize + k - 1]
  <2> DEFINE a == EntriesFrom(lex, 0, b)
             s == BlockAt(lex, b)
             m == b + 1
  <2>1. /\ b \in Nat /\ b + 1 \in DOMAIN lex.blocks /\ 0 + b < NrBlocks(lex) /\ 0 + b = b /\ 0 \in Nat
        /\ m \in Nat /\ N - m \in Nat /\ m + (N - m) <= NrBlocks(lex) /\ m + (N - m) = N
    <3>1. DOMAIN lex.blocks = 1 .. N
      BY <1>1 DEF NrBlocks, Laid
    <3> HIDE DEF N
    <3>2. b \in Nat /\ b + 1 \in 1 .. N /\ b < N /\ 0 + b = b /\ m \in Nat /\ N - m \in Nat /\ m + (N - m) = N
      BY <1>1
    <3> QED  BY <1>1, <3>1, <3>2 DEF N
  <2>2. Len(lex.blocks[b + 1]) \in 1 .. BlockSize
    BY <2>1 DEF Filled
  <2>3. a \in Seq(Located) /\ EntriesFrom(lex, 0, b + 1) = a \o s
    BY <1>1, <2>1, EntriesNext
  <2>4. s \in Seq(Located) /\ Len(s) = Len(lex.blocks[b + 1])
        /\ \A k \in 1 .. Len(lex.blocks[b + 1]) :
             s[k] = [entry |-> lex.blocks[b + 1][k], ind |-> b * BlockSize + k - 1]
    BY <1>1, BlockIs
  <2>5. LaidBefore(lex, b) = Len(a) /\ LaidBefore(lex, b + 1) = Len(a \o s)
    BY <2>3 DEF LaidBefore
  <2> HIDE DEF a, s
  <2>6. Len(a \o s) = Len(a) + Len(s) /\ \A k \in 1 .. Len(s) : (a \o s)[Len(a) + k] = s[k]
    <3>1. Len(a \o s) = Len(a) + Len(s)
      BY <2>3, <2>4, ConcatProperties
    <3>2. \A k \in 1 .. Len(s) : (a \o s)[Len(a) + k] = s[k]
      BY <2>3, <2>4
    <3> QED  BY <3>1, <3>2
  <2>7. \A k \in 1 .. LaidBefore(lex, m) : EntriesFrom(lex, 0, m + (N - m))[k] = EntriesFrom(lex, 0, m)[k]
    <3> DEFINE c == N - m
    <3>1. Laid(lex) /\ m \in Nat /\ c \in Nat /\ m + c <= NrBlocks(lex)
      BY <1>1, <2>1
    <3> HIDE DEF m, c
    <3>2. \A k \in 1 .. LaidBefore(lex, m) : EntriesFrom(lex, 0, m + c)[k] = EntriesFrom(lex, 0, m)[k]
      BY <3>1, Slice, SMTT(60)
    <3> QED  BY <3>2 DEF c
  <2>8. ASSUME NEW k \in 1 .. Len(lex.blocks[b + 1])
        PROVE  all[LaidBefore(lex, b) + k] = [entry |-> lex.blocks[b + 1][k], ind |-> b * BlockSize + k - 1]
    <3>1. k \in 1 .. Len(s) /\ Len(a) \in Nat /\ Len(s) \in Nat
      BY <2>3, <2>4
    <3>2. Len(a) + k \in 1 .. LaidBefore(lex, m)
      <4>1. Len(a) + k \in 1 .. Len(a) + Len(s)
        BY <3>1
      <4> QED  BY <2>5, <2>6, <4>1
    <3>3. all[Len(a) + k] = (a \o s)[Len(a) + k]
      BY <1>2, <2>1, <2>3, <2>7, <3>2
    <3> QED  BY <2>4, <2>5, <2>6, <3>1, <3>3
  <2>9. LaidBefore(lex, b + 1) = LaidBefore(lex, b) + Len(lex.blocks[b + 1])
    BY <2>4, <2>5, <2>6
  <2> QED  BY <2>2, <2>8, <2>9
<1> QED  BY <1>1, <1>3, <1>4, <1>5, <1>6, <1>7

-----------------------------------------------------------------------------
(* What a lexicon that is well formed is: its words are in order, and so is *)
(* its index.                                                               *)
WordAt(lex, n) == AllEntries(lex)[n].entry.graph
Count(lex) == Len(AllEntries(lex))
InBlock(lex, n, b) == b \in 0 .. NrBlocks(lex) - 1 /\ n \in LaidBefore(lex, b) + 1 .. LaidBefore(lex, b + 1)
AtMost(a, b) == a = b \/ Less(a, b)

LEMMA AtMostOrder ==
  ASSUME NEW a \in Spellings, NEW b \in Spellings, NEW c \in Spellings
  PROVE  /\ AtMost(a, b) /\ AtMost(b, c) => AtMost(a, c)
         /\ AtMost(a, b) /\ AtMost(b, a) => a = b
         /\ AtMost(a, b) => GraphVal(a) <= GraphVal(b)
         /\ ~AtMost(a, b) <=> Less(b, a)
<1>1. AtMost(a, b) /\ AtMost(b, c) => AtMost(a, c)
  BY LessTransitive DEF AtMost
<1>2. AtMost(a, b) /\ AtMost(b, a) => a = b
  BY LessTransitive, LessIrreflexive DEF AtMost
<1>3. AtMost(a, b) => GraphVal(a) <= GraphVal(b)
  BY ValMonotone, GraphValNat DEF AtMost
<1>4. ~AtMost(a, b) <=> Less(b, a)
  BY LessTotal, LessTransitive, LessIrreflexive DEF AtMost
<1> QED  BY <1>1, <1>2, <1>3, <1>4

LEMMA DivMod ==
  ASSUME NEW b \in Nat, NEW k \in Nat, NEW r \in 0 .. k - 1
  PROVE  (b * k + r) \div k = b /\ (b * k + r) % k = r
<1> DEFINE x == b * k
           n == x + r
           q == n \div k
           m == n % k
<1>1. k \in Nat /\ k > 0 /\ x \in Nat /\ r \in Nat /\ r < k
  OBVIOUS
<1>2. n \in Nat
  <2> HIDE DEF x
  <2> QED  BY <1>1
<1> HIDE DEF n
<1>3. q \in Int /\ m \in 0 .. k - 1 /\ n = k * q + m
  BY <1>1, <1>2
<1> HIDE DEF q, m
<1>4. b * k + r = k * q + m
  BY <1>3 DEF n
<1>5. k * (b - q) = m - r
  BY <1>1, <1>3, <1>4
<1>6. b - q < 1
  <2> SUFFICES ASSUME b - q >= 1 PROVE FALSE
    BY <1>3
  <2>1. k * (b - q) >= k
    BY <1>1, <1>3
  <2> QED  BY <1>1, <1>3, <1>5, <2>1
<1>7. b - q > -1
  <2> SUFFICES ASSUME b - q <= -1 PROVE FALSE
    BY <1>3
  <2>1. k * (b - q) <= -k
    BY <1>1, <1>3
  <2> QED  BY <1>1, <1>3, <1>5, <2>1
<1>8. b = q
  BY <1>3, <1>6, <1>7
<1>9. m = r
  BY <1>1, <1>3, <1>4, <1>8
<1> QED  BY <1>8, <1>9 DEF q, m, n

LEMMA HasBlock ==
  ASSUME NEW lex, Filled(lex), NEW n \in 1 .. Count(lex)
  PROVE  \E b : InBlock(lex, n, b)
<1> DEFINE N == NrBlocks(lex)
           T == {b \in 0 .. N : n <= LaidBefore(lex, b)}
<1>1. /\ N \in Nat /\ LaidBefore(lex, 0) = 0 /\ Count(lex) = LaidBefore(lex, N)
      /\ \A b \in 0 .. N : LaidBefore(lex, b) \in Nat
  BY LayOut DEF Count
<1> HIDE DEF N
<1>2. N \in T
  BY <1>1
<1>3. PICK c \in T : \A k \in T : c <= k
  <2>1. T \subseteq Nat
    BY <1>1
  <2> HIDE DEF T
  <2> QED  BY <1>2, <2>1, LeastMember
<1>4. c # 0
  BY <1>1, <1>3
<1>5. c - 1 \in 0 .. N /\ c - 1 \in 0 .. N - 1 /\ (c - 1) + 1 = c /\ ~(c <= c - 1)
  BY <1>1, <1>3, <1>4
<1>6. LaidBefore(lex, c - 1) < n
  BY <1>1, <1>3, <1>5
<1>7. n \in LaidBefore(lex, c - 1) + 1 .. LaidBefore(lex, c)
  BY <1>1, <1>3, <1>5, <1>6
<1>8. InBlock(lex, n, c - 1)
  BY <1>5, <1>7 DEF InBlock, N
<1> QED  BY <1>8

LEMMA InBlockIs ==
  ASSUME NEW lex, Filled(lex), NEW n, NEW b, InBlock(lex, n, b)
  PROVE  LET at == AllEntries(lex)[n]
             k == n - LaidBefore(lex, b)
         IN /\ n \in 1 .. Count(lex) /\ k \in 1 .. Len(lex.blocks[b + 1]) /\ n = LaidBefore(lex, b) + k
            /\ at = [entry |-> lex.blocks[b + 1][k], ind |-> b * BlockSize + k - 1]
            /\ at.entry \in LexEntry
            /\ at.ind \div BlockSize = b /\ at.ind % BlockSize = k - 1 /\ at.ind \in Nat
            /\ at.ind < NrBlocks(lex) * BlockSize
<1> DEFINE k == n - LaidBefore(lex, b)
           at == AllEntries(lex)[n]
           N == NrBlocks(lex)
           len == Len(lex.blocks[b + 1])
<1>1. b \in 0 .. N - 1 /\ n \in LaidBefore(lex, b) + 1 .. LaidBefore(lex, b + 1)
  BY DEF InBlock
<1>2. /\ N \in Nat /\ AllEntries(lex) \in Seq(Located)
      /\ Count(lex) = LaidBefore(lex, N)
      /\ LaidBefore(lex, b) \in Nat /\ LaidBefore(lex, b + 1) \in Nat /\ LaidBefore(lex, N) \in Nat
      /\ len \in 1 .. BlockSize
      /\ LaidBefore(lex, b + 1) = LaidBefore(lex, b) + len
      /\ LaidBefore(lex, b + 1) <= LaidBefore(lex, N)
      /\ \A j \in 1 .. len :
           AllEntries(lex)[LaidBefore(lex, b) + j] = [entry |-> lex.blocks[b + 1][j], ind |-> b * BlockSize + j - 1]
  <2>1. N \in Nat
    BY LayOut
  <2> HIDE DEF N
  <2>2. b \in 0 .. N /\ b + 1 \in 0 .. N /\ N \in 0 .. N /\ b + 1 <= N
    BY <1>1, <2>1
  <2> QED  BY <1>1, <2>1, <2>2, LayOut DEF Count, N
<1>3. BlockSize \in Nat /\ BlockSize > 0
  BY LexiconAssumption
<1> HIDE DEF N, len
<1>4. k \in 1 .. len /\ n = LaidBefore(lex, b) + k /\ n \in 1 .. Count(lex) /\ k \in Nat /\ k - 1 \in 0 .. BlockSize - 1
  <2> DEFINE p == LaidBefore(lex, b)
             q == LaidBefore(lex, b + 1)
             z == LaidBefore(lex, N)
  <2>1. /\ p \in Nat /\ q \in Nat /\ z \in Nat /\ len \in 1 .. BlockSize /\ q = p + len /\ q <= z
        /\ Count(lex) = z /\ n \in p + 1 .. q
    BY <1>1, <1>2
  <2> HIDE DEF p, q, z
  <2>2. n - p \in 1 .. len /\ n = p + (n - p) /\ n \in 1 .. z /\ n - p \in Nat /\ (n - p) - 1 \in 0 .. BlockSize - 1
    BY <1>3, <2>1
  <2> QED  BY <2>1, <2>2 DEF p
<1>5. at = [entry |-> lex.blocks[b + 1][k], ind |-> b * BlockSize + k - 1]
  <2>1. AllEntries(lex)[LaidBefore(lex, b) + k] = [entry |-> lex.blocks[b + 1][k], ind |-> b * BlockSize + k - 1]
    BY <1>2, <1>4
  <2> QED  BY <1>4, <2>1
<1>6. at \in Located
  BY <1>2, <1>4, ElementOfSeq DEF Count
<1> HIDE DEF k
<1> DEFINE x == b * BlockSize
<1>7. at.ind = x + (k - 1) /\ x \in Nat
  <2>1. x \in Nat
    BY <1>1, <1>3
  <2>2. at.ind = x + k - 1
    BY <1>5
  <2> HIDE DEF x, at
  <2> QED  BY <1>4, <2>1, <2>2
<1>8. at.ind \div BlockSize = b /\ at.ind % BlockSize = k - 1
  <2>1. b \in Nat
    BY <1>1
  <2> DEFINE r == k - 1
  <2>2. (b * BlockSize + r) \div BlockSize = b /\ (b * BlockSize + r) % BlockSize = r
    <3>1. r \in 0 .. BlockSize - 1
      BY <1>4
    <3> HIDE DEF r
    <3> QED  BY <1>3, <2>1, <3>1, DivMod
  <2> QED  BY <1>7, <2>2
<1>9. at.ind < NrBlocks(lex) * BlockSize
  <2>1. x + BlockSize <= N * BlockSize
    <3>1. b \in Nat /\ N \in Nat /\ b + 1 <= N
      BY <1>1, <1>2
    <3>2. (b + 1) * BlockSize <= N * BlockSize
      BY <1>3, <3>1
    <3>3. (b + 1) * BlockSize = x + BlockSize
      BY <1>3, <3>1
    <3> QED  BY <3>2, <3>3
  <2> DEFINE y == N * BlockSize
  <2>2. y \in Nat
    BY <1>2, <1>3
  <2> HIDE DEF x, y, at
  <2>3. at.ind < y
    BY <1>3, <1>4, <1>7, <2>1, <2>2 DEF y
  <2> QED  BY <2>3 DEF y, N, at
<1>10. at.ind \in Nat /\ at.entry \in LexEntry
  BY <1>6 DEF Located
<1> QED  BY <1>4, <1>5, <1>8, <1>9, <1>10 DEF k, len

\* The parts of WellFormed.
Val(lex, n) == GraphVal(WordAt(lex, n))
Block(lex, n) == AllEntries(lex)[n].ind \div BlockSize

LEMMA WellFormedIs ==
  ASSUME NEW lex, WellFormed(lex)
  PROVE  /\ Filled(lex) /\ Count(lex) \in Nat
         /\ lex.index = [b \in DOMAIN lex.blocks |-> IF b = 1 THEN 0 ELSE GraphVal(lex.blocks[b][1].graph)]
         /\ NrBlocks(lex) > 0 => SearchIndexVal(lex, NrBlocks(lex)) # lex.index[NrBlocks(lex)]
         /\ \A n \in 1 .. Count(lex) - 1 :
              /\ LexMatch(AllEntries(lex)[n].entry, WordAt(lex, n + 1)) <= 0
              /\ WordAt(lex, n) = WordAt(lex, n + 1) =>
                   ~AllEntries(lex)[n].entry.g2p /\ ~AllEntries(lex)[n + 1].entry.g2p
              /\ Block(lex, n) # Block(lex, n + 1) /\ Val(lex, n) = Val(lex, n + 1) =>
                   lex.index[Block(lex, n) + 1] = Val(lex, n)
<1>1. Filled(lex)
  BY DEF WellFormed, Filled, Laid
<1>2. Count(lex) \in Nat
  BY <1>1, LayOut DEF Count
<1>3. /\ lex.index = [b \in DOMAIN lex.blocks |-> IF b = 1 THEN 0 ELSE GraphVal(lex.blocks[b][1].graph)]
      /\ NrBlocks(lex) > 0 => SearchIndexVal(lex, NrBlocks(lex)) # lex.index[NrBlocks(lex)]
  BY DEF WellFormed
<1>4. \A n \in 1 .. Count(lex) - 1 :
        /\ LexMatch(AllEntries(lex)[n].entry, WordAt(lex, n + 1)) <= 0
        /\ WordAt(lex, n) = WordAt(lex, n + 1) =>
             ~AllEntries(lex)[n].entry.g2p /\ ~AllEntries(lex)[n + 1].entry.g2p
        /\ Block(lex, n) # Block(lex, n + 1) /\ Val(lex, n) = Val(lex, n + 1) =>
             lex.index[Block(lex, n) + 1] = Val(lex, n)
  BY Zenon DEF WellFormed, WordAt, Count, Val, Block
<1> QED  BY <1>1, <1>2, <1>3, <1>4

LEMMA WordIs ==
  ASSUME NEW lex, Filled(lex), NEW n \in 1 .. Count(lex)
  PROVE  /\ WordAt(lex, n) \in Spellings /\ WordAt(lex, n) # << >> /\ Val(lex, n) \in Nat
         /\ AllEntries(lex)[n] \in Located /\ AllEntries(lex)[n].entry \in LexEntry
<1>1. AllEntries(lex) \in Seq(Located)
  BY LayOut
<1>2. AllEntries(lex)[n] \in Located
  BY <1>1, ElementOfSeq DEF Count
<1>3. AllEntries(lex)[n].entry \in LexEntry
  BY <1>2 DEF Located
<1>4. AllEntries(lex)[n].entry.graph \in Graphs
  BY <1>3 DEF LexEntry
<1>5. WordAt(lex, n) \in Spellings /\ WordAt(lex, n) # << >>
  BY <1>4 DEF Graphs, Spellings, WordAt
<1> QED  BY <1>2, <1>3, <1>5, GraphValNat DEF Val

LEMMA WordsInOrder ==
  ASSUME NEW lex, WellFormed(lex), NEW m \in 1 .. Count(lex), NEW n \in m .. Count(lex)
  PROVE  AtMost(WordAt(lex, m), WordAt(lex, n))
<1> DEFINE T == {d \in 0 .. n - m : AtMost(WordAt(lex, m), WordAt(lex, m + d))}
<1>1. Filled(lex) /\ Count(lex) \in Nat /\ m \in Nat /\ n \in Nat /\ m <= n /\ n - m \in Nat
  <2>1. Filled(lex) /\ Count(lex) \in Nat
    BY WellFormedIs
  <2> QED  BY <2>1
<1>2. 0 \in T
  BY <1>1 DEF AtMost
<1>3. ASSUME NEW d \in 1 .. n - m, d - 1 \in T PROVE d \in T
  <2> DEFINE k == m + (d - 1)
  <2>1. k \in 1 .. Count(lex) - 1 /\ k \in 1 .. Count(lex) /\ k + 1 = m + d /\ k + 1 \in 1 .. Count(lex)
    BY <1>1
  <2>2. AtMost(WordAt(lex, m), WordAt(lex, k))
    BY <1>3
  <2> HIDE DEF k
  <2>3. LexMatch(AllEntries(lex)[k].entry, WordAt(lex, k + 1)) <= 0
    BY <2>1, WellFormedIs
  <2>4. WordAt(lex, m) \in Spellings /\ WordAt(lex, k) \in Spellings /\ WordAt(lex, k + 1) \in Spellings
    BY <1>1, <2>1, WordIs
  <2>5. AtMost(WordAt(lex, k), WordAt(lex, k + 1))
    <3> DEFINE e == AllEntries(lex)[k].entry
    <3>1. e.graph = WordAt(lex, k)
      BY DEF WordAt
    <3> HIDE DEF e
    <3>2. \/ LexMatch(e, WordAt(lex, k + 1)) = -1 /\ Less(e.graph, WordAt(lex, k + 1))
          \/ LexMatch(e, WordAt(lex, k + 1)) = 0 /\ e.graph = WordAt(lex, k + 1)
          \/ LexMatch(e, WordAt(lex, k + 1)) = 1 /\ Less(WordAt(lex, k + 1), e.graph)
      BY <2>4, <3>1, MatchIs
    <3>3. ~(LexMatch(e, WordAt(lex, k + 1)) = 1)
      BY <2>3 DEF e
    <3> QED  BY <3>1, <3>2, <3>3 DEF AtMost
  <2>6. AtMost(WordAt(lex, m), WordAt(lex, k + 1))
    BY <2>2, <2>4, <2>5, AtMostOrder
  <2> QED  BY <2>1, <2>6
<1>4. n - m \in T
  <2>1. 0 .. n - m \subseteq T
    <3> HIDE DEF T
    <3> QED  BY <1>1, <1>2, <1>3, UpTo
  <2>2. n - m \in 0 .. n - m
    BY <1>1
  <2> QED  BY <2>1, <2>2
<1>5. m + (n - m) = n
  BY <1>1
<1> QED  BY <1>4, <1>5

\* A word that has several entries has phones in all of them.
LEMMA SameWord ==
  ASSUME NEW lex, WellFormed(lex), NEW m \in 1 .. Count(lex), NEW n \in 1 .. Count(lex), m < n,
         WordAt(lex, m) = WordAt(lex, n)
  PROVE  /\ \A k \in m .. n : WordAt(lex, k) = WordAt(lex, m)
         /\ ~AllEntries(lex)[m].entry.g2p /\ ~AllEntries(lex)[n].entry.g2p
<1>1. Filled(lex) /\ Count(lex) \in Nat /\ m \in Nat /\ n \in Nat
  <2>1. Filled(lex) /\ Count(lex) \in Nat
    BY WellFormedIs
  <2> QED  BY <2>1
<1>2. ASSUME NEW k \in m .. n PROVE WordAt(lex, k) = WordAt(lex, m)
  <2>1. k \in 1 .. Count(lex) /\ k \in m .. Count(lex) /\ n \in k .. Count(lex)
    BY <1>1
  <2>2. AtMost(WordAt(lex, m), WordAt(lex, k)) /\ AtMost(WordAt(lex, k), WordAt(lex, m))
    BY <2>1, WordsInOrder
  <2>3. WordAt(lex, m) \in Spellings /\ WordAt(lex, k) \in Spellings
    BY <1>1, <2>1, WordIs
  <2> QED  BY <2>2, <2>3, AtMostOrder
<1>3. m \in 1 .. Count(lex) - 1 /\ m + 1 \in m .. n /\ n - 1 \in 1 .. Count(lex) - 1 /\ n - 1 \in m .. n
      /\ (n - 1) + 1 = n /\ n \in m .. n
  BY <1>1
<1>4. ~AllEntries(lex)[m].entry.g2p
  BY <1>2, <1>3, WellFormedIs
<1>5. ~AllEntries(lex)[n].entry.g2p
  <2> DEFINE k == n - 1
  <2>1. k \in 1 .. Count(lex) - 1 /\ k + 1 = n /\ WordAt(lex, k) = WordAt(lex, n)
    BY <1>2, <1>3
  <2> HIDE DEF k
  <2> QED  BY <2>1, WellFormedIs
<1> QED  BY <1>2, <1>4, <1>5

\* The index.
First(lex, b) == LaidBefore(lex, b) + 1
LEMMA FirstIs ==
  ASSUME NEW lex, Filled(lex), NEW b \in 0 .. NrBlocks(lex) - 1
  PROVE  InBlock(lex, First(lex, b), b) /\ First(lex, b) \in 1 .. Count(lex)
         /\ WordAt(lex, First(lex, b)) = lex.blocks[b + 1][1].graph
<1> DEFINE n == First(lex, b)
<1>1. LaidBefore(lex, b) \in Nat /\ LaidBefore(lex, b + 1) = LaidBefore(lex, b) + Len(lex.blocks[b + 1])
      /\ Len(lex.blocks[b + 1]) \in 1 .. BlockSize
  <2>1. NrBlocks(lex) \in Nat
    BY LayOut
  <2>2. b \in 0 .. NrBlocks(lex)
    BY <2>1
  <2> QED  BY <2>2, LayOut
<1>2. InBlock(lex, n, b)
  <2>1. BlockSize \in Nat
    BY LexiconAssumption
  <2>2. n \in LaidBefore(lex, b) + 1 .. LaidBefore(lex, b + 1)
    BY <1>1, <2>1 DEF First
  <2> QED  BY <2>2 DEF InBlock
<1>3. n - LaidBefore(lex, b) = 1
  BY <1>1 DEF First
<1> HIDE DEF n
<1>4. AllEntries(lex)[n] = [entry |-> lex.blocks[b + 1][1], ind |-> b * BlockSize + 1 - 1] /\ n \in 1 .. Count(lex)
  BY <1>2, <1>3, InBlockIs
<1>5. WordAt(lex, n) = lex.blocks[b + 1][1].graph
  BY <1>4 DEF WordAt
<1> QED  BY <1>2, <1>4, <1>5 DEF n

Index(lex, b) == SearchIndexVal(lex, b)
LEMMA IndexIs ==
  ASSUME NEW lex, WellFormed(lex), NEW b \in 0 .. NrBlocks(lex) - 1
  PROVE  /\ Index(lex, b) = IF b = 0 THEN 0 ELSE Val(lex, First(lex, b))
         /\ Index(lex, b) = lex.index[b + 1] /\ Index(lex, b) \in Nat
<1>1. Filled(lex) /\ NrBlocks(lex) \in Nat /\ b < NrBlocks(lex) /\ b + 1 \in DOMAIN lex.blocks
      /\ (b + 1 = 1 <=> b = 0)
  <2>1. Filled(lex) /\ NrBlocks(lex) \in Nat
    BY WellFormedIs, LayOut
  <2>2. DOMAIN lex.blocks = 1 .. NrBlocks(lex)
    BY <2>1 DEF Filled, Laid, NrBlocks
  <2> QED  BY <2>1, <2>2
<1>2. Index(lex, b) = lex.index[b + 1]
  BY <1>1 DEF Index, SearchIndexVal
<1>3. lex.index[b + 1] = IF b = 0 THEN 0 ELSE GraphVal(lex.blocks[b + 1][1].graph)
  <2>1. lex.index = [c \in DOMAIN lex.blocks |-> IF c = 1 THEN 0 ELSE GraphVal(lex.blocks[c][1].graph)]
    BY WellFormedIs
  <2> DEFINE p == b + 1
             index == [c \in DOMAIN lex.blocks |-> IF c = 1 THEN 0 ELSE GraphVal(lex.blocks[c][1].graph)]
  <2>2. index[p] = IF p = 1 THEN 0 ELSE GraphVal(lex.blocks[p][1].graph)
    <3>1. p \in DOMAIN lex.blocks
      BY <1>1
    <3> HIDE DEF p
    <3> QED  BY <3>1
  <2> HIDE DEF index
  <2>3. lex.index[p] = index[p]
    BY <2>1 DEF index
  <2> QED  BY <1>1, <2>2, <2>3
<1>4. WordAt(lex, First(lex, b)) = lex.blocks[b + 1][1].graph /\ First(lex, b) \in 1 .. Count(lex)
  BY <1>1, FirstIs
<1>5. Val(lex, First(lex, b)) \in Nat
  BY <1>1, <1>4, WordIs
<1> QED  BY <1>2, <1>3, <1>4, <1>5 DEF Val

LEMMA ValInOrder ==
  ASSUME NEW lex, WellFormed(lex), NEW m \in 1 .. Count(lex), NEW n \in m .. Count(lex)
  PROVE  Val(lex, m) <= Val(lex, n)
<1>1. Count(lex) \in Nat /\ Filled(lex)
  BY WellFormedIs
<1>2. n \in 1 .. Count(lex)
  BY <1>1
<1>3. AtMost(WordAt(lex, m), WordAt(lex, n)) /\ WordAt(lex, m) \in Spellings /\ WordAt(lex, n) \in Spellings
  BY <1>1, <1>2, WordIs, WordsInOrder
<1> QED  BY <1>3, AtMostOrder DEF Val

LEMMA FirstInOrder ==
  ASSUME NEW lex, Filled(lex), NEW b \in 0 .. NrBlocks(lex) - 1, NEW c \in b .. NrBlocks(lex) - 1
  PROVE  First(lex, c) \in First(lex, b) .. Count(lex)
<1>1. NrBlocks(lex) \in Nat
  BY LayOut
<1>2. b \in 0 .. NrBlocks(lex) /\ c \in 0 .. NrBlocks(lex) /\ b <= c /\ c \in 0 .. NrBlocks(lex) - 1
  BY <1>1
<1>3. LaidBefore(lex, b) <= LaidBefore(lex, c) /\ LaidBefore(lex, b) \in Nat /\ LaidBefore(lex, c) \in Nat
  BY <1>2, LayOut
<1>4. First(lex, c) \in 1 .. Count(lex) /\ Count(lex) \in Nat
  BY <1>2, FirstIs, LayOut DEF Count
<1> QED  BY <1>3, <1>4 DEF First

LEMMA IndexInOrder ==
  ASSUME NEW lex, WellFormed(lex), NEW b \in 0 .. NrBlocks(lex) - 1, NEW c \in b .. NrBlocks(lex) - 1
  PROVE  Index(lex, b) <= Index(lex, c)
<1>1. NrBlocks(lex) \in Nat /\ Filled(lex) /\ c \in 0 .. NrBlocks(lex) - 1
  <2>1. NrBlocks(lex) \in Nat /\ Filled(lex)
    BY WellFormedIs, LayOut
  <2> QED  BY <2>1
<1>2. /\ Index(lex, b) = IF b = 0 THEN 0 ELSE Val(lex, First(lex, b))
      /\ Index(lex, c) = IF c = 0 THEN 0 ELSE Val(lex, First(lex, c))
      /\ Index(lex, b) \in Nat /\ Index(lex, c) \in Nat
  BY <1>1, IndexIs
<1>3. Val(lex, First(lex, b)) <= Val(lex, First(lex, c))
  BY <1>1, FirstIs, FirstInOrder, ValInOrder
<1>4. b # 0 => c # 0
  BY <1>1
<1> QED  BY <1>2, <1>3, <1>4

-----------------------------------------------------------------------------
(* The binary search finds the first block whose index is not less.         *)
NotLess(lex, val, low, high, k) ==
  /\ k \in low .. high
  /\ \A i \in low .. k - 1 : Index(lex, i) < val
  /\ \A i \in k .. high - 1 : Index(lex, i) >= val
IsSearch(f, lex, val) ==
  f = [bounds \in (0 .. NrBlocks(lex)) \X (0 .. NrBlocks(lex)) |->
        LET low == bounds[1]
            high == bounds[2]
            mid == (low + high) \div 2
        IN IF low >= high THEN low
           ELSE IF SearchIndexVal(lex, mid) < val THEN f[<< mid + 1, high >>]
           ELSE f[<< low, mid >>]]

LEMMA NotLessExists ==
  ASSUME NEW lex, WellFormed(lex), NEW val \in Nat, NEW high \in 0 .. NrBlocks(lex), NEW low \in 0 .. high
  PROVE  \E k : NotLess(lex, val, low, high, k)
<1> DEFINE N == NrBlocks(lex)
           T == {k \in low .. high : k = high \/ Index(lex, k) >= val}
<1>1. N \in Nat /\ Filled(lex)
  BY WellFormedIs, LayOut
<1>2. low \in Nat /\ high \in Nat /\ low <= high /\ high <= N /\ T \subseteq Nat /\ high \in T
  BY <1>1
<1>3. PICK k \in T : \A j \in T : k <= j
  <2> HIDE DEF T
  <2> QED  BY <1>2, LeastMember
<1>4. k \in Nat /\ k \in low .. high
  BY <1>2, <1>3
<1>5. \A i \in low .. k - 1 : Index(lex, i) < val
  <2> SUFFICES ASSUME NEW i \in low .. k - 1 PROVE Index(lex, i) < val
    OBVIOUS
  <2>1. i \in 0 .. N - 1 /\ i \in low .. high /\ ~(k <= i)
    BY <1>1, <1>2, <1>4
  <2>2. ~(Index(lex, i) >= val)
    BY <1>3, <2>1
  <2>3. Index(lex, i) \in Nat
    BY <2>1, IndexIs
  <2> QED  BY <2>2, <2>3
<1>6. \A i \in k .. high - 1 : Index(lex, i) >= val
  <2> SUFFICES ASSUME NEW i \in k .. high - 1 PROVE Index(lex, i) >= val
    OBVIOUS
  <2>1. i \in 0 .. N - 1 /\ k \in 0 .. N - 1 /\ i \in k .. N - 1 /\ k # high
    BY <1>1, <1>2, <1>4
  <2>2. Index(lex, k) >= val
    BY <1>3, <2>1
  <2>3. Index(lex, i) \in Nat /\ Index(lex, k) \in Nat /\ Index(lex, k) <= Index(lex, i)
    BY <2>1, IndexIs, IndexInOrder
  <2> QED  BY <2>2, <2>3
<1> QED  BY <1>4, <1>5, <1>6 DEF NotLess

LEMMA NotLessOne ==
  ASSUME NEW lex, WellFormed(lex), NEW val \in Nat, NEW high \in 0 .. NrBlocks(lex), NEW low \in 0 .. high,
         NEW k, NotLess(lex, val, low, high, k), NEW m, NotLess(lex, val, low, high, m)
  PROVE  k = m
<1>1. NrBlocks(lex) \in Nat /\ Filled(lex)
  BY WellFormedIs, LayOut
<1>2. k \in low .. high /\ m \in low .. high
  BY DEF NotLess
<1>3. ~(k < m)
  <2> SUFFICES ASSUME k < m PROVE FALSE
    OBVIOUS
  <2>1. k \in low .. m - 1 /\ k \in k .. high - 1 /\ k \in 0 .. NrBlocks(lex) - 1
    BY <1>1, <1>2
  <2>2. Index(lex, k) < val /\ Index(lex, k) >= val /\ Index(lex, k) \in Nat
    BY <2>1, IndexIs DEF NotLess
  <2> QED  BY <2>2
<1>4. ~(m < k)
  <2> SUFFICES ASSUME m < k PROVE FALSE
    OBVIOUS
  <2>1. m \in low .. k - 1 /\ m \in m .. high - 1 /\ m \in 0 .. NrBlocks(lex) - 1
    BY <1>1, <1>2
  <2>2. Index(lex, m) < val /\ Index(lex, m) >= val /\ Index(lex, m) \in Nat
    BY <2>1, IndexIs DEF NotLess
  <2> QED  BY <2>2
<1> QED  BY <1>1, <1>2, <1>3, <1>4

\* One step of the search.
LEMMA Halves ==
  ASSUME NEW lex, WellFormed(lex), NEW val \in Nat, NEW high \in 0 .. NrBlocks(lex), NEW low \in 0 .. high,
         low < high
  PROVE  LET mid == (low + high) \div 2
         IN /\ mid \in low .. high - 1 /\ mid + 1 \in 0 .. high /\ mid \in 0 .. NrBlocks(lex) /\ low \in 0 .. mid
            /\ mid + 1 \in low + 1 .. high
            /\ Index(lex, mid) < val =>
                 \A k : NotLess(lex, val, mid + 1, high, k) => NotLess(lex, val, low, high, k)
            /\ ~(Index(lex, mid) < val) =>
                 \A k : NotLess(lex, val, low, mid, k) => NotLess(lex, val, low, high, k)
<1> DEFINE mid == (low + high) \div 2
           N == NrBlocks(lex)
<1>1. N \in Nat /\ Filled(lex)
  BY WellFormedIs, LayOut
<1>2. low \in Nat /\ high \in Nat /\ high <= N
  BY <1>1
<1>3. mid \in low .. high - 1
  BY <1>2
<1> HIDE DEF mid
<1>4. mid + 1 \in 0 .. high /\ mid \in 0 .. N /\ low \in 0 .. mid /\ mid \in 0 .. N - 1 /\ mid + 1 \in low + 1 .. high
  BY <1>1, <1>2, <1>3
<1>5. Index(lex, mid) \in Nat
  BY <1>4, IndexIs
<1>6. ASSUME Index(lex, mid) < val, NEW k, NotLess(lex, val, mid + 1, high, k)
      PROVE  NotLess(lex, val, low, high, k)
  <2>1. k \in mid + 1 .. high /\ \A i \in mid + 1 .. k - 1 : Index(lex, i) < val
    BY <1>6 DEF NotLess
  <2>2. ASSUME NEW i \in low .. k - 1 PROVE Index(lex, i) < val
    <3>1. CASE i \in mid + 1 .. k - 1
      BY <2>1, <3>1
    <3>2. CASE ~(i \in mid + 1 .. k - 1)
      <4>1. i \in 0 .. N - 1 /\ mid \in i .. N - 1
        BY <1>1, <1>2, <1>3, <2>1, <3>2
      <4>2. Index(lex, i) <= Index(lex, mid) /\ Index(lex, i) \in Nat
        BY <4>1, IndexIs, IndexInOrder
      <4> QED  BY <1>5, <1>6, <4>2
    <3> QED  BY <3>1, <3>2
  <2>3. k \in low .. high
    BY <1>2, <1>3, <2>1
  <2> QED  BY <1>6, <2>2, <2>3 DEF NotLess
<1>7. ASSUME ~(Index(lex, mid) < val), NEW k, NotLess(lex, val, low, mid, k)
      PROVE  NotLess(lex, val, low, high, k)
  <2>1. k \in low .. mid /\ \A i \in k .. mid - 1 : Index(lex, i) >= val
    BY <1>7 DEF NotLess
  <2>2. ASSUME NEW i \in k .. high - 1 PROVE Index(lex, i) >= val
    <3>1. CASE i \in k .. mid - 1
      BY <2>1, <3>1
    <3>2. CASE ~(i \in k .. mid - 1)
      <4>1. i \in 0 .. N - 1 /\ i \in mid .. N - 1
        BY <1>1, <1>2, <1>3, <2>1, <3>2
      <4>2. Index(lex, mid) <= Index(lex, i) /\ Index(lex, i) \in Nat
        BY <1>4, <4>1, IndexIs, IndexInOrder
      <4> QED  BY <1>5, <1>7, <4>2
    <3> QED  BY <3>1, <3>2
  <2>3. k \in low .. high
    BY <1>2, <1>3, <2>1
  <2> QED  BY <1>7, <2>2, <2>3 DEF NotLess
<1> QED  BY <1>3, <1>4, <1>6, <1>7 DEF mid

LEMMA SearchExists ==
  ASSUME NEW lex, WellFormed(lex), NEW val \in Nat
  PROVE  \E f : IsSearch(f, lex, val)
<1> DEFINE N == NrBlocks(lex)
           Found(low, high) == IF low >= high THEN low ELSE CHOOSE k : NotLess(lex, val, low, high, k)
           f == [bounds \in (0 .. N) \X (0 .. N) |-> Found(bounds[1], bounds[2])]
<1>1. N \in Nat /\ Filled(lex)
  BY WellFormedIs, LayOut
<1>2. ASSUME NEW low \in 0 .. N, NEW high \in 0 .. N, low <= high
      PROVE  NotLess(lex, val, low, high, Found(low, high))
  <2>1. CASE low = high
    BY <1>1, <2>1 DEF NotLess
  <2>2. CASE low # high
    <3>1. low \in 0 .. high /\ ~(low >= high)
      BY <1>1, <1>2, <2>2
    <3> QED  BY <3>1, NotLessExists
  <2> QED  BY <2>1, <2>2
<1>3. ASSUME NEW low \in 0 .. N, NEW high \in 0 .. N
      PROVE  f[<< low, high >>] = Found(low, high)
  <2> HIDE DEF Found
  <2> DEFINE p == << low, high >>
  <2>1. p \in (0 .. N) \X (0 .. N) /\ p[1] = low /\ p[2] = high
    OBVIOUS
  <2> HIDE DEF p
  <2>2. f[p] = Found(p[1], p[2])
    BY <2>1
  <2>3. f[p] = Found(low, high)
    BY <2>1, <2>2
  <2> HIDE DEF f
  <2> QED  BY <2>3 DEF p
<1> HIDE DEF Found
<1>4. ASSUME NEW low \in 0 .. N, NEW high \in 0 .. N
      PROVE  Found(low, high) =
               LET mid == (low + high) \div 2
               IN IF low >= high THEN low
                  ELSE IF SearchIndexVal(lex, mid) < val THEN f[<< mid + 1, high >>]
                  ELSE f[<< low, mid >>]
  <2> DEFINE mid == (low + high) \div 2
  <2>1. CASE low >= high
    BY <2>1 DEF Found
  <2>2. CASE ~(low >= high)
    <3>1. low < high /\ low \in 0 .. high /\ low <= high
      BY <1>1, <2>2
    <3>2. /\ mid \in low .. high - 1 /\ mid + 1 \in 0 .. high /\ mid \in 0 .. N /\ low \in 0 .. mid
          /\ mid + 1 \in low + 1 .. high
          /\ Index(lex, mid) < val =>
               \A k : NotLess(lex, val, mid + 1, high, k) => NotLess(lex, val, low, high, k)
          /\ ~(Index(lex, mid) < val) =>
               \A k : NotLess(lex, val, low, mid, k) => NotLess(lex, val, low, high, k)
      BY <3>1, Halves
    <3> HIDE DEF mid
    <3>3. mid + 1 \in 0 .. N /\ mid + 1 <= high /\ low <= mid
      BY <1>1, <3>2
    <3>4. NotLess(lex, val, low, high, Found(low, high))
      BY <1>2, <3>1
    <3>5. CASE Index(lex, mid) < val
      <4>1. NotLess(lex, val, low, high, Found(mid + 1, high))
        BY <1>2, <3>2, <3>3, <3>5
      <4>2. Found(low, high) = Found(mid + 1, high)
        BY <3>1, <3>4, <4>1, NotLessOne
      <4>3. Found(low, high) = f[<< mid + 1, high >>]
        BY <1>3, <3>3, <4>2
      <4>4. SearchIndexVal(lex, mid) < val
        BY <3>5 DEF Index
      <4> HIDE DEF f
      <4> QED  BY <2>2, <4>3, <4>4 DEF mid
    <3>6. CASE ~(Index(lex, mid) < val)
      <4>1. NotLess(lex, val, low, high, Found(low, mid))
        BY <1>2, <3>2, <3>3, <3>6
      <4>2. Found(low, high) = Found(low, mid)
        BY <3>1, <3>4, <4>1, NotLessOne
      <4>3. Found(low, high) = f[<< low, mid >>]
        BY <1>3, <3>2, <4>2
      <4>4. ~(SearchIndexVal(lex, mid) < val)
        BY <3>6 DEF Index
      <4> HIDE DEF f
      <4> QED  BY <2>2, <4>3, <4>4 DEF mid
    <3> QED  BY <3>5, <3>6
  <2> QED  BY <2>1, <2>2
<1> DEFINE Step(low, high) ==
             LET mid == (low + high) \div 2
             IN IF low >= high THEN low
                ELSE IF SearchIndexVal(lex, mid) < val THEN f[<< mid + 1, high >>]
                ELSE f[<< low, mid >>]
<1>5. \A low, high \in 0 .. N : Found(low, high) = Step(low, high)
  BY <1>4
<1>6. f = [bounds \in (0 .. N) \X (0 .. N) |-> Step(bounds[1], bounds[2])]
  <2> DEFINE Bounds == (0 .. N) \X (0 .. N)
  <2>1. \A bounds \in Bounds : Found(bounds[1], bounds[2]) = Step(bounds[1], bounds[2])
    <3> HIDE DEF Step, f
    <3> SUFFICES ASSUME NEW bounds \in Bounds PROVE Found(bounds[1], bounds[2]) = Step(bounds[1], bounds[2])
      OBVIOUS
    <3>1. bounds[1] \in 0 .. N /\ bounds[2] \in 0 .. N
      OBVIOUS
    <3> QED  BY <1>5, <3>1
  <2> HIDE DEF Bounds
  <2>2. f = [bounds \in Bounds |-> Found(bounds[1], bounds[2])]
    BY DEF Bounds
  <2>3. f = [bounds \in Bounds |-> Step(bounds[1], bounds[2])]
    <3> DEFINE g == [bounds \in Bounds |-> Found(bounds[1], bounds[2])]
               h == [bounds \in Bounds |-> Step(bounds[1], bounds[2])]
    <3>1. g = h
      <4> HIDE DEF Found, Step, f
      <4> QED  BY <2>1
    <3> HIDE DEF Step, f, g, h
    <3>2. f = g
      BY <2>2 DEF g
    <3>3. f = h
      BY <3>1, <3>2
    <3> QED  BY <3>3 DEF h
  <2> QED  BY <2>3 DEF Bounds
<1>8. IsSearch(f, lex, val)
  <2> HIDE DEF f
  <2> QED  BY <1>6 DEF IsSearch
<1> QED  BY <1>8

LEMMA SearchIs ==
  ASSUME NEW lex, WellFormed(lex), NEW val \in Nat
  PROVE  NotLess(lex, val, 0, NrBlocks(lex), SearchFrom(lex, val))
<1> DEFINE N == NrBlocks(lex)
           f == CHOOSE g : IsSearch(g, lex, val)
<1>1. N \in Nat /\ Filled(lex)
  BY WellFormedIs, LayOut
<1>2. SearchFrom(lex, val) = f[<< 0, N >>]
  BY DEF SearchFrom, IsSearch
<1>3. IsSearch(f, lex, val)
  BY SearchExists
<1> HIDE DEF f
<1>4. ASSUME NEW low \in 0 .. N, NEW high \in 0 .. N
      PROVE  f[<< low, high >>] =
               LET mid == (low + high) \div 2
               IN IF low >= high THEN low
                  ELSE IF SearchIndexVal(lex, mid) < val THEN f[<< mid + 1, high >>]
                  ELSE f[<< low, mid >>]
  BY <1>3 DEF IsSearch
<1> DEFINE Right(low, high) == NotLess(lex, val, low, high, f[<< low, high >>])
           T == {d \in 0 .. N : \A high \in 0 .. N : \A low \in 0 .. high : high - low <= d => Right(low, high)}
<1>5. 0 \in T
  <2> SUFFICES ASSUME NEW high \in 0 .. N, NEW low \in 0 .. high, high - low <= 0 PROVE Right(low, high)
    BY <1>1
  <2>1. low = high /\ low \in 0 .. N /\ low >= high
    BY <1>1
  <2>2. f[<< low, high >>] = low
    BY <1>4, <2>1
  <2> QED  BY <1>1, <2>1, <2>2 DEF NotLess
<1>6. ASSUME NEW d \in 1 .. N, d - 1 \in T PROVE d \in T
  <2> SUFFICES ASSUME NEW high \in 0 .. N, NEW low \in 0 .. high, high - low <= d PROVE Right(low, high)
    BY <1>1
  <2>1. \A h \in 0 .. N : \A l \in 0 .. h : h - l <= d - 1 => Right(l, h)
    BY <1>6
  <2> HIDE DEF T, Right
  <2> DEFINE mid == (low + high) \div 2
  <2>2. CASE low >= high
    <3>1. high - low <= d - 1
      BY <1>1, <2>2
    <3> QED  BY <2>1, <3>1
  <2>3. CASE ~(low >= high)
    <3>1. low < high /\ low \in 0 .. N
      BY <1>1, <2>3
    <3>2. /\ mid \in low .. high - 1 /\ mid + 1 \in 0 .. high /\ mid \in 0 .. N /\ low \in 0 .. mid
          /\ mid + 1 \in low + 1 .. high
          /\ Index(lex, mid) < val =>
               \A k : NotLess(lex, val, mid + 1, high, k) => NotLess(lex, val, low, high, k)
          /\ ~(Index(lex, mid) < val) =>
               \A k : NotLess(lex, val, low, mid, k) => NotLess(lex, val, low, high, k)
      BY <3>1, Halves
    <3>3. f[<< low, high >>] = IF Index(lex, mid) < val THEN f[<< mid + 1, high >>] ELSE f[<< low, mid >>]
      BY <1>4, <2>3, <3>1 DEF Index
    <3> HIDE DEF mid
    <3>4. high - (mid + 1) <= d - 1 /\ mid - low <= d - 1
      BY <1>1, <3>2
    <3>5. Right(mid + 1, high) /\ Right(low, mid)
      BY <2>1, <3>2, <3>4
    <3> QED  BY <3>2, <3>3, <3>5 DEF Right
  <2> QED  BY <2>2, <2>3
<1>7. N \in T
  <2>1. 0 .. N \subseteq T
    <3> HIDE DEF T
    <3> QED  BY <1>1, <1>5, <1>6, UpTo
  <2>2. N \in 0 .. N
    BY <1>1
  <2> QED  BY <2>1, <2>2
<1>8. Right(0, N)
  <2>1. N \in 0 .. N /\ 0 \in 0 .. N /\ N - 0 <= N
    BY <1>1
  <2> HIDE DEF Right
  <2> QED  BY <1>7, <2>1
<1> QED  BY <1>2, <1>8

-----------------------------------------------------------------------------
(* The blocks that are walked through have all entries of the word.         *)
LEMMA RangeIs ==
  ASSUME NEW lex, WellFormed(lex), NEW nr \in 0 .. NrBlocks(lex) - 1
  PROVE  LET count == LexblockRange(lex, nr)
         IN /\ count \in 1 .. NrBlocks(lex) - nr
            /\ \A i \in 0 .. count - 1 : Index(lex, nr + i) = Index(lex, nr)
            /\ Index(lex, nr + count) # Index(lex, nr)
<1> DEFINE N == NrBlocks(lex)
           T == {c \in 1 .. N - nr : Index(lex, nr + c) # Index(lex, nr)}
           IsRange(c) ==
             /\ \A i \in 0 .. c - 1 : SearchIndexVal(lex, nr + i) = SearchIndexVal(lex, nr)
             /\ SearchIndexVal(lex, nr + c) # SearchIndexVal(lex, nr)
<1>1. N \in Nat /\ Filled(lex)
  BY WellFormedIs, LayOut
<1>2. nr \in Nat /\ N > 0 /\ nr <= N - 1 /\ N - 1 \in 0 .. N - 1 /\ N - nr \in 1 .. N - nr /\ nr + (N - nr) = N
      /\ (N - 1) + 1 = N
  BY <1>1
<1>3. T # {}
  <2>1. Index(lex, N) # Index(lex, N - 1)
    <3>1. SearchIndexVal(lex, N) # lex.index[N]
      BY <1>2, WellFormedIs
    <3>2. Index(lex, N - 1) = lex.index[N]
      <4> DEFINE last == N - 1
      <4>1. last \in 0 .. NrBlocks(lex) - 1 /\ last + 1 = N
        BY <1>2
      <4> HIDE DEF last, N
      <4>2. Index(lex, last) = lex.index[last + 1]
        BY <4>1, IndexIs
      <4> QED  BY <4>1, <4>2 DEF last
    <3> QED  BY <3>1, <3>2 DEF Index
  <2>2. CASE Index(lex, N - 1) = Index(lex, nr)
    <3>1. N - nr \in T
      BY <1>2, <2>1, <2>2
    <3> QED  BY <3>1
  <2>3. CASE Index(lex, N - 1) # Index(lex, nr)
    <3>1. nr # N - 1
      BY <2>3
    <3>2. N - 1 - nr \in 1 .. N - nr /\ nr + (N - 1 - nr) = N - 1
      BY <1>2, <3>1
    <3>3. N - 1 - nr \in T
      BY <2>3, <3>2
    <3> QED  BY <3>3
  <2> QED  BY <2>2, <2>3
<1>4. PICK c \in T : \A k \in T : c <= k
  <2>1. T \subseteq Nat
    BY <1>1, <1>2
  <2> HIDE DEF T
  <2> QED  BY <1>3, <2>1, LeastMember
<1>5. c \in 1 .. N - nr
  BY <1>4
<1>6. IsRange(c)
  <2>1. SearchIndexVal(lex, nr + c) # SearchIndexVal(lex, nr)
    BY <1>4 DEF Index
  <2>2. ASSUME NEW i \in 0 .. c - 1 PROVE SearchIndexVal(lex, nr + i) = SearchIndexVal(lex, nr)
    <3>1. CASE i = 0
      BY <1>2, <3>1
    <3>2. CASE i # 0
      <4>1. i \in 1 .. N - nr /\ ~(c <= i)
        BY <1>1, <1>2, <1>5, <3>2
      <4>2. i \notin T
        BY <1>4, <4>1
      <4> QED  BY <4>1, <4>2 DEF Index
    <3> QED  BY <3>1, <3>2
  <2> QED  BY <2>1, <2>2
<1> HIDE DEF T, IsRange
<1> DEFINE count == CHOOSE k \in 1 .. N - nr : IsRange(k)
<1>7. count \in 1 .. N - nr /\ IsRange(count)
  BY <1>5, <1>6
<1>8. LexblockRange(lex, nr) = count
  BY DEF LexblockRange, IsRange
<1> QED  BY <1>7, <1>8 DEF IsRange, Index

LEMMA FirstSameIs ==
  ASSUME NEW lex, WellFormed(lex), NEW i \in 0 .. NrBlocks(lex) - 1
  PROVE  /\ FirstSame(lex, i) \in 0 .. i
         /\ \A j \in FirstSame(lex, i) .. i : Index(lex, j) = Index(lex, i)
<1> DEFINE N == NrBlocks(lex)
           T == {k \in 0 .. i : Index(lex, k) = Index(lex, i)}
           IsFirst(k) ==
             /\ \A j \in k .. i : SearchIndexVal(lex, j) = SearchIndexVal(lex, i)
             /\ k > 0 => SearchIndexVal(lex, k - 1) # SearchIndexVal(lex, i)
<1>1. N \in Nat /\ Filled(lex)
  BY WellFormedIs, LayOut
<1>2. i \in Nat /\ i <= N - 1 /\ T \subseteq Nat /\ i \in T
  BY <1>1
<1>3. PICK k \in T : \A j \in T : k <= j
  <2> HIDE DEF T
  <2> QED  BY <1>2, LeastMember
<1>4. k \in 0 .. i /\ Index(lex, k) = Index(lex, i)
  BY <1>3
<1>5. IsFirst(k)
  <2>1. ASSUME NEW j \in k .. i PROVE SearchIndexVal(lex, j) = SearchIndexVal(lex, i)
    <3>1. k \in 0 .. N - 1 /\ j \in k .. N - 1 /\ j \in 0 .. N - 1 /\ i \in j .. N - 1
      BY <1>1, <1>2, <1>4
    <3>2. Index(lex, k) <= Index(lex, j) /\ Index(lex, j) <= Index(lex, i)
      BY <3>1, IndexInOrder
    <3>3. Index(lex, k) \in Nat /\ Index(lex, j) \in Nat /\ Index(lex, i) \in Nat
      BY <3>1, IndexIs
    <3>4. Index(lex, j) = Index(lex, i)
      BY <1>4, <3>2, <3>3
    <3> QED  BY <3>4 DEF Index
  <2>2. ASSUME k > 0 PROVE SearchIndexVal(lex, k - 1) # SearchIndexVal(lex, i)
    <3>1. k - 1 \in 0 .. i /\ ~(k <= k - 1)
      BY <1>2, <1>4, <2>2
    <3>2. k - 1 \notin T
      BY <1>3, <3>1
    <3> QED  BY <3>1, <3>2 DEF Index
  <2> QED  BY <2>1, <2>2
<1> HIDE DEF T, IsFirst
<1> DEFINE first == CHOOSE m \in 0 .. i : IsFirst(m)
<1>6. first \in 0 .. i /\ IsFirst(first)
  BY <1>4, <1>5
<1>7. FirstSame(lex, i) = first
  BY DEF FirstSame, IsFirst
<1> QED  BY <1>6, <1>7 DEF IsFirst, Index

\* The prefix of a word is not less than the index of its block and not more
\* than that of the next one.
LEMMA Between ==
  ASSUME NEW lex, WellFormed(lex), NEW n, NEW b, InBlock(lex, n, b)
  PROVE  /\ n \in 1 .. Count(lex) /\ Index(lex, b) <= Val(lex, n) /\ Val(lex, n) \in Nat
         /\ Block(lex, n) = b
         /\ b + 1 < NrBlocks(lex) => Val(lex, n) <= Index(lex, b + 1)
         /\ b + 1 < NrBlocks(lex) /\ Index(lex, b) < Val(lex, n) => Val(lex, n) < Index(lex, b + 1)
<1> DEFINE N == NrBlocks(lex)
<1>1. N \in Nat /\ Filled(lex) /\ Count(lex) \in Nat
  BY WellFormedIs, LayOut
<1>2. b \in 0 .. N - 1 /\ n \in 1 .. Count(lex) /\ Block(lex, n) = b
  BY <1>1, InBlockIs DEF InBlock, Block
<1>3. Val(lex, n) \in Nat
  BY <1>1, <1>2, WordIs
<1>4. Index(lex, b) <= Val(lex, n)
  <2>1. Index(lex, b) = IF b = 0 THEN 0 ELSE Val(lex, First(lex, b))
    BY <1>2, IndexIs
  <2>2. First(lex, b) \in 1 .. Count(lex) /\ n \in First(lex, b) .. Count(lex)
    <3>1. First(lex, b) \in 1 .. Count(lex)
      BY <1>1, <1>2, FirstIs
    <3>2. n >= First(lex, b)
      <4>1. LaidBefore(lex, b) \in Nat
        <5>1. b \in 0 .. NrBlocks(lex)
          BY <1>1, <1>2
        <5> QED  BY <1>1, <5>1, LayOut
      <4>2. n \in LaidBefore(lex, b) + 1 .. LaidBefore(lex, b + 1)
        BY DEF InBlock
      <4> QED  BY <4>1, <4>2 DEF First
    <3> QED  BY <1>1, <1>2, <3>1, <3>2
  <2>3. Val(lex, First(lex, b)) <= Val(lex, n)
    BY <2>2, ValInOrder
  <2> QED  BY <1>3, <2>1, <2>3
<1>5. ASSUME b + 1 < N
      PROVE  /\ Val(lex, n) <= Index(lex, b + 1)
             /\ Index(lex, b) < Val(lex, n) => Val(lex, n) < Index(lex, b + 1)
  <2> DEFINE next == b + 1
             m == LaidBefore(lex, next)
  <2>1. next \in 0 .. N - 1 /\ next \in 0 .. N /\ next # 0
    BY <1>1, <1>2, <1>5
  <2> HIDE DEF N
  <2>2. m \in Nat /\ n \in 1 .. m
    <3>1. m \in Nat
      BY <1>1, <2>1, LayOut DEF N
    <3>2. n \in LaidBefore(lex, b) + 1 .. m /\ n \in 1 .. Count(lex)
      BY <1>2 DEF InBlock
    <3> QED  BY <3>1, <3>2
  <2>3. First(lex, next) = m + 1 /\ m + 1 \in 1 .. Count(lex) /\ InBlock(lex, m + 1, next)
    <3>1. First(lex, next) = m + 1
      BY DEF First
    <3> HIDE DEF m, next
    <3> QED  BY <1>1, <2>1, <3>1, FirstIs DEF N
  <2> HIDE DEF m
  <2>4. Index(lex, next) = Val(lex, m + 1) /\ Index(lex, next) \in Nat
    <3> HIDE DEF next
    <3> QED  BY <2>1, <2>3, IndexIs DEF N
  <2>5. m \in n .. Count(lex) /\ m + 1 \in n .. Count(lex) /\ m \in 1 .. Count(lex) - 1 /\ m \in 1 .. Count(lex)
        /\ m + 1 \in m .. Count(lex)
    BY <1>1, <1>2, <2>2, <2>3
  <2>6. Val(lex, n) <= Val(lex, m + 1) /\ Val(lex, n) <= Val(lex, m) /\ Val(lex, m) <= Val(lex, m + 1)
    BY <1>2, <2>5, ValInOrder
  <2>7. ASSUME Index(lex, b) < Val(lex, n), Val(lex, n) = Val(lex, m + 1) PROVE FALSE
    <3>1. Val(lex, m) = Val(lex, m + 1)
      <4>1. Val(lex, m) \in Nat /\ Val(lex, m + 1) \in Nat
        BY <1>1, <2>3, <2>5, WordIs
      <4> QED  BY <1>3, <2>6, <2>7, <4>1
    <3>2. Block(lex, m) = b
      <4>1. InBlock(lex, m, b)
        <5>1. m \in LaidBefore(lex, b) + 1 .. LaidBefore(lex, b + 1)
          <6>1. n \in LaidBefore(lex, b) + 1 .. LaidBefore(lex, b + 1) /\ LaidBefore(lex, b) \in Nat
            <7>1. b \in 0 .. NrBlocks(lex)
              BY <1>1, <1>2 DEF N
            <7> QED  BY <1>1, <7>1, LayOut DEF InBlock
          <6>2. m = LaidBefore(lex, b + 1)
            BY DEF m
          <6> QED  BY <2>2, <6>1, <6>2
        <5> QED  BY <1>2, <5>1 DEF InBlock, N
      <4> QED  BY <1>1, <4>1, InBlockIs DEF Block
    <3>3. Block(lex, m + 1) = next
      BY <1>1, <2>3, InBlockIs DEF Block
    <3>4. Block(lex, m) # Block(lex, m + 1)
      BY <1>2, <3>2, <3>3
    <3>5. lex.index[Block(lex, m) + 1] = Val(lex, m)
      BY <2>5, <3>1, <3>4, WellFormedIs
    <3>6. lex.index[b + 1] = Val(lex, m)
      BY <3>2, <3>5
    <3>7. Index(lex, b) = lex.index[b + 1] /\ Index(lex, b) \in Nat
      BY <1>2, IndexIs DEF N
    <3> QED  BY <1>3, <2>7, <3>1, <3>6, <3>7
  <2> QED  BY <1>3, <2>4, <2>6, <2>7
<1> QED  BY <1>2, <1>3, <1>4, <1>5

LEMMA BlocksFound ==
  ASSUME NEW lex, WellFormed(lex), NrBlocks(lex) # 0, NEW graph \in Spellings
  PROVE  LET nr == LexblockNr(lex, graph)
             count == LexblockRange(lex, nr)
         IN /\ nr \in 0 .. NrBlocks(lex) - 1 /\ count \in 1 .. NrBlocks(lex) - nr
            /\ \A n \in 1 .. Count(lex) :
                 WordAt(lex, n) = graph => n \in LaidBefore(lex, nr) + 1 .. LaidBefore(lex, nr + count)
<1> DEFINE N == NrBlocks(lex)
           val == GraphVal(graph)
           low == SearchFrom(lex, val)
           nr == LexblockNr(lex, graph)
           count == LexblockRange(lex, nr)
<1>1. N \in Nat /\ Filled(lex) /\ val \in Nat /\ N > 0
  <2>1. N \in Nat /\ Filled(lex) /\ val \in Nat
    BY WellFormedIs, LayOut, GraphValNat
  <2> QED  BY <2>1
<1>2. /\ low \in 0 .. N
      /\ \A i \in 0 .. low - 1 : Index(lex, i) < val
      /\ \A i \in low .. N - 1 : Index(lex, i) >= val
  BY <1>1, SearchIs DEF NotLess
<1>3. nr = IF low = N THEN low - 1
           ELSE IF Index(lex, low) > val THEN FirstSame(lex, low - 1)
           ELSE low
  BY DEF LexblockNr, Index
<1> HIDE DEF low, nr, val, N
<1>4. \A i \in 0 .. N - 1 : Index(lex, i) \in Nat
  BY IndexIs DEF N
<1>5. ASSUME low < N, Index(lex, low) > val
      PROVE  /\ low - 1 \in 0 .. N - 1 /\ nr \in 0 .. low - 1
             /\ \A j \in nr .. low - 1 : Index(lex, j) = Index(lex, low - 1)
  <2>1. low # 0
    <3> SUFFICES ASSUME low = 0 PROVE FALSE
      OBVIOUS
    <3>1. 0 \in 0 .. NrBlocks(lex) - 1
      BY <1>1 DEF N
    <3>2. Index(lex, 0) = 0
      BY <3>1, IndexIs
    <3> QED  BY <1>1, <1>5, <3>2
  <2> DEFINE last == low - 1
  <2>2. last \in 0 .. N - 1
    BY <1>1, <1>2, <2>1
  <2>3. nr = FirstSame(lex, last)
    BY <1>1, <1>2, <1>3, <1>5
  <2> HIDE DEF last
  <2>4. nr \in 0 .. last /\ \A j \in nr .. last : Index(lex, j) = Index(lex, last)
    BY <2>2, <2>3, FirstSameIs DEF N
  <2> QED  BY <2>2, <2>4 DEF last
<1>6. nr \in 0 .. N - 1
  <2>1. CASE low = N
    BY <1>1, <1>2, <1>3, <2>1
  <2>2. CASE low # N /\ Index(lex, low) > val
    BY <1>1, <1>2, <1>5, <2>2
  <2>3. CASE low # N /\ ~(Index(lex, low) > val)
    BY <1>1, <1>2, <1>3, <2>3
  <2> QED  BY <2>1, <2>2, <2>3
<1>7. /\ count \in 1 .. N - nr
      /\ \A i \in 0 .. count - 1 : Index(lex, nr + i) = Index(lex, nr)
      /\ Index(lex, nr + count) # Index(lex, nr)
  BY <1>6, RangeIs DEF N
<1> HIDE DEF count
<1>8. ASSUME NEW n \in 1 .. Count(lex), WordAt(lex, n) = graph, NEW b, InBlock(lex, n, b)
      PROVE  b \in nr .. nr + count - 1
  <2>1. b \in 0 .. N - 1
    BY <1>8 DEF InBlock, N
  <2>2. Val(lex, n) = val
    BY <1>8 DEF Val, val
  <2>3. /\ Index(lex, b) <= val
        /\ b + 1 < N => val <= Index(lex, b + 1)
        /\ b + 1 < N /\ Index(lex, b) < val => val < Index(lex, b + 1)
    BY <1>8, <2>2, Between DEF N
  <2>4. Index(lex, b) \in Nat
    BY <1>4, <2>1
  <2>5. \A i \in 0 .. N - 1 : Index(lex, i) < val => i <= b + 1
    <3> SUFFICES ASSUME NEW i \in 0 .. N - 1, Index(lex, i) < val, i > b + 1 PROVE FALSE
      BY <1>1, <2>1
    <3>1. b + 1 < N /\ b + 1 \in 0 .. N - 1 /\ i \in b + 1 .. N - 1
      BY <1>1, <2>1
    <3>2. Index(lex, b + 1) <= Index(lex, i)
      BY <3>1, IndexInOrder DEF N
    <3>3. Index(lex, b + 1) \in Nat /\ Index(lex, i) \in Nat
      BY <1>4, <3>1
    <3> QED  BY <1>1, <2>3, <3>1, <3>2, <3>3
  <2>6. low - 1 <= b \/ low = 0
    <3> SUFFICES ASSUME low # 0, b < low - 1 PROVE FALSE
      BY <1>1, <1>2, <2>1
    <3>1. b + 1 \in 0 .. low - 1 /\ b + 1 < N /\ b + 1 \in 0 .. N - 1
      BY <1>1, <1>2, <2>1
    <3>2. Index(lex, b + 1) < val /\ Index(lex, b + 1) \in Nat
      BY <1>2, <1>4, <3>1
    <3> QED  BY <1>1, <2>3, <3>1, <3>2
  <2>7. CASE low = N
    <3>1. nr = N - 1 /\ count = 1
      BY <1>1, <1>3, <1>7, <2>7
    <3>2. b = N - 1
      BY <1>1, <2>1, <2>6, <2>7
    <3> QED  BY <1>1, <3>1, <3>2
  <2>8. CASE low # N /\ Index(lex, low) > val
    <3>1. low < N /\ low \in 0 .. N - 1
      BY <1>1, <1>2, <2>8
    <3>2. ~(b >= low)
      <4> SUFFICES ASSUME b >= low PROVE FALSE
        OBVIOUS
      <4>1. b \in low .. N - 1
        BY <1>1, <2>1, <3>1
      <4>2. Index(lex, low) <= Index(lex, b) /\ Index(lex, low) \in Nat
        BY <1>4, <3>1, <4>1, IndexInOrder DEF N
      <4> QED  BY <1>1, <2>3, <2>4, <2>8, <4>2
    <3>3. b = low - 1
      BY <1>1, <2>1, <2>6, <3>1, <3>2
    <3>4. nr \in 0 .. b /\ \A j \in nr .. b : Index(lex, j) = Index(lex, b)
      BY <1>5, <2>8, <3>1, <3>3
    <3>5. ~(nr + count <= b)
      <4> SUFFICES ASSUME nr + count <= b PROVE FALSE
        OBVIOUS
      <4>1. nr + count \in nr .. b /\ nr \in nr .. b
        BY <1>1, <1>6, <1>7, <2>1, <3>4
      <4>2. Index(lex, nr + count) = Index(lex, nr)
        BY <3>4, <4>1
      <4> QED  BY <1>7, <4>2
    <3> QED  BY <1>1, <1>6, <1>7, <2>1, <3>4, <3>5
  <2>9. CASE low # N /\ ~(Index(lex, low) > val)
    <3>1. low < N /\ low \in 0 .. N - 1 /\ nr = low
      BY <1>1, <1>2, <1>3, <2>9
    <3>2. Index(lex, low) = val
      <4>1. low \in low .. N - 1
        BY <1>1, <3>1
      <4>2. Index(lex, low) >= val /\ Index(lex, low) \in Nat
        BY <1>2, <1>4, <3>1, <4>1
      <4> QED  BY <1>1, <2>9, <4>2
    <3>3. b >= low
      <4> SUFFICES ASSUME b < low PROVE FALSE
        BY <1>1, <2>1, <3>1
      <4>1. b \in 0 .. low - 1 /\ low = b + 1
        BY <1>1, <2>1, <2>6, <3>1
      <4>2. Index(lex, b) < val
        BY <1>2, <4>1
      <4> QED  BY <1>1, <2>3, <3>1, <3>2, <4>1, <4>2
    <3>4. ~(b >= nr + count)
      <4> SUFFICES ASSUME b >= nr + count PROVE FALSE
        OBVIOUS
      <4> DEFINE next == nr + count
      <4>1. next \in 0 .. N - 1 /\ b \in next .. N - 1 /\ nr \in 0 .. N - 1 /\ next \in nr .. N - 1
        BY <1>1, <1>6, <1>7, <2>1
      <4>2. Index(lex, next) # Index(lex, nr)
        BY <1>7
      <4> HIDE DEF next
      <4>3. Index(lex, next) <= Index(lex, b) /\ Index(lex, nr) <= Index(lex, next) /\ Index(lex, next) \in Nat
        BY <1>4, <4>1, IndexInOrder DEF N
      <4> QED  BY <1>1, <2>3, <2>4, <3>1, <3>2, <4>2, <4>3
    <3> QED  BY <1>1, <1>6, <1>7, <2>1, <3>1, <3>3, <3>4
  <2> QED  BY <2>7, <2>8, <2>9
<1>9. ASSUME NEW n \in 1 .. Count(lex), WordAt(lex, n) = graph
      PROVE  n \in LaidBefore(lex, nr) + 1 .. LaidBefore(lex, nr + count)
  <2>1. PICK b : InBlock(lex, n, b)
    BY <1>1, HasBlock
  <2>2. b \in nr .. nr + count - 1
    BY <1>8, <1>9, <2>1
  <2>3. b \in 0 .. N - 1 /\ n \in LaidBefore(lex, b) + 1 .. LaidBefore(lex, b + 1)
    BY <2>1 DEF InBlock, N
  <2> DEFINE next == nr + count
             after == b + 1
  <2>4. nr \in 0 .. N /\ b \in 0 .. N /\ next \in 0 .. N /\ after \in 0 .. N /\ nr <= b /\ after <= next
    BY <1>1, <1>6, <1>7, <2>2, <2>3
  <2> HIDE DEF next, after
  <2>5. /\ LaidBefore(lex, nr) <= LaidBefore(lex, b) /\ LaidBefore(lex, after) <= LaidBefore(lex, next)
        /\ LaidBefore(lex, nr) \in Nat /\ LaidBefore(lex, b) \in Nat /\ LaidBefore(lex, next) \in Nat /\ LaidBefore(lex, after) \in Nat
    BY <1>1, <2>4, LayOut DEF N
  <2>6. n \in LaidBefore(lex, b) + 1 .. LaidBefore(lex, after)
    BY <2>3 DEF after
  <2>7. n \in LaidBefore(lex, nr) + 1 .. LaidBefore(lex, next)
    BY <2>5, <2>6
  <2> QED  BY <2>7 DEF next
<1> QED  BY <1>6, <1>7, <1>9 DEF nr, count, N

-----------------------------------------------------------------------------
(* The entries of a word follow each other.                                 *)
LEMMA AppendIs ==
  ASSUME NEW S, NEW m \in Nat, NEW t, \A k \in 1 .. m + 1 : t[k] \in S
  PROVE  Append([k \in 1 .. m |-> t[k]], t[m + 1]) = [k \in 1 .. m + 1 |-> t[k]]
<1> DEFINE s == [k \in 1 .. m |-> t[k]]
           u == [k \in 1 .. m + 1 |-> t[k]]
           e == t[m + 1]
<1>1. s \in Seq(S) /\ Len(s) = m /\ e \in S /\ \A k \in 1 .. m : s[k] = t[k]
  <2>1. m + 1 \in 1 .. m + 1 /\ \A k \in 1 .. m : k \in 1 .. m + 1
    OBVIOUS
  <2>2. s \in [1 .. m -> S]
    BY <2>1
  <2>3. s \in Seq(S)
    BY <2>2
  <2> QED  BY <2>1, <2>2, <2>3
<1>2. u \in Seq(S) /\ Len(u) = m + 1 /\ \A k \in 1 .. m + 1 : u[k] = t[k]
  <2>1. u \in [1 .. m + 1 -> S]
    OBVIOUS
  <2>2. u \in Seq(S)
    BY <2>1
  <2> QED  BY <2>1, <2>2
<1> HIDE DEF s, u
<1>3. Append(s, e) \in Seq(S) /\ Len(Append(s, e)) = m + 1 /\ Append(s, e)[m + 1] = e
      /\ \A k \in 1 .. m : Append(s, e)[k] = s[k]
  <2> HIDE DEF e
  <2> QED  BY <1>1
<1>4. \A k \in 1 .. m + 1 : Append(s, e)[k] = u[k]
  <2> SUFFICES ASSUME NEW k \in 1 .. m + 1 PROVE Append(s, e)[k] = u[k]
    OBVIOUS
  <2>1. CASE k = m + 1
    BY <1>2, <1>3, <2>1
  <2>2. CASE k # m + 1
    <3>1. k \in 1 .. m
      BY <2>2
    <3> QED  BY <1>1, <1>2, <1>3, <3>1
  <2> QED  BY <2>1, <2>2
<1>5. Append(s, e) = u
  <2> HIDE DEF e
  <2> QED  BY <1>2, <1>3, <1>4, SeqEqual
<1> QED  BY <1>5 DEF s, u

IsFound(f, all, graph) ==
  f = [n \in 0 .. Len(all) |->
        IF n = 0 THEN << >>
        ELSE IF all[n].entry.graph = graph THEN Append(f[n - 1], all[n])
        ELSE f[n - 1]]

LEMMA FoundExists ==
  ASSUME NEW all \in Seq(Located), NEW graph
  PROVE  \E f : IsFound(f, all, graph)
<1> DEFINE n == Len(all)
           Longer(i, s) == IF all[i].entry.graph = graph THEN Append(s, all[i]) ELSE s
           step == [p \in (1 .. n) \X Seq(Located) |-> Longer(p[1], p[2])]
<1>1. n \in Nat /\ << >> \in Seq(Located)
  OBVIOUS
<1>2. \A i \in 1 .. n : all[i] \in Located
  BY ElementOfSeq
<1> HIDE DEF n
<1>3. step \in [(1 .. n) \X Seq(Located) -> Seq(Located)]
  <2> SUFFICES ASSUME NEW p \in (1 .. n) \X Seq(Located) PROVE Longer(p[1], p[2]) \in Seq(Located)
    OBVIOUS
  <2>1. p[1] \in 1 .. n /\ p[2] \in Seq(Located)
    OBVIOUS
  <2>2. all[p[1]] \in Located
    BY <1>2, <2>1
  <2>3. Append(p[2], all[p[1]]) \in Seq(Located)
    BY <2>1, <2>2
  <2> QED  BY <2>1, <2>3
<1>4. PICK f \in [0 .. n -> Seq(Located)] : Recurs(f, << >>, step, n)
  <2> HIDE DEF step
  <2>1. \E f \in [0 .. n -> Seq(Located)] : Recurs(f, << >>, step, n)
    BY <1>1, <1>3, RecursionExists
  <2> QED  BY <2>1
<1> HIDE DEF Longer
<1>5. \A i \in 0 .. n : f[i] = IF i = 0 THEN << >> ELSE Longer(i, f[i - 1])
  <2> SUFFICES ASSUME NEW i \in 0 .. n PROVE f[i] = IF i = 0 THEN << >> ELSE Longer(i, f[i - 1])
    OBVIOUS
  <2>1. CASE i = 0
    BY <1>4, <2>1 DEF Recurs
  <2>2. CASE i # 0
    <3>1. i \in 1 .. n /\ i - 1 \in 0 .. n
      BY <1>1, <2>2
    <3>2. f[i - 1] \in Seq(Located)
      BY <1>4, <3>1
    <3> DEFINE p == << i, f[i - 1] >>
    <3>3. p \in (1 .. n) \X Seq(Located) /\ p[1] = i /\ p[2] = f[i - 1]
      BY <3>1, <3>2
    <3>4. f[i] = step[p]
      BY <1>4, <3>1 DEF Recurs
    <3> HIDE DEF p
    <3>5. step[p] = Longer(p[1], p[2])
      BY <3>3
    <3> QED  BY <2>2, <3>3, <3>4, <3>5
  <2> QED  BY <2>1, <2>2
<1>6. f = [i \in 0 .. n |-> IF i = 0 THEN << >> ELSE Longer(i, f[i - 1])]
  BY <1>4, <1>5
<1> QED  BY <1>6 DEF IsFound, Longer, n

\* When the places of a word are the size ones from first on, these entries are found.
EntriesAt(all, first, size) == [k \in 1 .. size |-> all[first + k - 1]]
LEMMA EntriesOfAre ==
  ASSUME NEW lex, Filled(lex), NEW graph, NEW first \in Nat \ {0}, NEW size \in Nat,
         first + size - 1 <= Count(lex),
         \A n \in 1 .. Count(lex) : WordAt(lex, n) = graph <=> first <= n /\ n < first + size
  PROVE  EntriesOf(lex, graph) = EntriesAt(AllEntries(lex), first, size)
<1> DEFINE all == AllEntries(lex)
           N == Len(all)
           f == CHOOSE g : IsFound(g, all, graph)
           t == [k \in 1 .. size |-> all[first + k - 1]]
           Cut(n) == IF n < first THEN 0 ELSE IF n < first + size THEN n - first + 1 ELSE size
           T == {n \in 0 .. N : f[n] = [k \in 1 .. Cut(n) |-> t[k]]}
<1>1. all \in Seq(Located) /\ N \in Nat /\ N = Count(lex)
  <2>1. all \in Seq(Located)
    BY LayOut
  <2> HIDE DEF all
  <2> QED  BY <2>1 DEF Count, all
<1>2. EntriesOf(lex, graph) = f[N]
  BY DEF EntriesOf, IsFound
<1>3. IsFound(f, all, graph)
  <2> HIDE DEF all
  <2> QED  BY <1>1, FoundExists
<1> HIDE DEF f, all
<1>4. \A n \in 0 .. N :
        f[n] = IF n = 0 THEN << >>
               ELSE IF all[n].entry.graph = graph THEN Append(f[n - 1], all[n])
               ELSE f[n - 1]
  BY <1>3 DEF IsFound
<1>5. \A n \in 1 .. N : all[n].entry.graph = graph <=> first <= n /\ n < first + size
  BY <1>1 DEF WordAt, all
<1>6. \A n \in 1 .. N : all[n] \in Located
  BY <1>1, ElementOfSeq
<1> HIDE DEF N
<1>7. \A k \in 1 .. size : t[k] = all[first + k - 1] /\ t[k] \in Located
  <2> SUFFICES ASSUME NEW k \in 1 .. size PROVE t[k] = all[first + k - 1] /\ t[k] \in Located
    OBVIOUS
  <2>1. first + k - 1 \in 1 .. N
    BY <1>1
  <2> QED  BY <1>6, <2>1
<1> HIDE DEF t
<1>8. 0 \in T
  <2>1. Cut(0) = 0 /\ 0 \in 0 .. N
    BY <1>1
  <2>2. f[0] = << >>
    BY <1>4, <2>1
  <2> HIDE DEF Cut
  <2> QED  BY <2>1, <2>2
<1>9. ASSUME NEW n \in 1 .. N, n - 1 \in T PROVE n \in T
  <2>1. n \in 0 .. N /\ n # 0 /\ n - 1 \in Nat /\ n \in Nat
    BY <1>1
  <2>2. f[n - 1] = [k \in 1 .. Cut(n - 1) |-> t[k]]
    BY <1>9
  <2>3. f[n] = IF all[n].entry.graph = graph THEN Append(f[n - 1], all[n]) ELSE f[n - 1]
    BY <1>4, <2>1
  <2> HIDE DEF T
  <2>4. CASE first <= n /\ n < first + size
    <3> DEFINE m == Cut(n - 1)
    <3>1. m = n - first /\ m \in Nat /\ m + 1 = Cut(n) /\ m + 1 \in 1 .. size /\ first + (m + 1) - 1 = n
      BY <2>1, <2>4
    <3> HIDE DEF m, Cut
    <3>2. f[n] = Append(f[n - 1], all[n])
      BY <1>5, <2>3, <2>4
    <3>3. all[n] = t[m + 1] /\ \A k \in 1 .. m + 1 : t[k] \in Located
      <4>1. \A k \in 1 .. m + 1 : k \in 1 .. size
        BY <3>1
      <4>2. t[m + 1] = all[first + (m + 1) - 1]
        BY <1>7, <3>1
      <4> QED  BY <1>7, <3>1, <4>1, <4>2
    <3>4. Append([k \in 1 .. m |-> t[k]], t[m + 1]) = [k \in 1 .. m + 1 |-> t[k]]
      BY <3>1, <3>3, AppendIs
    <3>5. f[n] = [k \in 1 .. m + 1 |-> t[k]]
      BY <2>2, <3>2, <3>3, <3>4 DEF m
    <3> QED  BY <2>1, <3>1, <3>5 DEF T
  <2>5. CASE ~(first <= n /\ n < first + size)
    <3>1. Cut(n) = Cut(n - 1)
      BY <2>1, <2>5
    <3> HIDE DEF Cut
    <3>2. f[n] = f[n - 1]
      BY <1>5, <2>3, <2>5
    <3>3. f[n] = [k \in 1 .. Cut(n) |-> t[k]]
      BY <2>2, <3>1, <3>2
    <3> QED  BY <2>1, <3>3 DEF T
  <2> QED  BY <2>4, <2>5
<1>10. N \in T
  <2>1. 0 .. N \subseteq T
    <3> HIDE DEF T
    <3> QED  BY <1>1, <1>8, <1>9, UpTo
  <2>2. N \in 0 .. N
    BY <1>1
  <2> QED  BY <2>1, <2>2
<1>11. Cut(N) = size
  BY <1>1
<1>12. f[N] = [k \in 1 .. size |-> t[k]]
  <2> HIDE DEF Cut
  <2> QED  BY <1>10, <1>11
<1>13. [k \in 1 .. size |-> t[k]] = EntriesAt(all, first, size)
  BY <1>7 DEF EntriesAt
<1> QED  BY <1>2, <1>12, <1>13 DEF all, N

LEMMA WordPlaces ==
  ASSUME NEW lex, WellFormed(lex), NEW graph
  PROVE  \E first \in Nat \ {0}, size \in Nat :
           /\ first + size - 1 <= Count(lex)
           /\ \A n \in 1 .. Count(lex) : WordAt(lex, n) = graph <=> first <= n /\ n < first + size
<1> DEFINE T == {n \in 1 .. Count(lex) : WordAt(lex, n) = graph}
           D == {Count(lex) - n : n \in T}
<1>1. Count(lex) \in Nat
  BY WellFormedIs
<1>2. CASE T = {}
  <2>1. 1 \in Nat \ {0} /\ 0 \in Nat /\ 1 + 0 - 1 <= Count(lex)
    BY <1>1
  <2>2. \A n \in 1 .. Count(lex) : WordAt(lex, n) = graph <=> 1 <= n /\ n < 1 + 0
    BY <1>1, <1>2
  <2> QED  BY <2>1, <2>2
<1>3. CASE T # {}
  <2>1. PICK first \in T : \A k \in T : first <= k
    <3>1. T \subseteq Nat
      BY <1>1
    <3> HIDE DEF T
    <3> QED  BY <1>3, <3>1, LeastMember
  <2>2. PICK rest \in D : \A k \in D : rest <= k
    <3>1. D \subseteq Nat
      BY <1>1
    <3>2. D # {}
      BY <1>3
    <3> HIDE DEF D
    <3> QED  BY <3>1, <3>2, LeastMember
  <2>3. PICK last \in T : rest = Count(lex) - last
    BY <2>2
  <2>4. \A k \in T : k <= last
    <3> SUFFICES ASSUME NEW k \in T PROVE k <= last
      OBVIOUS
    <3>1. Count(lex) - k \in D
      OBVIOUS
    <3>2. rest <= Count(lex) - k
      BY <2>2, <3>1
    <3> QED  BY <1>1, <2>3, <3>2
  <2>5. first \in 1 .. Count(lex) /\ last \in 1 .. Count(lex) /\ first <= last
    BY <2>1, <2>3
  <2> DEFINE size == last - first + 1
  <2>6. first \in Nat \ {0} /\ size \in Nat /\ first + size - 1 <= Count(lex) /\ first + size = last + 1
    BY <1>1, <2>5
  <2>7. ASSUME NEW n \in 1 .. Count(lex) PROVE WordAt(lex, n) = graph <=> first <= n /\ n < first + size
    <3>1. ASSUME WordAt(lex, n) = graph PROVE first <= n /\ n < first + size
      <4>1. n \in T
        BY <3>1
      <4>2. first <= n /\ n <= last
        BY <2>1, <2>4, <4>1
      <4> QED  BY <2>5, <2>6, <4>2
    <3>2. ASSUME first <= n, n < first + size PROVE WordAt(lex, n) = graph
      <4>1. WordAt(lex, first) = graph /\ WordAt(lex, last) = graph
        BY <2>1, <2>3
      <4>2. n \in first .. last
        BY <2>5, <2>6, <3>2
      <4>3. CASE first = last
        BY <2>5, <4>1, <4>2, <4>3
      <4>4. CASE first # last
        <5>1. first < last
          BY <2>5, <4>4
        <5>2. \A k \in first .. last : WordAt(lex, k) = WordAt(lex, first)
          BY <2>5, <4>1, <5>1, SameWord
        <5> QED  BY <4>1, <4>2, <5>2
      <4> QED  BY <4>3, <4>4
    <3> QED  BY <3>1, <3>2
  <2> HIDE DEF size
  <2> QED  BY <2>6, <2>7
<1> QED  BY <1>2, <1>3

-----------------------------------------------------------------------------
(* The walk through the entries of a block.                                 *)
Result == [pos : 0 .. 255, ind : Nat]
Results == [phonfound : BOOLEAN, res : Seq(Result)]
ResultOf(at) == [pos |-> at.entry.pos, ind |-> at.ind]
Smaller(m, n) == IF m < n THEN m ELSE n
IsMore(f, entries, n, graph, first) ==
  f = [k \in 0 .. Len(entries) - n |->
        IF k = 0 THEN first
        ELSE IF \/ Len(f[k - 1].res) >= MaxNrRes
                \/ \E j \in 1 .. k : LexMatch(entries[n + j].entry, graph) # 0
          THEN f[k - 1]
        ELSE SetLexResult(f[k - 1], entries[n + k])]

LEMMA SetIs ==
  ASSUME NEW lexres \in Results, NEW at \in Located
  PROVE  /\ SetLexResult(lexres, at) \in Results
         /\ ~at.entry.g2p => SetLexResult(lexres, at) = [phonfound |-> TRUE, res |-> Append(lexres.res, ResultOf(at))]
<1>1. at.entry \in LexEntry /\ at.ind \in Nat /\ lexres.res \in Seq(Result)
  BY DEF Located, Results
<1>2. at.entry.pos \in 0 .. 255
  BY <1>1 DEF LexEntry
<1>3. ResultOf(at) \in Result /\ [pos |-> at.entry.pos, ind |-> 0] \in Result
  BY <1>1, <1>2 DEF Result, ResultOf
<1>4. Append(lexres.res, ResultOf(at)) \in Seq(Result) /\ << [pos |-> at.entry.pos, ind |-> 0] >> \in Seq(Result)
  BY <1>1, <1>3
<1>5. CASE at.entry.g2p
  BY <1>4, <1>5 DEF SetLexResult, Results
<1>6. CASE ~at.entry.g2p
  BY <1>4, <1>6 DEF SetLexResult, Results, ResultOf
<1> QED  BY <1>5, <1>6

LEMMA MoreExists ==
  ASSUME NEW entries \in Seq(Located), NEW n \in 1 .. Len(entries), NEW graph, NEW first \in Results
  PROVE  \E f : IsMore(f, entries, n, graph, first)
<1> DEFINE size == Len(entries) - n
           Stop(k, r) == \/ Len(r.res) >= MaxNrRes
                         \/ \E j \in 1 .. k : LexMatch(entries[n + j].entry, graph) # 0
           More(k, r) == IF Stop(k, r) THEN r ELSE SetLexResult(r, entries[n + k])
           step == [p \in (1 .. size) \X Results |-> More(p[1], p[2])]
<1>1. size \in Nat /\ \A k \in 1 .. size : n + k \in 1 .. Len(entries)
  OBVIOUS
<1>2. \A k \in 1 .. size : entries[n + k] \in Located
  BY <1>1, ElementOfSeq
<1> HIDE DEF size, Stop
<1>3. step \in [(1 .. size) \X Results -> Results]
  <2> SUFFICES ASSUME NEW p \in (1 .. size) \X Results PROVE More(p[1], p[2]) \in Results
    OBVIOUS
  <2>1. p[1] \in 1 .. size /\ p[2] \in Results
    OBVIOUS
  <2>2. SetLexResult(p[2], entries[n + p[1]]) \in Results
    BY <1>2, <2>1, SetIs
  <2> QED  BY <2>1, <2>2
<1>4. PICK f \in [0 .. size -> Results] : Recurs(f, first, step, size)
  <2> HIDE DEF step
  <2>1. \E f \in [0 .. size -> Results] : Recurs(f, first, step, size)
    BY <1>1, <1>3, RecursionExists
  <2> QED  BY <2>1
<1> HIDE DEF More
<1>5. \A k \in 0 .. size : f[k] = IF k = 0 THEN first ELSE More(k, f[k - 1])
  <2> SUFFICES ASSUME NEW k \in 0 .. size PROVE f[k] = IF k = 0 THEN first ELSE More(k, f[k - 1])
    OBVIOUS
  <2>1. CASE k = 0
    BY <1>4, <2>1 DEF Recurs
  <2>2. CASE k # 0
    <3>1. k \in 1 .. size /\ k - 1 \in 0 .. size
      BY <1>1, <2>2
    <3>2. f[k - 1] \in Results
      BY <1>4, <3>1
    <3> DEFINE p == << k, f[k - 1] >>
    <3>3. p \in (1 .. size) \X Results /\ p[1] = k /\ p[2] = f[k - 1]
      BY <3>1, <3>2
    <3>4. f[k] = step[p]
      BY <1>4, <3>1 DEF Recurs
    <3> HIDE DEF p
    <3>5. step[p] = More(p[1], p[2])
      BY <3>3
    <3> QED  BY <2>2, <3>3, <3>4, <3>5
  <2> QED  BY <2>1, <2>2
<1>6. f = [k \in 0 .. size |-> IF k = 0 THEN first ELSE More(k, f[k - 1])]
  BY <1>4, <1>5
<1>7. IsMore(f, entries, n, graph, first)
  <2> HIDE DEF step
  <2> QED  BY <1>6 DEF IsMore, More, Stop, size
<1> QED  BY <1>7

\* The results are those of the size entries from n on that are equal, up to the
\* maximal number of them.
WalkFinds(entries, n, graph, size) ==
  LET first == SetLexResult(NoResult, entries[n])
  IN /\ first.phonfound
     /\ MoreResults(entries, n, graph, first) =
          [phonfound |-> TRUE,
           res |-> [k \in 1 .. Smaller(size, MaxNrRes) |-> ResultOf(entries[n + k - 1])]]
LEMMA MoreIs ==
  ASSUME NEW entries \in Seq(Located), NEW graph \in Spellings, NEW n \in 1 .. Len(entries),
         NEW size \in Nat \ {0}, n + size - 1 <= Len(entries),
         \A k \in n .. Len(entries) : entries[k].entry.graph = graph <=> k < n + size,
         \A k \in n .. Len(entries) : k < n + size => ~entries[k].entry.g2p
  PROVE  WalkFinds(entries, n, graph, size)
<1> DEFINE first == SetLexResult(NoResult, entries[n])
           N == Len(entries) - n
           f == CHOOSE g : IsMore(g, entries, n, graph, first)
           t == [k \in 1 .. size |-> ResultOf(entries[n + k - 1])]
           Cut(k) == IF Smaller(size, MaxNrRes) <= k + 1 THEN Smaller(size, MaxNrRes) ELSE k + 1
           Found(m) == [phonfound |-> TRUE, res |-> [j \in 1 .. m |-> t[j]]]
           T == {k \in 0 .. N : f[k] = Found(Cut(k))}
<1>1. N \in Nat /\ Len(entries) \in Nat /\ n \in Nat /\ size <= N + 1 /\ MaxNrRes \in Nat /\ MaxNrRes > 0 /\ size > 0
      /\ \A k \in 0 .. N : n + k \in 1 .. Len(entries)
  BY LexiconAssumption
<1>2. \A k \in 0 .. N : entries[n + k] \in Located
  BY <1>1, ElementOfSeq
<1>3. \A k \in 0 .. N : LexMatch(entries[n + k].entry, graph) # 0 <=> k >= size
  <2> SUFFICES ASSUME NEW k \in 0 .. N PROVE LexMatch(entries[n + k].entry, graph) # 0 <=> k >= size
    OBVIOUS
  <2> DEFINE e == entries[n + k].entry
  <2>1. e.graph \in Spellings
    <3>1. e \in LexEntry
      BY <1>2 DEF Located
    <3>2. e.graph \in Graphs
      BY <3>1 DEF LexEntry
    <3> QED  BY <3>2 DEF Graphs, Spellings
  <2>2. e.graph = graph <=> n + k < n + size
    <3>1. n + k \in n .. Len(entries)
      BY <1>1
    <3> QED  BY <3>1
  <2> HIDE DEF e
  <2>3. LexMatch(e, graph) # 0 <=> e.graph # graph
    BY <2>1, MatchIs, LessIrreflexive
  <2>4. n + k < n + size <=> ~(k >= size)
    BY <1>1
  <2> QED  BY <2>2, <2>3, <2>4 DEF e
<1>4. \A k \in 0 .. size - 1 : ~entries[n + k].entry.g2p
  <2> SUFFICES ASSUME NEW k \in 0 .. size - 1 PROVE ~entries[n + k].entry.g2p
    OBVIOUS
  <2>1. n + k \in n .. Len(entries) /\ n + k < n + size
    BY <1>1
  <2> QED  BY <2>1
<1> HIDE DEF N
<1>5. \A k \in 1 .. size : t[k] = ResultOf(entries[n + k - 1]) /\ t[k] \in Result
  <2> SUFFICES ASSUME NEW k \in 1 .. size PROVE t[k] = ResultOf(entries[n + k - 1]) /\ t[k] \in Result
    OBVIOUS
  <2>1. k - 1 \in 0 .. N /\ n + (k - 1) = n + k - 1
    BY <1>1
  <2>2. entries[n + k - 1] \in Located
    BY <1>2, <2>1
  <2> DEFINE at == entries[n + k - 1]
  <2>3. at.entry \in LexEntry /\ at.ind \in Nat
    BY <2>2 DEF Located
  <2>4. at.entry.pos \in 0 .. 255
    BY <2>3 DEF LexEntry
  <2>5. ResultOf(at) \in Result
    BY <2>3, <2>4 DEF Result, ResultOf
  <2> QED  BY <2>5
<1> HIDE DEF t
<1>6. NoResult \in Results /\ NoResult.res = << >>
  BY DEF NoResult, Results
<1>7. first \in Results /\ first = Found(1)
  <2>1. entries[n] \in Located /\ ~entries[n].entry.g2p
    <3>1. 0 \in 0 .. N /\ 0 \in 0 .. size - 1 /\ n + 0 = n
      BY <1>1
    <3> QED  BY <1>2, <1>4, <3>1
  <2>2. first \in Results /\ first = [phonfound |-> TRUE, res |-> Append(<< >>, ResultOf(entries[n]))]
    BY <1>6, <2>1, SetIs
  <2>3. t[1] = ResultOf(entries[n]) /\ \A k \in 1 .. 0 + 1 : t[k] \in Result
    <3>1. 1 \in 1 .. size /\ n + 1 - 1 = n /\ \A k \in 1 .. 0 + 1 : k \in 1 .. size
      BY <1>1
    <3> QED  BY <1>5, <3>1
  <2>4. Append([k \in 1 .. 0 |-> t[k]], t[0 + 1]) = [k \in 1 .. 0 + 1 |-> t[k]]
    BY <2>3, AppendIs
  <2>5. [k \in 1 .. 0 |-> t[k]] = << >> /\ 0 + 1 = 1
    OBVIOUS
  <2>6. Append(<< >>, t[1]) = [k \in 1 .. 1 |-> t[k]]
    BY <2>4, <2>5
  <2> QED  BY <2>2, <2>3, <2>6
<1> HIDE DEF first
<1>8. MoreResults(entries, n, graph, first) = f[N]
  BY DEF MoreResults, IsMore, N
<1>9. IsMore(f, entries, n, graph, first)
  BY <1>7, MoreExists
<1> HIDE DEF f
<1>10. \A k \in 0 .. N :
         f[k] = IF k = 0 THEN first
                ELSE IF \/ Len(f[k - 1].res) >= MaxNrRes
                        \/ \E j \in 1 .. k : LexMatch(entries[n + j].entry, graph) # 0
                  THEN f[k - 1]
                ELSE SetLexResult(f[k - 1], entries[n + k])
  BY <1>9 DEF IsMore, N
<1>11. 0 \in T
  <2>1. Cut(0) = 1 /\ 0 \in 0 .. N
    BY <1>1 DEF Smaller
  <2>2. f[0] = first
    BY <1>10, <2>1
  <2> HIDE DEF Cut
  <2> QED  BY <1>7, <2>1, <2>2
<1>12. ASSUME NEW m \in Nat, m <= size
       PROVE  Found(m) \in Results /\ Len(Found(m).res) = m
  <2>1. \A j \in 1 .. m : t[j] \in Result
    BY <1>1, <1>5, <1>12
  <2>2. [j \in 1 .. m |-> t[j]] \in Seq(Result) /\ Len([j \in 1 .. m |-> t[j]]) = m
    <3>1. [j \in 1 .. m |-> t[j]] \in [1 .. m -> Result]
      BY <2>1
    <3> QED  BY <3>1
  <2> QED  BY <2>2 DEF Results
<1>13. ASSUME NEW k \in 1 .. N, k - 1 \in T PROVE k \in T
  <2>1. k \in 0 .. N /\ k # 0 /\ k - 1 \in Nat /\ k \in Nat
    BY <1>1
  <2>2. f[k - 1] = Found(Cut(k - 1))
    BY <1>13
  <2> HIDE DEF T
  <2>3. Cut(k - 1) \in Nat /\ Cut(k - 1) <= size
    BY <1>1, <2>1 DEF Smaller
  <2>4. Len(f[k - 1].res) = Cut(k - 1) /\ f[k - 1] \in Results
    <3> HIDE DEF Found, Cut
    <3> QED  BY <1>12, <2>2, <2>3
  <2>5. (\E j \in 1 .. k : LexMatch(entries[n + j].entry, graph) # 0) <=> k >= size
    <3>1. ASSUME NEW j \in 1 .. k, LexMatch(entries[n + j].entry, graph) # 0 PROVE k >= size
      <4>1. j \in 0 .. N
        BY <1>1
      <4>2. j >= size
        BY <1>3, <3>1, <4>1
      <4> QED  BY <1>1, <4>2
    <3>2. ASSUME k >= size PROVE \E j \in 1 .. k : LexMatch(entries[n + j].entry, graph) # 0
      <4>1. k \in 1 .. k /\ LexMatch(entries[n + k].entry, graph) # 0
        BY <1>3, <2>1, <3>2
      <4> QED  BY <4>1
    <3> QED  BY <3>1, <3>2
  <2>6. f[k] = IF Cut(k - 1) >= MaxNrRes \/ k >= size THEN f[k - 1]
               ELSE SetLexResult(f[k - 1], entries[n + k])
    <3> HIDE DEF Found, Cut
    <3> QED  BY <1>10, <2>1, <2>4, <2>5
  <2>7. CASE Cut(k - 1) >= MaxNrRes \/ k >= size
    <3>1. Cut(k) = Cut(k - 1)
      BY <1>1, <2>1, <2>7 DEF Smaller
    <3> HIDE DEF Found, Cut
    <3>2. f[k] = Found(Cut(k))
      BY <2>2, <2>6, <2>7, <3>1
    <3> QED  BY <2>1, <3>2 DEF T
  <2>8. CASE ~(Cut(k - 1) >= MaxNrRes \/ k >= size)
    <3>1. Cut(k - 1) = k /\ Cut(k) = k + 1 /\ k + 1 \in 1 .. size /\ n + (k + 1) - 1 = n + k /\ k \in 0 .. size - 1
      BY <1>1, <2>1, <2>8 DEF Smaller
    <3> HIDE DEF Cut
    <3>2. entries[n + k] \in Located /\ ~entries[n + k].entry.g2p /\ t[k + 1] = ResultOf(entries[n + k])
      BY <1>2, <1>4, <1>5, <2>1, <3>1
    <3>3. f[k] = [phonfound |-> TRUE, res |-> Append(f[k - 1].res, ResultOf(entries[n + k]))]
      BY <2>4, <2>6, <2>8, <3>2, SetIs
    <3>4. f[k - 1].res = [j \in 1 .. k |-> t[j]]
      BY <2>2, <3>1
    <3>5. \A j \in 1 .. k + 1 : t[j] \in Result
      BY <1>1, <1>5, <3>1
    <3>6. Append([j \in 1 .. k |-> t[j]], t[k + 1]) = [j \in 1 .. k + 1 |-> t[j]]
      BY <2>1, <3>5, AppendIs
    <3>7. f[k] = Found(k + 1)
      BY <3>2, <3>3, <3>4, <3>6
    <3> HIDE DEF Found
    <3> QED  BY <2>1, <3>1, <3>7 DEF T
  <2> QED  BY <2>7, <2>8
<1>14. N \in T
  <2>1. 0 .. N \subseteq T
    <3> HIDE DEF T
    <3> QED  BY <1>1, <1>11, <1>13, UpTo
  <2>2. N \in 0 .. N
    BY <1>1
  <2> QED  BY <2>1, <2>2
<1>15. Cut(N) = Smaller(size, MaxNrRes) /\ Smaller(size, MaxNrRes) <= size
  BY <1>1 DEF Smaller
<1> DEFINE m == Smaller(size, MaxNrRes)
<1>16. f[N] = Found(m)
  <2> HIDE DEF Cut, Found
  <2> QED  BY <1>14, <1>15
<1>17. [k \in 1 .. m |-> t[k]] = [k \in 1 .. m |-> ResultOf(entries[n + k - 1])]
  <2>1. \A k \in 1 .. m : k \in 1 .. size
    BY <1>1, <1>15 DEF Smaller
  <2> HIDE DEF m
  <2> QED  BY <1>5, <2>1
<1>18. first.phonfound
  BY <1>7
<1> QED  BY <1>8, <1>16, <1>17, <1>18 DEF first, WalkFinds

LookupFrom(entries, n, graph) ==
  (/\ entries[n].entry.graph = graph
   /\ \A k \in 1 .. n - 1 : LexMatch(entries[k].entry, graph) < 0)
  => LET first == SetLexResult(NoResult, entries[n])
     IN LexblockLookup(entries, graph) =
          IF first.phonfound THEN MoreResults(entries, n, graph, first) ELSE first
LEMMA BlockLookup ==
  ASSUME NEW entries \in Seq(Located), NEW graph \in Spellings
  PROVE  /\ (\A k \in 1 .. Len(entries) : entries[k].entry.graph # graph) =>
              LexblockLookup(entries, graph) = NoResult
         /\ \A n \in 1 .. Len(entries) : LookupFrom(entries, n, graph)
<1> DEFINE notBefore == {k \in DOMAIN entries : LexMatch(entries[k].entry, graph) >= 0}
           IsLeast(k) == \A j \in notBefore : k <= j
           least == CHOOSE k \in notBefore : IsLeast(k)
           FirstOf(k) == SetLexResult(NoResult, entries[k])
<1>1. Len(entries) \in Nat /\ DOMAIN entries = 1 .. Len(entries) /\ notBefore \subseteq Nat
  OBVIOUS
<1>2. \A k \in 1 .. Len(entries) :
        \/ LexMatch(entries[k].entry, graph) = -1 /\ entries[k].entry.graph # graph
        \/ LexMatch(entries[k].entry, graph) = 0 /\ entries[k].entry.graph = graph
        \/ LexMatch(entries[k].entry, graph) = 1 /\ entries[k].entry.graph # graph
  <2> SUFFICES ASSUME NEW k \in 1 .. Len(entries)
               PROVE  \/ LexMatch(entries[k].entry, graph) = -1 /\ entries[k].entry.graph # graph
                      \/ LexMatch(entries[k].entry, graph) = 0 /\ entries[k].entry.graph = graph
                      \/ LexMatch(entries[k].entry, graph) = 1 /\ entries[k].entry.graph # graph
    OBVIOUS
  <2> DEFINE e == entries[k].entry
  <2>1. entries[k] \in Located
    BY ElementOfSeq
  <2>2. e.graph \in Spellings
    <3>1. e \in LexEntry
      BY <2>1 DEF Located
    <3>2. e.graph \in Graphs
      BY <3>1 DEF LexEntry
    <3> QED  BY <3>2 DEF Graphs, Spellings
  <2> HIDE DEF e
  <2>3. \/ LexMatch(e, graph) = -1 /\ e.graph # graph
        \/ LexMatch(e, graph) = 0 /\ e.graph = graph
        \/ LexMatch(e, graph) = 1 /\ e.graph # graph
    BY <2>2, MatchIs, LessIrreflexive
  <2> QED  BY <2>3 DEF e
<1>3. LexblockLookup(entries, graph) =
        IF notBefore = {} THEN NoResult
        ELSE IF LexMatch(entries[least].entry, graph) > 0 THEN NoResult
        ELSE IF FirstOf(least).phonfound THEN MoreResults(entries, least, graph, FirstOf(least))
        ELSE FirstOf(least)
  BY DEF LexblockLookup
<1>4. \A k \in DOMAIN entries : k \in notBefore <=> LexMatch(entries[k].entry, graph) >= 0
  OBVIOUS
<1>5. notBefore \subseteq 1 .. Len(entries)
  BY <1>1
<1> HIDE DEF notBefore, FirstOf
<1>6. notBefore # {} => least \in notBefore /\ IsLeast(least)
  BY <1>1, LeastMember
<1> HIDE DEF least, IsLeast
<1>7. ASSUME \A k \in 1 .. Len(entries) : entries[k].entry.graph # graph
      PROVE  LexblockLookup(entries, graph) = NoResult
  <2>1. CASE notBefore = {}
    BY <1>3, <2>1
  <2>2. CASE notBefore # {}
    <3>1. least \in 1 .. Len(entries) /\ LexMatch(entries[least].entry, graph) >= 0
      BY <1>1, <1>4, <1>5, <1>6, <2>2
    <3>2. LexMatch(entries[least].entry, graph) = 1
      BY <1>2, <1>7, <3>1
    <3> QED  BY <1>3, <2>2, <3>2
  <2> QED  BY <2>1, <2>2
<1>8. ASSUME NEW n \in 1 .. Len(entries), entries[n].entry.graph = graph,
             \A k \in 1 .. n - 1 : LexMatch(entries[k].entry, graph) < 0
      PROVE  LexblockLookup(entries, graph) =
               IF FirstOf(n).phonfound THEN MoreResults(entries, n, graph, FirstOf(n)) ELSE FirstOf(n)
  <2>1. LexMatch(entries[n].entry, graph) = 0
    BY <1>2, <1>8
  <2>2. n \in notBefore
    BY <1>1, <1>4, <2>1
  <2>3. least \in 1 .. Len(entries) /\ least <= n /\ LexMatch(entries[least].entry, graph) >= 0
    BY <1>1, <1>4, <1>5, <1>6, <2>2 DEF IsLeast
  <2>4. ~(least < n)
    <3> SUFFICES ASSUME least < n PROVE FALSE
      OBVIOUS
    <3>1. least \in 1 .. n - 1
      BY <1>1, <2>3
    <3>2. LexMatch(entries[least].entry, graph) < 0
      BY <1>8, <3>1
    <3>3. LexMatch(entries[least].entry, graph) \in Int
      BY <1>2, <2>3
    <3> QED  BY <2>3, <3>2, <3>3
  <2>5. least = n
    BY <1>1, <2>3, <2>4
  <2> QED  BY <1>3, <2>1, <2>2, <2>5
<1> QED  BY <1>7, <1>8 DEF FirstOf, LookupFrom

\* A lookup finds what a search of the whole lexicon would: the first block found by
\* the index, the blocks with the same entry in it, and the walk through their
\* entries miss no entry of the word and take no other (picoklex_lexLookup).
THEOREM LookupFindsAll ==
  ASSUME NEW lex, WellFormed(lex), NEW graph \in Seq(1 .. 255)
  PROVE  LexLookup(lex, graph) = Expected(lex, graph)
<1> DEFINE all == AllEntries(lex)
           N == NrBlocks(lex)
           found == EntriesOf(lex, graph)
<1>1. Filled(lex) /\ Count(lex) \in Nat /\ N \in Nat /\ graph \in Spellings /\ all \in Seq(Located)
      /\ LaidBefore(lex, 0) = 0 /\ Count(lex) = LaidBefore(lex, N)
  <2>1. Filled(lex) /\ Count(lex) \in Nat
    BY WellFormedIs
  <2>2. N \in Nat /\ all \in Seq(Located) /\ LaidBefore(lex, 0) = 0 /\ Count(lex) = LaidBefore(lex, N)
    BY <2>1, LayOut DEF Count
  <2> HIDE DEF all, N
  <2> QED  BY <2>1, <2>2 DEF Spellings
<1>2. PICK first \in Nat \ {0}, size \in Nat :
        /\ first + size - 1 <= Count(lex)
        /\ \A n \in 1 .. Count(lex) : WordAt(lex, n) = graph <=> first <= n /\ n < first + size
  <2> HIDE DEF all, N, found
  <2> QED  BY WordPlaces
<1>3. found = EntriesAt(all, first, size)
  BY <1>1, <1>2, EntriesOfAre
<1>4. Len(found) = size /\ (found = << >> <=> size = 0)
      /\ \A k \in 1 .. size : found[k] = all[first + k - 1]
  <2>1. found = [k \in 1 .. size |-> all[first + k - 1]]
    BY <1>3 DEF EntriesAt
  <2> HIDE DEF all, found
  <2>2. \A k \in 1 .. size : all[first + k - 1] \in Located
    <3> SUFFICES ASSUME NEW k \in 1 .. size PROVE all[first + k - 1] \in Located
      OBVIOUS
    <3>1. first + k - 1 \in 1 .. Len(all)
      BY <1>1, <1>2 DEF Count, all
    <3> QED  BY <1>1, <3>1, ElementOfSeq
  <2>3. found \in [1 .. size -> Located]
    BY <2>1, <2>2
  <2>4. found \in Seq(Located) /\ Len(found) = size
    BY <2>3
  <2>5. found = << >> <=> size = 0
    BY <2>4, EmptySeq
  <2> QED  BY <2>1, <2>4, <2>5
<1> HIDE DEF all, N, found
<1>5. CASE N = 0
  <2>1. size = 0
    BY <1>1, <1>2, <1>5
  <2>2. Expected(lex, graph) = NoResult
    BY <1>4, <2>1 DEF Expected, found
  <2> QED  BY <1>5, <2>2 DEF LexLookup, N
<1>6. CASE N # 0
  <2> DEFINE nr == LexblockNr(lex, graph)
             count == LexblockRange(lex, nr)
             entries == EntriesFrom(lex, nr, count)
             from == LaidBefore(lex, nr)
             to == LaidBefore(lex, nr + count)
  <2>1. LexLookup(lex, graph) = LexblockLookup(entries, graph)
    BY <1>6 DEF LexLookup, N
  <2>2. /\ nr \in 0 .. N - 1 /\ count \in 1 .. N - nr
        /\ \A n \in 1 .. Count(lex) : WordAt(lex, n) = graph => n \in from + 1 .. to
    BY <1>1, <1>6, BlocksFound DEF N
  <2> HIDE DEF nr, count
  <2>3. nr \in Nat /\ count \in Nat /\ nr + count <= N /\ nr + count \in Nat /\ N - (nr + count) \in Nat
        /\ (nr + count) + (N - (nr + count)) = N
    BY <1>1, <2>2
  <2>4. /\ from \in Nat /\ to \in Nat /\ from <= to
        /\ entries \in Seq(Located) /\ Len(entries) = to - from
        /\ \A k \in 1 .. Len(entries) : entries[k] = EntriesFrom(lex, 0, nr + count)[from + k]
    BY <1>1, <2>3, Slice DEF N, Filled
  <2> DEFINE both == nr + count
             rest == N - both
  <2>5. to <= Count(lex) /\ \A k \in 1 .. to : all[k] = EntriesFrom(lex, 0, both)[k]
    <3>1. both \in Nat /\ rest \in Nat /\ both + rest <= NrBlocks(lex) /\ both + rest = N
      BY <2>3 DEF N
    <3> HIDE DEF both, rest
    <3>2. LaidBefore(lex, both) <= LaidBefore(lex, both + rest)
          /\ \A k \in 1 .. LaidBefore(lex, both) : EntriesFrom(lex, 0, both + rest)[k] = EntriesFrom(lex, 0, both)[k]
      <4>1. Laid(lex)
        BY <1>1 DEF Filled
      <4>2. LaidBefore(lex, both) <= LaidBefore(lex, both + rest)
        BY <3>1, <4>1, Slice
      <4>3. ASSUME NEW k \in 1 .. LaidBefore(lex, both)
            PROVE  EntriesFrom(lex, 0, both + rest)[k] = EntriesFrom(lex, 0, both)[k]
        <5>1. \A i \in 1 .. Len(EntriesFrom(lex, 0, both)) :
                (EntriesFrom(lex, 0, both) \o EntriesFrom(lex, both, rest))[i] = EntriesFrom(lex, 0, both)[i]
          <6> DEFINE a == EntriesFrom(lex, 0, both)
                     b == EntriesFrom(lex, both, rest)
          <6>1. a \in Seq(Located) /\ b \in Seq(Located)
            <7>1. 0 \in Nat /\ 0 + both <= NrBlocks(lex)
              BY <1>1, <3>1 DEF N
            <7> QED  BY <3>1, <4>1, <7>1, EntriesType
          <6> HIDE DEF a, b
          <6>2. \A i \in 1 .. Len(a) : (a \o b)[i] = a[i]
            BY <6>1
          <6> QED  BY <6>2 DEF a, b
        <5>2. EntriesFrom(lex, 0, both + rest) = EntriesFrom(lex, 0, both) \o EntriesFrom(lex, both, rest)
          BY <3>1, <4>1, Parts
        <5> QED  BY <4>3, <5>1, <5>2 DEF LaidBefore
      <4> QED  BY <4>2, <4>3
    <3>3. all = EntriesFrom(lex, 0, N)
      BY DEF all, AllEntries, N
    <3> QED  BY <1>1, <3>1, <3>2, <3>3 DEF both
  <2> HIDE DEF from, to, entries
  <2>6. \A k \in 1 .. Len(entries) : entries[k] = all[from + k] /\ from + k \in 1 .. Count(lex)
    <3> SUFFICES ASSUME NEW k \in 1 .. Len(entries)
                 PROVE  entries[k] = all[from + k] /\ from + k \in 1 .. Count(lex)
      OBVIOUS
    <3>1. from + k \in 1 .. to /\ from + k \in 1 .. Count(lex)
      BY <1>1, <2>4, <2>5
    <3> QED  BY <2>4, <2>5, <3>1
  <2>7. \A k \in 1 .. Len(entries) : entries[k].entry.graph = WordAt(lex, from + k)
    BY <2>6 DEF WordAt, all
  <2>8. CASE size = 0
    <3>1. \A k \in 1 .. Len(entries) : entries[k].entry.graph # graph
      <4> SUFFICES ASSUME NEW k \in 1 .. Len(entries), entries[k].entry.graph = graph PROVE FALSE
        OBVIOUS
      <4>1. from + k \in 1 .. Count(lex) /\ WordAt(lex, from + k) = graph
        BY <2>6, <2>7
      <4>2. first <= from + k /\ from + k < first + size
        BY <1>2, <4>1
      <4> QED  BY <1>1, <2>8, <4>1, <4>2
    <3>2. LexblockLookup(entries, graph) = NoResult
      BY <1>1, <2>4, <3>1, BlockLookup
    <3>3. Expected(lex, graph) = NoResult
      BY <1>4, <2>8 DEF Expected, found
    <3> QED  BY <2>1, <3>2, <3>3
  <2>9. CASE size # 0
    <3> DEFINE n == first - from
               last == first + size - 1
    <3>1. first \in 1 .. Count(lex) /\ last \in 1 .. Count(lex) /\ last >= first /\ size \in Nat \ {0}
          /\ first < first + size /\ last < first + size
      BY <1>1, <1>2, <2>9
    <3>2. WordAt(lex, first) = graph /\ WordAt(lex, last) = graph
      BY <1>2, <3>1
    <3>3. first \in from + 1 .. to /\ last \in from + 1 .. to
      BY <2>2, <3>1, <3>2 DEF from, to
    <3>4. n \in 1 .. Len(entries) /\ n + size - 1 <= Len(entries) /\ from + n = first /\ n \in Nat
      BY <1>1, <2>4, <3>1, <3>3
    <3> HIDE DEF n, last
    <3>5. entries[n] = all[first] /\ entries[n].entry.graph = graph
      BY <2>6, <2>7, <3>2, <3>4
    <3>6. \A k \in 1 .. n - 1 : LexMatch(entries[k].entry, graph) < 0
      <4> SUFFICES ASSUME NEW k \in 1 .. n - 1 PROVE LexMatch(entries[k].entry, graph) < 0
        OBVIOUS
      <4>1. k \in 1 .. Len(entries) /\ from + k \in 1 .. Count(lex) /\ from + k < first /\ first \in from + k .. Count(lex)
        BY <1>1, <2>4, <2>6, <3>1, <3>4
      <4>2. WordAt(lex, from + k) # graph
        BY <1>1, <1>2, <4>1
      <4>3. AtMost(WordAt(lex, from + k), graph) /\ WordAt(lex, from + k) \in Spellings
        BY <1>1, <3>2, <4>1, WordsInOrder, WordIs
      <4> DEFINE e == entries[k].entry
      <4>4. e.graph = WordAt(lex, from + k)
        BY <2>7, <4>1
      <4> HIDE DEF e
      <4>5. \/ LexMatch(e, graph) = -1
            \/ LexMatch(e, graph) = 0 /\ e.graph = graph
            \/ LexMatch(e, graph) = 1 /\ Less(graph, e.graph)
        BY <1>1, <4>3, <4>4, MatchIs
      <4>6. ~Less(graph, e.graph)
        <5> DEFINE w == WordAt(lex, from + k)
        <5>1. w \in Spellings /\ AtMost(w, graph)
          BY <4>3
        <5> HIDE DEF w
        <5>2. ~Less(graph, w)
          BY <1>1, <5>1, AtMostOrder
        <5> QED  BY <4>4, <5>2 DEF w
      <4>7. LexMatch(e, graph) = -1
        BY <4>2, <4>4, <4>5, <4>6
      <4> QED  BY <4>7 DEF e
    <3> DEFINE one == SetLexResult(NoResult, entries[n])
    <3>7. LexblockLookup(entries, graph) = IF one.phonfound THEN MoreResults(entries, n, graph, one) ELSE one
      <4>1. LookupFrom(entries, n, graph)
        BY <1>1, <2>4, <3>4, BlockLookup
      <4> QED  BY <3>5, <3>6, <4>1 DEF LookupFrom
    <3>8. found # << >> /\ found[1] = all[first]
      <4>1. 1 \in 1 .. size /\ first + 1 - 1 = first
        BY <1>2, <3>1
      <4> QED  BY <1>4, <2>9, <4>1
    <3>9. CASE all[first].entry.g2p
      <4>1. one = [phonfound |-> FALSE, res |-> << [pos |-> all[first].entry.pos, ind |-> 0] >>]
        BY <3>5, <3>9 DEF SetLexResult
      <4>2. Expected(lex, graph) = [phonfound |-> FALSE, res |-> << [pos |-> all[first].entry.pos, ind |-> 0] >>]
        BY <3>8, <3>9 DEF Expected, found
      <4> HIDE DEF one
      <4> QED  BY <2>1, <3>7, <4>1, <4>2
    <3>10. CASE ~all[first].entry.g2p
      <4>1. \A k \in n .. Len(entries) : entries[k].entry.graph = graph <=> k < n + size
        <5> SUFFICES ASSUME NEW k \in n .. Len(entries)
                     PROVE  entries[k].entry.graph = graph <=> k < n + size
          OBVIOUS
        <5>1. k \in 1 .. Len(entries)
          BY <2>4, <3>4
        <5>2. entries[k].entry.graph = WordAt(lex, from + k) /\ from + k \in 1 .. Count(lex)
          BY <2>6, <2>7, <5>1
        <5>3. WordAt(lex, from + k) = graph <=> first <= from + k /\ from + k < first + size
          BY <1>2, <5>2
        <5>4. (first <= from + k /\ from + k < first + size) <=> k < n + size
          BY <1>1, <1>2, <2>4, <3>4
        <5> QED  BY <5>2, <5>3, <5>4
      <4>2. \A k \in n .. Len(entries) : k < n + size => ~entries[k].entry.g2p
        <5> SUFFICES ASSUME NEW k \in n .. Len(entries), k < n + size PROVE ~entries[k].entry.g2p
          OBVIOUS
        <5>1. k \in 1 .. Len(entries)
          BY <2>4, <3>4
        <5>2. entries[k] = all[from + k] /\ from + k \in 1 .. Count(lex) /\ WordAt(lex, from + k) = graph
          BY <2>6, <2>7, <4>1, <5>1
        <5>3. CASE k = n
          BY <3>4, <3>10, <5>2, <5>3
        <5>4. CASE k # n
          <6>1. first < from + k
            BY <1>1, <2>4, <3>1, <3>4, <5>4
          <6>2. ~AllEntries(lex)[from + k].entry.g2p
            BY <3>1, <3>2, <5>2, <6>1, SameWord
          <6> QED  BY <5>2, <6>2 DEF all
        <5> QED  BY <5>3, <5>4
      <4>3. /\ one.phonfound
            /\ MoreResults(entries, n, graph, one) =
                 [phonfound |-> TRUE,
                  res |-> [k \in 1 .. Smaller(size, MaxNrRes) |-> ResultOf(entries[n + k - 1])]]
        <5>1. WalkFinds(entries, n, graph, size)
          BY <1>1, <2>4, <3>1, <3>4, <4>1, <4>2, MoreIs
        <5> QED  BY <5>1 DEF WalkFinds
      <4> HIDE DEF one
      <4>4. LexLookup(lex, graph) =
              [phonfound |-> TRUE,
               res |-> [k \in 1 .. Smaller(size, MaxNrRes) |-> ResultOf(entries[n + k - 1])]]
        BY <2>1, <3>7, <4>3
      <4>5. Expected(lex, graph) =
              [phonfound |-> TRUE,
               res |-> [k \in 1 .. NrExpected(found) |-> [pos |-> found[k].entry.pos, ind |-> found[k].ind]]]
        BY <3>8, <3>10 DEF Expected, found
      <4>6. NrExpected(found) = Smaller(size, MaxNrRes)
        BY <1>4 DEF NrExpected, Smaller
      <4> DEFINE m == Smaller(size, MaxNrRes)
      <4>7. \A k \in 1 .. m : [pos |-> found[k].entry.pos, ind |-> found[k].ind] = ResultOf(entries[n + k - 1])
        <5> SUFFICES ASSUME NEW k \in 1 .. m
                     PROVE  [pos |-> found[k].entry.pos, ind |-> found[k].ind] = ResultOf(entries[n + k - 1])
          OBVIOUS
        <5>1. k \in 1 .. size
          BY <3>1, LexiconAssumption DEF Smaller
        <5>2. found[k] = all[first + k - 1]
          BY <1>4, <5>1
        <5>3. n + k - 1 \in 1 .. Len(entries) /\ from + (n + k - 1) = first + k - 1
          <6>1. Len(entries) \in Nat /\ from \in Nat /\ first \in Nat /\ k \in Nat /\ k >= 1 /\ k <= size
            BY <2>4, <3>1, <5>1
          <6> QED  BY <3>1, <3>4, <6>1
        <5>4. entries[n + k - 1] = all[first + k - 1]
          BY <2>6, <5>3
        <5> QED  BY <5>2, <5>4 DEF ResultOf
      <4> HIDE DEF m
      <4>8. [k \in 1 .. m |-> [pos |-> found[k].entry.pos, ind |-> found[k].ind]]
              = [k \in 1 .. m |-> ResultOf(entries[n + k - 1])]
        BY <4>7
      <4> QED  BY <4>4, <4>5, <4>6, <4>8 DEF m
    <3> QED  BY <3>9, <3>10
  <2> QED  BY <2>8, <2>9
<1> QED  BY <1>5, <1>6

\* An index found leads to the entry it was found for.
LEMMA FoundIsThere ==
  ASSUME NEW lex, WellFormed(lex), NEW graph
  PROVE  LET found == EntriesOf(lex, graph)
         IN /\ found \in Seq(Located)
            /\ \A k \in 1 .. Len(found) :
                 IndFound(lex, found[k].ind) /\ LexIndLookup(lex, found[k].ind) = found[k].entry
                   /\ found[k].entry.graph = graph
<1> DEFINE found == EntriesOf(lex, graph)
           all == AllEntries(lex)
<1>1. Filled(lex) /\ Count(lex) \in Nat /\ all \in Seq(Located)
  BY WellFormedIs, LayOut
<1>2. PICK first \in Nat \ {0}, size \in Nat :
        /\ first + size - 1 <= Count(lex)
        /\ \A n \in 1 .. Count(lex) : WordAt(lex, n) = graph <=> first <= n /\ n < first + size
  BY WordPlaces
<1>3. found = [k \in 1 .. size |-> all[first + k - 1]]
  <2>1. found = EntriesAt(all, first, size)
    BY <1>1, <1>2, EntriesOfAre
  <2> HIDE DEF found, all
  <2> QED  BY <2>1 DEF EntriesAt
<1> HIDE DEF found
<1>4. \A k \in 1 .. size : first + k - 1 \in 1 .. Count(lex) /\ all[first + k - 1] \in Located
  <2> SUFFICES ASSUME NEW k \in 1 .. size
               PROVE  first + k - 1 \in 1 .. Count(lex) /\ all[first + k - 1] \in Located
    OBVIOUS
  <2>1. first + k - 1 \in 1 .. Count(lex)
    BY <1>1, <1>2
  <2> HIDE DEF all
  <2> QED  BY <1>1, <2>1, ElementOfSeq DEF Count, all
<1> HIDE DEF all
<1>5. found \in Seq(Located) /\ Len(found) = size
  <2>1. found \in [1 .. size -> Located]
    BY <1>3, <1>4
  <2> QED  BY <2>1
<1>6. ASSUME NEW k \in 1 .. size
      PROVE  IndFound(lex, found[k].ind) /\ LexIndLookup(lex, found[k].ind) = found[k].entry
             /\ found[k].entry.graph = graph
  <2> DEFINE n == first + k - 1
  <2>1. n \in 1 .. Count(lex) /\ found[k] = all[n] /\ first <= n /\ n < first + size
    BY <1>1, <1>2, <1>3, <1>4
  <2> HIDE DEF n
  <2>2. WordAt(lex, n) = graph
    BY <1>2, <2>1
  <2>3. PICK b : InBlock(lex, n, b)
    BY <1>1, <2>1, HasBlock
  <2> DEFINE at == AllEntries(lex)[n]
             m == n - LaidBefore(lex, b)
  <2>4. /\ at = [entry |-> lex.blocks[b + 1][m], ind |-> b * BlockSize + m - 1]
        /\ at.ind \div BlockSize = b /\ at.ind % BlockSize = m - 1
        /\ at.ind < NrBlocks(lex) * BlockSize /\ m \in 1 .. Len(lex.blocks[b + 1])
    BY <1>1, <2>3, InBlockIs
  <2>5. b \in 0 .. NrBlocks(lex) - 1 /\ (m - 1) + 1 = m
    <3>1. m \in Int
      BY <2>4
    <3> HIDE DEF m
    <3> QED  BY <2>3, <3>1 DEF InBlock
  <2> HIDE DEF m
  <2>6. at.entry = lex.blocks[b + 1][m]
    BY <2>4
  <2> HIDE DEF at
  <2>7. LexIndLookup(lex, at.ind) = at.entry
    BY <2>4, <2>5, <2>6 DEF LexIndLookup
  <2>8. IndFound(lex, at.ind)
    BY <2>4 DEF IndFound
  <2>9. found[k] = at
    BY <2>1 DEF at, all
  <2>10. at.entry.graph = graph
    BY <2>2 DEF WordAt, at
  <2> QED  BY <2>7, <2>8, <2>9, <2>10
<1> QED  BY <1>5, <1>6 DEF found

-----------------------------------------------------------------------------
(* The word analysis.                                                       *)
WaFields == {"kind", "graph", "info1", "info2", "inds"}
IsWaInput(item) == WaFields \subseteq DOMAIN item /\ item.kind # "WORDINDEX" /\ item.graph \in Seq(1 .. 255)
WaInv ==
  /\ IsSeq(cbIn) /\ \A n \in 1 .. Len(cbIn) : IsWaInput(cbIn[n])
  /\ IsSeq(cbOut) /\ \A n \in 1 .. Len(cbOut) : Resolves(cbOut[n])
  /\ procState = "PROCESS" => \E item : waItem = << item >> /\ IsWaInput(item)
  /\ procState = "FEED" => \E item : waItem = << item >> /\ Resolves(item)

LEMMA UlexOrder == \A i \in DOMAIN Ulex : i \in Nat /\ i # 0
<1>1. Ulex \in Seq({Ulex[i] : i \in DOMAIN Ulex})
  BY WordAnaAssumption DEF WordAnaAssumption
<1>2. DOMAIN Ulex = 1 .. Len(Ulex) /\ Len(Ulex) \in Nat
  BY <1>1
<1> QED  BY <1>2

LEMMA LexNrIs == \A nr \in {0} \cup DOMAIN Ulex : WellFormed(LexNr(nr))
BY WordAnaAssumption, UlexOrder DEF WordAnaAssumption, LexNr

\* A lexicon has results for a word when it has entries of it.
LEMMA HasResults ==
  ASSUME NEW lex, WellFormed(lex), NEW graph \in Seq(1 .. 255)
  PROVE  LET found == EntriesOf(lex, graph)
             lexres == LexLookup(lex, graph)
         IN /\ lexres.res # << >> <=> found # << >>
            /\ found # << >> /\ ~lexres.phonfound => found[1].entry.g2p
            /\ found # << >> /\ lexres.phonfound =>
                 /\ NrExpected(found) \in 1 .. Len(found)
                 /\ DOMAIN lexres.res = 1 .. NrExpected(found)
                 /\ \A n \in 1 .. NrExpected(found) :
                      lexres.res[n].pos = found[n].entry.pos /\ lexres.res[n].ind = found[n].ind
<1> DEFINE found == EntriesOf(lex, graph)
           lexres == LexLookup(lex, graph)
           m == NrExpected(found)
<1>1. lexres = Expected(lex, graph)
  BY LookupFindsAll
<1>2. found \in Seq(Located)
  BY FoundIsThere
<1>3. lexres = IF found = << >> THEN NoResult
               ELSE IF found[1].entry.g2p
                 THEN [phonfound |-> FALSE, res |-> << [pos |-> found[1].entry.pos, ind |-> 0] >>]
               ELSE [phonfound |-> TRUE,
                     res |-> [k \in 1 .. m |-> [pos |-> found[k].entry.pos, ind |-> found[k].ind]]]
  <2> HIDE DEF lexres
  <2> QED  BY <1>1 DEF Expected
<1> HIDE DEF found, lexres, m
<1>4. CASE found = << >>
  BY <1>3, <1>4 DEF NoResult, found, lexres
<1>5. CASE found # << >> /\ found[1].entry.g2p
  <2>1. lexres.res = << [pos |-> found[1].entry.pos, ind |-> 0] >> /\ lexres.phonfound = FALSE
    BY <1>3, <1>5
  <2>2. lexres.res # << >>
    BY <2>1
  <2> QED  BY <1>5, <2>1, <2>2 DEF found, lexres
<1>6. CASE found # << >> /\ ~found[1].entry.g2p
  <2>1. Len(found) \in Nat /\ Len(found) # 0
    BY <1>2, <1>6, EmptySeq
  <2>2. m \in 1 .. Len(found)
    BY <2>1, LexiconAssumption DEF m, NrExpected
  <2>3. lexres.phonfound = TRUE
        /\ lexres.res = [k \in 1 .. m |-> [pos |-> found[k].entry.pos, ind |-> found[k].ind]]
    BY <1>3, <1>6
  <2>4. DOMAIN lexres.res = 1 .. m
        /\ \A n \in 1 .. m : lexres.res[n].pos = found[n].entry.pos /\ lexres.res[n].ind = found[n].ind
    BY <2>3
  <2>5. lexres.res # << >>
    <3>1. 1 \in DOMAIN lexres.res
      BY <2>1, <2>2, <2>4
    <3>2. DOMAIN << >> = {}
      OBVIOUS
    <3> HIDE DEF lexres
    <3> QED  BY <3>1, <3>2
  <2> QED  BY <1>6, <2>2, <2>3, <2>4, <2>5 DEF found, lexres, m
<1> QED  BY <1>4, <1>5, <1>6

\* The lexicon a word is found in is the first that has it.
LEMMA FoundIndexIs ==
  ASSUME NEW graph \in Seq(1 .. 255)
  PROVE  LET nr == FoundIndex(graph)
         IN /\ nr \in {0} \cup DOMAIN Ulex
            /\ nr # 0 => EntriesOf(LexNr(nr), graph) # << >>
            /\ \A i \in DOMAIN Ulex : (nr = 0 \/ i < nr) => EntriesOf(Ulex[i], graph) = << >>
<1> DEFINE nr == FoundIndex(graph)
           T == {i \in DOMAIN Ulex : LexLookup(Ulex[i], graph).res # << >>}
           IsLeast(i) == \A j \in T : i <= j
<1>1. \A i \in DOMAIN Ulex : i \in Nat /\ i # 0 /\ WellFormed(Ulex[i]) /\ LexNr(i) = Ulex[i]
  BY UlexOrder, WordAnaAssumption DEF WordAnaAssumption, LexNr
<1>2. ASSUME NEW i \in DOMAIN Ulex
      PROVE  i \in T <=> EntriesOf(Ulex[i], graph) # << >>
  <2>1. LexLookup(Ulex[i], graph).res # << >> <=> EntriesOf(Ulex[i], graph) # << >>
    BY <1>1, HasResults
  <2> QED  BY <2>1
<1>3. nr = IF T = {} THEN 0 ELSE CHOOSE i \in T : IsLeast(i)
  BY DEF FoundIndex
<1>4. T \subseteq DOMAIN Ulex /\ T \subseteq Nat
  BY <1>1
<1> HIDE DEF T, nr
<1>5. CASE T = {}
  BY <1>2, <1>3, <1>5 DEF nr
<1>6. CASE T # {}
  <2>1. \E i \in T : IsLeast(i)
    BY <1>4, <1>6, LeastMember
  <2> HIDE DEF IsLeast
  <2>2. nr \in T /\ IsLeast(nr)
    BY <1>3, <1>6, <2>1
  <2>3. nr \in DOMAIN Ulex /\ nr \in Nat /\ nr # 0 /\ LexNr(nr) = Ulex[nr]
    BY <1>1, <1>4, <2>2
  <2>4. ASSUME NEW i \in DOMAIN Ulex, i < nr PROVE EntriesOf(Ulex[i], graph) = << >>
    <3>1. i \notin T
      BY <1>1, <2>2, <2>3, <2>4 DEF IsLeast
    <3> QED  BY <1>2, <3>1
  <2>5. EntriesOf(LexNr(nr), graph) # << >>
    BY <1>2, <2>2, <2>3
  <2> QED  BY <2>3, <2>4, <2>5 DEF nr
<1> QED  BY <1>5, <1>6

LEMMA OneFound ==
  ASSUME NEW graph, NEW m \in {0} \cup DOMAIN Ulex, NEW n \in {0} \cup DOMAIN Ulex, FoundIn(m, graph), FoundIn(n, graph)
  PROVE  m = n
<1>1. \A i \in DOMAIN Ulex : i \in Nat /\ i # 0 /\ LexNr(i) = Ulex[i]
  BY UlexOrder DEF LexNr
<1>2. EntriesOf(LexNr(m), graph) # << >> /\ EntriesOf(LexNr(n), graph) # << >>
  BY DEF FoundIn
<1>3. \A i \in DOMAIN Ulex : (m = 0 \/ i < m) \/ (n = 0 \/ i < n) => EntriesOf(Ulex[i], graph) = << >>
  BY DEF FoundIn
<1>4. ASSUME m # n PROVE FALSE
  <2>1. CASE m = 0
    BY <1>1, <1>2, <1>3, <1>4, <2>1
  <2>2. CASE n = 0
    BY <1>1, <1>2, <1>3, <1>4, <2>2
  <2>3. CASE m # 0 /\ n # 0
    <3>1. m \in DOMAIN Ulex /\ n \in DOMAIN Ulex /\ m \in Nat /\ n \in Nat
      BY <1>1, <2>3
    <3>2. m < n \/ n < m
      BY <1>4, <3>1
    <3> QED  BY <1>1, <1>2, <1>3, <3>1, <3>2
  <2> QED  BY <2>1, <2>2, <2>3
<1> QED  BY <1>4

\* What is made of a word resolves.
LEMMA WordResolves ==
  ASSUME NEW x, IsWaInput(x), x.kind = "WORDGRAPH", NEW item,
         item \in Looked(x, FoundIndex(x.graph), LexLookup(LexNr(FoundIndex(x.graph)), x.graph))
  PROVE  Resolves(item)
<1> DEFINE graph == x.graph
           nr == FoundIndex(graph)
           lex == LexNr(nr)
           lexres == LexLookup(lex, graph)
           found == EntriesOf(lex, graph)
           m == NrExpected(found)
           poses == {lexres.res[n].pos : n \in DOMAIN lexres.res}
<1>1. graph \in Seq(1 .. 255) /\ {"kind", "graph", "info1", "info2", "inds"} \subseteq DOMAIN x
  BY DEF IsWaInput, WaFields
<1>2. /\ nr \in {0} \cup DOMAIN Ulex
      /\ nr # 0 => EntriesOf(LexNr(nr), graph) # << >>
      /\ \A i \in DOMAIN Ulex : (nr = 0 \/ i < nr) => EntriesOf(Ulex[i], graph) = << >>
  BY <1>1, FoundIndexIs
<1>3. WellFormed(lex)
  BY <1>2, LexNrIs
<1> HIDE DEF nr
<1>4. /\ lexres.res # << >> <=> found # << >>
      /\ found # << >> /\ ~lexres.phonfound => found[1].entry.g2p
      /\ found # << >> /\ lexres.phonfound =>
           /\ m \in 1 .. Len(found) /\ DOMAIN lexres.res = 1 .. m
           /\ \A n \in 1 .. m : lexres.res[n].pos = found[n].entry.pos /\ lexres.res[n].ind = found[n].ind
  <2> HIDE DEF lex, graph
  <2> QED  BY <1>1, <1>3, HasResults
<1>5. found # << >> => FoundIn(nr, graph)
  BY <1>2 DEF FoundIn
<1>6. item \in Looked(x, nr, lexres)
  BY DEF nr
<1> HIDE DEF lex, lexres, found, m, poses, graph
<1>7. CASE found = << >>
  <2>1. nr = 0
    BY <1>2, <1>7 DEF found, lex
  <2>2. lexres.res = << >>
    BY <1>4, <1>7
  <2>3. PICK p \in PosTags : item = [x EXCEPT !.info1 = {p}]
    <3>1. Looked(x, nr, lexres) = {[x EXCEPT !.info1 = {p}] : p \in PosTags}
      BY <2>2 DEF Looked
    <3> QED  BY <1>6, <3>1
  <2>4. item.kind = "WORDGRAPH" /\ item.graph = graph
    BY <1>1, <2>3 DEF graph
  <2>5. \A i \in {0} \cup DOMAIN Ulex : ~FoundIn(i, graph)
    <3> SUFFICES ASSUME NEW i \in {0} \cup DOMAIN Ulex, FoundIn(i, graph) PROVE FALSE
      OBVIOUS
    <3>1. CASE i = 0
      BY <1>7, <2>1, <3>1 DEF FoundIn, found, lex
    <3>2. CASE i # 0
      <4>1. i \in DOMAIN Ulex /\ LexNr(i) = Ulex[i]
        BY <3>2 DEF LexNr
      <4> QED  BY <1>2, <2>1, <4>1 DEF FoundIn
    <3> QED  BY <3>1, <3>2
  <2> QED  BY <2>4, <2>5 DEF Resolves, SpokenByRule
<1>8. CASE found # << >> /\ lexres.phonfound
  <2>1. lexres.res # << >>
    BY <1>4, <1>8
  <2>2. item = [x EXCEPT !.kind = "WORDINDEX", !.info1 = poses, !.info2 = nr,
                         !.inds = [n \in DOMAIN lexres.res |-> lexres.res[n].ind]]
    BY <1>6, <1>8, <2>1 DEF Looked, poses
  <2> DEFINE inds == [n \in DOMAIN lexres.res |-> lexres.res[n].ind]
  <2>3. item.kind = "WORDINDEX" /\ item.graph = graph /\ item.info1 = poses /\ item.info2 = nr /\ item.inds = inds
    <3> HIDE DEF inds
    <3>1. item = [x EXCEPT !.kind = "WORDINDEX", !.info1 = poses, !.info2 = nr, !.inds = inds]
      BY <2>2 DEF inds
    <3> QED  BY <1>1, <3>1 DEF graph
  <2>4. m \in 1 .. Len(found) /\ DOMAIN lexres.res = 1 .. m
        /\ \A n \in 1 .. m : lexres.res[n].pos = found[n].entry.pos /\ lexres.res[n].ind = found[n].ind
    BY <1>4, <1>8
  <2>5. inds = [n \in 1 .. m |-> found[n].ind]
    BY <2>4
  <2>6. found \in Seq(Located)
        /\ \A k \in 1 .. Len(found) :
             IndFound(lex, found[k].ind) /\ LexIndLookup(lex, found[k].ind) = found[k].entry
               /\ found[k].entry.graph = graph
    BY <1>3, FoundIsThere DEF found
  <2> HIDE DEF inds
  <2>7. \A n \in DOMAIN inds :
          /\ IndFound(lex, inds[n])
          /\ LexIndLookup(lex, inds[n]).graph = graph
          /\ LexIndLookup(lex, inds[n]).pos \in poses
    <3> SUFFICES ASSUME NEW n \in DOMAIN inds
                 PROVE  /\ IndFound(lex, inds[n])
                        /\ LexIndLookup(lex, inds[n]).graph = graph
                        /\ LexIndLookup(lex, inds[n]).pos \in poses
      OBVIOUS
    <3>1. n \in 1 .. m /\ inds[n] = found[n].ind /\ n \in 1 .. Len(found) /\ n \in DOMAIN lexres.res
      <4>1. n \in 1 .. m /\ inds[n] = found[n].ind
        BY <2>5
      <4>2. Len(found) \in Nat
        BY <2>6
      <4> QED  BY <2>4, <4>1, <4>2
    <3>2. IndFound(lex, inds[n]) /\ LexIndLookup(lex, inds[n]) = found[n].entry /\ found[n].entry.graph = graph
      BY <2>6, <3>1
    <3>3. found[n].entry.pos \in poses
      BY <2>4, <3>1 DEF poses
    <3> QED  BY <3>2, <3>3
  <2>8. IndicesResolve(item)
    BY <1>5, <1>8, <2>3, <2>5, <2>7 DEF IndicesResolve, found, lex, m
  <2> QED  BY <2>3, <2>8 DEF Resolves
<1>9. CASE found # << >> /\ ~lexres.phonfound
  <2>1. lexres.res # << >>
    BY <1>4, <1>9
  <2>2. item = [x EXCEPT !.info1 = poses]
    BY <1>6, <1>9, <2>1 DEF Looked, poses
  <2>3. item.kind = "WORDGRAPH" /\ item.graph = graph
    BY <1>1, <2>2 DEF graph
  <2>4. \A i \in {0} \cup DOMAIN Ulex : FoundIn(i, graph) => EntriesOf(LexNr(i), graph)[1].entry.g2p
    <3> SUFFICES ASSUME NEW i \in {0} \cup DOMAIN Ulex, FoundIn(i, graph)
                 PROVE  EntriesOf(LexNr(i), graph)[1].entry.g2p
      OBVIOUS
    <3>1. i = nr
      BY <1>2, <1>5, <1>9, OneFound
    <3> QED  BY <1>4, <1>9, <3>1 DEF found, lex
  <2> QED  BY <2>3, <2>4 DEF Resolves, SpokenByRule
<1> QED  BY <1>7, <1>8, <1>9

LEMMA WaStart == WaInit => WaInv
BY SeqEmpty DEF WaInit, UnitInit, WaInv

LEMMA WaSame == WaInv /\ UNCHANGED waVars => WaInv'
BY DEF WaInv, waVars, unitVars

LEMMA WaStepKeeps == WaInv /\ WaNext => WaInv'
<1> SUFFICES ASSUME WaInv, WaNext PROVE WaInv'
  OBVIOUS
<1> DEFINE In == IsSeq(cbIn) /\ \A n \in 1 .. Len(cbIn) : IsWaInput(cbIn[n])
           Out == IsSeq(cbOut) /\ \A n \in 1 .. Len(cbOut) : Resolves(cbOut[n])
           Working == procState = "PROCESS" => \E item : waItem = << item >> /\ IsWaInput(item)
           Feeding == procState = "FEED" => \E item : waItem = << item >> /\ Resolves(item)
<1>1. In /\ Out /\ Working /\ Feeding
  BY DEF WaInv
<1>2. ASSUME UNCHANGED cbIn PROVE In'
  BY <1>1, <1>2
<1>3. ASSUME UNCHANGED cbOut PROVE Out'
  BY <1>1, <1>3
<1>4. SUFFICES In' /\ Out' /\ Working' /\ Feeding'
  BY DEF WaInv
<1>5. CASE WaCollect
  <2>1. cbIn # << >> /\ cbIn' = Tail(cbIn) /\ waItem' = << Head(cbIn) >> /\ procState' = "PROCESS" /\ UNCHANGED cbOut
    BY <1>5 DEF WaCollect, Take, Go
  <2>2. /\ IsSeq(Tail(cbIn)) /\ Len(cbIn) >= 1 /\ Len(Tail(cbIn)) = Len(cbIn) - 1 /\ Head(cbIn) = cbIn[1]
        /\ \A i \in 1 .. Len(cbIn) - 1 : Tail(cbIn)[i] = cbIn[i + 1]
        /\ Len(cbIn) \in Nat
    BY <1>1, <2>1, SeqTail, SeqFacts
  <2>3. In'
    <3>1. \A i \in 1 .. Len(cbIn) - 1 : i + 1 \in 1 .. Len(cbIn)
      BY <2>2
    <3>2. \A i \in 1 .. Len(Tail(cbIn)) : IsWaInput(Tail(cbIn)[i])
      BY <1>1, <2>2, <3>1
    <3> QED  BY <2>1, <2>2, <3>2
  <2>4. Working'
    <3>1. IsWaInput(cbIn[1])
      BY <1>1, <2>2
    <3> QED  BY <2>1, <2>2, <3>1
  <2> QED  BY <1>3, <2>1, <2>3, <2>4
<1>6. CASE WaIdle
  BY <1>1, <1>2, <1>3, <1>6 DEF WaIdle, Return, NoTransfer
<1>7. CASE WaSkip
  BY <1>1, <1>2, <1>3, <1>7 DEF WaSkip, Leave, NoTransfer
<1>8. CASE WaCopy
  <2>1. procState = "PROCESS" /\ waItem[1].kind \notin {"WORDGRAPH", "OTHER"} /\ procState' = "FEED"
        /\ UNCHANGED << cbIn, cbOut, waItem >>
    BY <1>8 DEF WaCopy, Running, Go, NoTransfer, Held
  <2>2. PICK item : waItem = << item >> /\ IsWaInput(item)
    BY <1>1, <2>1
  <2>3. Resolves(item)
    BY <2>1, <2>2 DEF Resolves, IsWaInput
  <2> QED  BY <1>2, <1>3, <2>1, <2>2, <2>3
<1>9. CASE WaWord
  <2>1. procState = "PROCESS" /\ Held.kind = "WORDGRAPH" /\ procState' = "FEED" /\ UNCHANGED << cbIn, cbOut >>
    BY <1>9 DEF WaWord, Running, Go, NoTransfer
  <2>2. PICK x : waItem = << x >> /\ IsWaInput(x)
    BY <1>1, <2>1
  <2>3. Held = x
    BY <2>2 DEF Held
  <2>4. PICK item : item \in Looked(x, FoundIndex(x.graph), LexLookup(LexNr(FoundIndex(x.graph)), x.graph))
                    /\ waItem' = << item >>
    BY <1>9, <2>3 DEF WaWord
  <2>5. Resolves(item)
    BY <2>1, <2>2, <2>3, <2>4, WordResolves
  <2> QED  BY <1>2, <1>3, <2>1, <2>4, <2>5
<1>10. CASE WaFeed
  <2>1. procState = "FEED" /\ cbOut' = Append(cbOut, waItem[1]) /\ procState' = "COLLECT" /\ UNCHANGED cbIn
    BY <1>10 DEF WaFeed, Running, Put, Leave, Held
  <2>2. PICK item : waItem = << item >> /\ Resolves(item)
    BY <1>1, <2>1
  <2>3. cbOut' = Append(cbOut, item)
    BY <2>1, <2>2
  <2>4. /\ IsSeq(Append(cbOut, item)) /\ Len(Append(cbOut, item)) = Len(cbOut) + 1 /\ Len(cbOut) \in Nat
        /\ Append(cbOut, item)[Len(cbOut) + 1] = item
        /\ \A i \in 1 .. Len(cbOut) : Append(cbOut, item)[i] = cbOut[i]
    BY <1>1, SeqAppend, SeqFacts
  <2>5. \A i \in 1 .. Len(cbOut) + 1 : Resolves(Append(cbOut, item)[i])
    <3> SUFFICES ASSUME NEW i \in 1 .. Len(cbOut) + 1 PROVE Resolves(Append(cbOut, item)[i])
      OBVIOUS
    <3>1. i \in 1 .. Len(cbOut) \/ i = Len(cbOut) + 1
      BY <2>4
    <3> QED  BY <1>1, <2>2, <2>4, <3>1
  <2>6. Out'
    BY <2>3, <2>4, <2>5
  <2> QED  BY <1>2, <2>1, <2>6
<1>11. CASE WaFeedFull
  BY <1>1, <1>2, <1>3, <1>11 DEF WaFeedFull, Return, NoTransfer
<1>12. CASE Call /\ UNCHANGED waItem
  BY <1>1, <1>2, <1>3, <1>12 DEF Call
<1>13. CASE Arrive(WaInputs) /\ UNCHANGED waItem
  <2>1. UNCHANGED << cbOut, procState, waItem >>
    BY <1>13 DEF Arrive
  <2>2. PICK in \in WaInputs : cbIn' = Append(cbIn, Numbered(in, fed + 1))
    BY <1>13 DEF Arrive
  <2> DEFINE item == Numbered(in, fed + 1)
  <2>3. IsWaInput(item)
    <3>1. WaFields \subseteq DOMAIN in /\ in.kind # "WORDINDEX" /\ in.graph \in Seq(1 .. 255)
      BY WordAnaAssumption DEF WordAnaAssumption, WaFields
    <3>2. DOMAIN item = DOMAIN in \cup {"id"}
      BY DEF Numbered
    <3>3. item.kind = in.kind /\ item.graph = in.graph
      BY <3>1 DEF Numbered, WaFields
    <3> HIDE DEF item
    <3> QED  BY <3>1, <3>2, <3>3 DEF IsWaInput
  <2> HIDE DEF item
  <2>4. cbIn' = Append(cbIn, item)
    BY <2>2 DEF item
  <2>5. /\ IsSeq(Append(cbIn, item)) /\ Len(Append(cbIn, item)) = Len(cbIn) + 1 /\ Len(cbIn) \in Nat
        /\ Append(cbIn, item)[Len(cbIn) + 1] = item
        /\ \A i \in 1 .. Len(cbIn) : Append(cbIn, item)[i] = cbIn[i]
    BY <1>1, SeqAppend, SeqFacts
  <2>6. \A i \in 1 .. Len(cbIn) + 1 : IsWaInput(Append(cbIn, item)[i])
    <3> SUFFICES ASSUME NEW i \in 1 .. Len(cbIn) + 1 PROVE IsWaInput(Append(cbIn, item)[i])
      OBVIOUS
    <3>1. i \in 1 .. Len(cbIn) \/ i = Len(cbIn) + 1
      BY <2>5
    <3> QED  BY <1>1, <2>3, <2>5, <3>1
  <2>7. In'
    BY <2>4, <2>5, <2>6
  <2> QED  BY <1>1, <1>3, <2>1, <2>7
<1>14. CASE Fetch /\ UNCHANGED waItem
  <2>1. cbOut # << >> /\ cbOut' = Tail(cbOut) /\ UNCHANGED << cbIn, procState, waItem >>
    BY <1>14 DEF Fetch
  <2>2. /\ IsSeq(Tail(cbOut)) /\ Len(Tail(cbOut)) = Len(cbOut) - 1 /\ Len(cbOut) \in Nat
        /\ \A i \in 1 .. Len(cbOut) - 1 : Tail(cbOut)[i] = cbOut[i + 1]
    BY <1>1, <2>1, SeqTail, SeqFacts
  <2>3. \A i \in 1 .. Len(cbOut) - 1 : i + 1 \in 1 .. Len(cbOut)
    BY <2>2
  <2>4. \A i \in 1 .. Len(Tail(cbOut)) : Resolves(Tail(cbOut)[i])
    BY <1>1, <2>2, <2>3
  <2>5. Out'
    BY <2>1, <2>2, <2>4
  <2> QED  BY <1>1, <1>2, <2>1, <2>5
<1>15. CASE WaReset
  BY <1>15, SeqEmpty DEF WaReset, UnitReset
<1> QED  BY <1>5, <1>6, <1>7, <1>8, <1>9, <1>10, <1>11, <1>12, <1>13, <1>14, <1>15 DEF WaNext, WaStep

\* Whatever arrives, and however the unit is called and reset, it gives to the sentence
\* analysis only words that resolve: the indices of all entries of the word in the first
\* lexicon that has it, or none if they have to be spoken by rule (picowa.c).
THEOREM WaInductive == WaSpec => []WaInv
<1>1. WaInit => WaInv
  BY WaStart
<1>2. WaInv /\ [WaNext]_waVars => WaInv'
  BY WaSame, WaStepKeeps
<1> QED  BY <1>1, <1>2, PTL DEF WaSpec

\* What is fed resolves to what the lexica say of the word.
THEOREM WaLexiconResolves == WaSpec => []LexiconResolves
<1>1. WaInv => LexiconResolves
  <2> SUFFICES ASSUME WaInv, procState = "FEED", NEW n \in DOMAIN waItem PROVE Resolves(waItem[n])
    BY DEF LexiconResolves
  <2>1. PICK item : waItem = << item >> /\ Resolves(item)
    BY DEF WaInv
  <2>2. n = 1
    BY <2>1
  <2> QED  BY <2>1, <2>2
<1> QED  BY <1>1, WaInductive, PTL

\* And so does all that the units behind find in the buffer.
THEOREM WaWordsResolve == WaSpec => []WordsResolve
<1>1. WaInv => WordsResolve
  BY SeqFacts DEF WaInv, WordsResolve
<1> QED  BY <1>1, WaInductive, PTL

-----------------------------------------------------------------------------
(* The recursion of Uttered: that there is such a function, that what it    *)
(* gives for the first elements depends on nothing else, and its equations. *)
Utters(f, s, n) ==
  f = [i \in 0 .. n |->
        IF i = 0 THEN << >>
        ELSE IF Speaks(s[i]) THEN Append(f[i - 1], << s[i].id, s[i].ph, s[i].n >>) ELSE f[i - 1]]

LEMMA UttersExists ==
  ASSUME NEW s, NEW n \in Nat
  PROVE  \E f : Utters(f, s, n)
<1> DEFINE Bad == {i \in Nat : ~\E f : Utters(f, s, i)}
<1> SUFFICES ASSUME Bad # {} PROVE FALSE
  OBVIOUS
<1>1. PICK m \in Bad : \A k \in Bad : m <= k
  <2>1. Bad \subseteq Nat
    OBVIOUS
  <2> HIDE DEF Bad
  <2> QED  BY <2>1, LeastMember
<1>2. m # 0
  <2>1. Utters([i \in 0 .. 0 |-> << >>], s, 0)
    BY DEF Utters
  <2> QED  BY <2>1, <1>1
<1>3. m - 1 \in Nat /\ m - 1 \notin Bad
  BY <1>1, <1>2
<1>4. PICK g : Utters(g, s, m - 1)
  BY <1>3
<1> DEFINE f == [i \in 0 .. m |->
                  IF i = 0 THEN << >>
                  ELSE IF Speaks(s[i]) THEN Append(g[i - 1], << s[i].id, s[i].ph, s[i].n >>) ELSE g[i - 1]]
<1>5. \A i \in 0 .. m - 1 : f[i] = g[i]
  <2> SUFFICES ASSUME NEW i \in 0 .. m - 1 PROVE f[i] = g[i]
    OBVIOUS
  <2>1. g[i] = IF i = 0 THEN << >>
               ELSE IF Speaks(s[i]) THEN Append(g[i - 1], << s[i].id, s[i].ph, s[i].n >>) ELSE g[i - 1]
    BY <1>4 DEF Utters
  <2>2. i \in 0 .. m
    BY <1>3
  <2> QED  BY <2>1, <2>2, Zenon
<1>6. Utters(f, s, m)
  <2>1. \A i \in 0 .. m : i # 0 => i - 1 \in 0 .. m - 1
    BY <1>1
  <2>2. \A i \in 0 .. m : i # 0 => f[i - 1] = g[i - 1]
    <3> HIDE DEF f
    <3> QED BY <2>1, <1>5
  <2>3. f = [i \in 0 .. m |->
              IF i = 0 THEN << >>
              ELSE IF Speaks(s[i]) THEN Append(f[i - 1], << s[i].id, s[i].ph, s[i].n >>) ELSE f[i - 1]]
    BY <2>2, Zenon
  <2> HIDE DEF f
  <2> QED  BY <2>3 DEF Utters
<1> QED  BY <1>1, <1>6

LEMMA UttersAt ==
  ASSUME NEW f, NEW s, NEW n \in Nat, Utters(f, s, n)
  PROVE  /\ f[0] = << >>
         /\ \A i \in 1 .. n :
              f[i] = IF Speaks(s[i]) THEN Append(f[i - 1], << s[i].id, s[i].ph, s[i].n >>) ELSE f[i - 1]
<1>1. 0 \in 0 .. n /\ \A i \in 1 .. n : i \in 0 .. n /\ i # 0
  OBVIOUS
<1> QED  BY <1>1, Zenon DEF Utters

LEMMA UttersSeq ==
  ASSUME NEW f, NEW s, NEW n \in Nat, Utters(f, s, n)
  PROVE  \A i \in 0 .. n : IsSeq(f[i])
<1> DEFINE Bad == {i \in 0 .. n : ~IsSeq(f[i])}
<1> SUFFICES ASSUME Bad # {} PROVE FALSE
  OBVIOUS
<1>1. PICK m \in Bad : \A k \in Bad : m <= k
  <2>1. Bad \subseteq Nat
    OBVIOUS
  <2> HIDE DEF Bad
  <2> QED  BY <2>1, LeastMember
<1>2. m # 0
  BY <1>1, UttersAt, SeqEmpty
<1>3. m \in 1 .. n /\ IsSeq(f[m - 1])
  BY <1>1, <1>2
<1> DEFINE x == << s[m].id, s[m].ph, s[m].n >>
<1>4. f[m] = f[m - 1] \/ f[m] = Append(f[m - 1], x)
  BY <1>3, UttersAt
<1> HIDE DEF x
<1>5. IsSeq(Append(f[m - 1], x))
  BY <1>3, SeqAppend
<1>6. IsSeq(f[m])
  BY <1>3, <1>4, <1>5, Zenon
<1> QED  BY <1>1, <1>6

\* Elements that say the same.
Alike(x, y) == (Speaks(x) <=> Speaks(y)) /\ (Speaks(x) => x.id = y.id /\ x.ph = y.ph /\ x.n = y.n)

LEMMA UttersAlike ==
  ASSUME NEW f, NEW s, NEW n \in Nat, Utters(f, s, n),
         NEW g, NEW t, NEW k \in Nat, Utters(g, t, k),
         NEW m \in Nat, m <= n, m <= k, \A i \in 1 .. m : Alike(s[i], t[i])
  PROVE  f[m] = g[m]
<1> DEFINE Bad == {i \in 0 .. m : f[i] # g[i]}
<1> SUFFICES ASSUME Bad # {} PROVE FALSE
  OBVIOUS
<1>1. PICK j \in Bad : \A i \in Bad : j <= i
  <2>1. Bad \subseteq Nat
    OBVIOUS
  <2> HIDE DEF Bad
  <2> QED  BY <2>1, LeastMember
<1>2. j # 0
  BY <1>1, UttersAt
<1>3. j \in 1 .. m /\ j \in 1 .. n /\ j \in 1 .. k /\ f[j - 1] = g[j - 1]
  BY <1>1, <1>2
<1>4. /\ f[j] = IF Speaks(s[j]) THEN Append(f[j - 1], << s[j].id, s[j].ph, s[j].n >>) ELSE f[j - 1]
      /\ g[j] = IF Speaks(t[j]) THEN Append(g[j - 1], << t[j].id, t[j].ph, t[j].n >>) ELSE g[j - 1]
      /\ Alike(s[j], t[j])
  BY <1>3, UttersAt
<1>5. f[j] = g[j]
  BY <1>3, <1>4, Zenon DEF Alike
<1> QED  BY <1>1, <1>5

LEMMA UtteredIs ==
  ASSUME NEW s, IsSeq(s)
  PROVE  \E f : Utters(f, s, Len(s)) /\ Uttered(s) = f[Len(s)]
<1> DEFINE g == CHOOSE f : Utters(f, s, Len(s))
<1>1. Utters(g, s, Len(s))
  <2>1. \E f : Utters(f, s, Len(s))
    BY SeqFacts, UttersExists
  <2> QED  BY <2>1, Zenon
<1>2. Uttered(s) = g[Len(s)]
  BY Zenon DEF Uttered, Utters
<1> QED  BY <1>1, <1>2

LEMMA UtteredSeq == ASSUME NEW s, IsSeq(s) PROVE IsSeq(Uttered(s))
<1>1. PICK f : Utters(f, s, Len(s)) /\ Uttered(s) = f[Len(s)]
  BY UtteredIs
<1>2. Len(s) \in Nat /\ Len(s) \in 0 .. Len(s)
  BY SeqFacts
<1> QED  BY <1>1, <1>2, UttersSeq

LEMMA UtteredEmpty == Uttered(<< >>) = << >>
<1>1. PICK f : Utters(f, << >>, Len(<< >>)) /\ Uttered(<< >>) = f[Len(<< >>)]
  BY SeqEmpty, UtteredIs
<1> QED  BY <1>1, SeqEmpty, UttersAt

LEMMA UtteredAlike ==
  ASSUME NEW s, IsSeq(s), NEW t, IsSeq(t), Len(s) = Len(t),
         \A i \in 1 .. Len(s) : Alike(s[i], t[i])
  PROVE  Uttered(s) = Uttered(t)
<1>1. PICK f : Utters(f, s, Len(s)) /\ Uttered(s) = f[Len(s)]
  BY UtteredIs
<1>2. PICK g : Utters(g, t, Len(t)) /\ Uttered(t) = g[Len(t)]
  BY UtteredIs
<1>3. Len(s) \in Nat /\ Len(s) <= Len(s) /\ Len(s) <= Len(t)
  BY SeqFacts
<1>4. f[Len(s)] = g[Len(s)]
  BY <1>1, <1>2, <1>3, UttersAlike
<1> QED  BY <1>1, <1>2, <1>4

\* s and one more.
LEMMA UtteredAppend ==
  ASSUME NEW s, IsSeq(s), NEW x
  PROVE  Uttered(Append(s, x))
           = IF Speaks(x) THEN Append(Uttered(s), << x.id, x.ph, x.n >>) ELSE Uttered(s)
<1> DEFINE a == Append(s, x)
           n == Len(s)
<1>1. /\ IsSeq(a) /\ Len(a) = n + 1 /\ a[n + 1] = x /\ n \in Nat
      /\ \A i \in 1 .. n : a[i] = s[i]
  BY SeqAppend, SeqFacts
<1> HIDE DEF a
<1>2. PICK f : Utters(f, s, n) /\ Uttered(s) = f[n]
  BY UtteredIs
<1>3. PICK g : Utters(g, a, n + 1) /\ Uttered(a) = g[n + 1]
  BY <1>1, UtteredIs
<1> HIDE DEF n
<1>4. f[n] = g[n]
  <2>1. \A i \in 1 .. n : Alike(s[i], a[i])
    BY <1>1, Zenon DEF Alike
  <2>2. n + 1 \in Nat /\ n <= n /\ n <= n + 1
    BY <1>1
  <2> QED  BY <1>1, <1>2, <1>3, <2>1, <2>2, UttersAlike
<1>5. g[n + 1] = IF Speaks(x) THEN Append(g[n], << x.id, x.ph, x.n >>) ELSE g[n]
  <2>1. n + 1 \in 1 .. n + 1 /\ (n + 1) - 1 = n /\ n + 1 \in Nat
    BY <1>1
  <2> QED  BY <2>1, <1>1, <1>3, UttersAt
<1> QED  BY <1>2, <1>3, <1>4, <1>5, Zenon DEF a

\* s and then t.
LEMMA UtteredConcat ==
  ASSUME NEW s, IsSeq(s), NEW t, IsSeq(t)
  PROVE  Uttered(s \o t) = Uttered(s) \o Uttered(t)
<1> DEFINE u == s \o t
           n == Len(s)
           k == Len(t)
<1>1. /\ IsSeq(u) /\ Len(u) = n + k /\ n \in Nat /\ k \in Nat
      /\ \A i \in 1 .. n : u[i] = s[i] 
      /\ \A i \in 1 .. k : u[n + i] = t[i]
  BY SeqConcat, SeqFacts
<1> HIDE DEF u
<1>2. PICK f : Utters(f, s, n) /\ Uttered(s) = f[n]
  BY UtteredIs
<1>3. PICK h : Utters(h, t, k) /\ Uttered(t) = h[k]
  BY UtteredIs
<1>4. PICK g : Utters(g, u, n + k) /\ Uttered(u) = g[n + k]
  BY <1>1, UtteredIs
<1>0. n \in Nat /\ k \in Nat /\ n + k \in Nat
  BY SeqFacts
<1> HIDE DEF n, k
<1> DEFINE Bad == {i \in 0 .. k : g[n + i] # f[n] \o h[i]}
<1>5. \A i \in 0 .. k : g[n + i] = f[n] \o h[i]
  <2> SUFFICES ASSUME Bad # {} PROVE FALSE
    BY Zenon
  <2>1. PICK j \in Bad : \A i \in Bad : j <= i
    <3>1. Bad \subseteq Nat
      <4>1. 0 .. k \subseteq Nat
        BY <1>0
      <4> QED  BY <4>1, Zenon
    <3> HIDE DEF Bad
    <3> QED  BY <3>1, LeastMember
  <2>2. IsSeq(f[n]) /\ \A i \in 0 .. k : IsSeq(h[i])
    BY <1>1, <1>2, <1>3, UttersSeq
  <2>3. j # 0
    <3> SUFFICES ASSUME j = 0 PROVE FALSE
      OBVIOUS
    <3>1. f[n] = g[n]
      <4>1. \A i \in 1 .. n : Alike(s[i], u[i])
        BY <1>1, Zenon DEF Alike
      <4>2. n + k \in Nat /\ n <= n /\ n <= n + k
        BY <1>1
      <4> QED  BY <1>1, <1>2, <1>4, <4>1, <4>2, UttersAlike
    <3>2. h[0] = << >> /\ f[n] \o << >> = f[n] /\ n + 0 = n
      BY <1>1, <1>3, <2>2, UttersAt, SeqNothing
    <3> QED  BY <2>1, <3>1, <3>2
  <2>4. /\ j \in 1 .. k /\ j - 1 \in 0 .. k /\ n + j \in 1 .. n + k
        /\ (n + j) - 1 = n + (j - 1) /\ n + k \in Nat
        /\ g[n + (j - 1)] = f[n] \o h[j - 1]
    <3>1. j \in 1 .. k /\ j - 1 \in 0 .. k /\ n + j \in 1 .. n + k
          /\ (n + j) - 1 = n + (j - 1) /\ n + k \in Nat /\ ~(j <= j - 1)
      BY <1>1, <2>1, <2>3
    <3>2. j - 1 \notin Bad
      BY <2>1, <3>1
    <3> QED  BY <3>1, <3>2
  <2> DEFINE x == << t[j].id, t[j].ph, t[j].n >>
  <2>5. u[n + j] = t[j]
    BY <1>1, <2>4
  <2>6. g[n + j] = IF Speaks(t[j]) THEN Append(g[n + (j - 1)], x) ELSE g[n + (j - 1)]
    <3>1. g[n + j] = IF Speaks(u[n + j])
                     THEN Append(g[(n + j) - 1], << u[n + j].id, u[n + j].ph, u[n + j].n >>)
                     ELSE g[(n + j) - 1]
      <4>1. n + j \in 1 .. n + k /\ n + k \in Nat
        BY <2>4
      <4> QED  BY <1>4, <4>1, UttersAt
    <3> QED  BY <2>4, <2>5, <3>1, Zenon
  <2>7. h[j] = IF Speaks(t[j]) THEN Append(h[j - 1], x) ELSE h[j - 1]
    BY <1>0, <1>3, <2>4, UttersAt
  <2> HIDE DEF x
  <2>8. f[n] \o Append(h[j - 1], x) = Append(f[n] \o h[j - 1], x)
    <3>1. IsSeq(f[n]) /\ IsSeq(h[j - 1])
      BY <2>2, <2>4
    <3>2. \A a, b : IsSeq(a) /\ IsSeq(b) => a \o Append(b, x) = Append(a \o b, x)
      BY AppendBehind
    <3> QED  BY <3>1, <3>2, Zenon
  <2>9. g[n + j] = f[n] \o h[j]
    <3>1. g[n + (j - 1)] = f[n] \o h[j - 1]
      BY <2>4
    <3> QED  BY <3>1, <2>6, <2>7, <2>8, Zenon
  <2>10. \A i \in Bad : g[n + i] # f[n] \o h[i]
    BY Zenon
  <2> QED  BY <2>1, <2>9, <2>10, Zenon
<1>6. g[n + k] = f[n] \o h[k]
  <2>1. k \in 0 .. k
    BY <1>0
  <2> QED  BY <2>1, <1>5, Zenon
<1> QED  BY <1>2, <1>3, <1>4, <1>6 DEF u

-----------------------------------------------------------------------------
(* The phones of a sentence.                                                *)
\* What the first k phones of a syllable say, and the first n syllables.
PhoneOf(syl, j) == [id |-> syl.id, kind |-> "PHONE", ph |-> syl.phones[j], n |-> j]
PhonesTo(syl, k) == [j \in 1 .. k |-> PhoneOf(syl, j)]
SylSaid(syl, k) == Uttered(PhonesTo(syl, k))
Spells(f, u, n) ==
  f = [i \in 0 .. n |-> IF i = 0 THEN << >> ELSE f[i - 1] \o SylSaid(u[i], Len(u[i].phones))]
SentSaid(u, n) == (CHOOSE f : Spells(f, u, n))[n]

LEMMA PhonesToSeq ==
  ASSUME NEW syl, NEW k \in Nat
  PROVE  /\ IsSeq(PhonesTo(syl, k)) /\ Len(PhonesTo(syl, k)) = k
         /\ \A j \in 1 .. k : PhonesTo(syl, k)[j] = PhoneOf(syl, j)
<1> DEFINE S == {PhoneOf(syl, j) : j \in 1 .. k}
<1>1. PhonesTo(syl, k) \in [1 .. k -> S]
  BY DEF PhonesTo
<1> HIDE DEF S
<1>2. PhonesTo(syl, k) \in Seq(S) /\ Len(PhonesTo(syl, k)) = k
  <2> DEFINE p == PhonesTo(syl, k)
  <2>1. p \in [1 .. k -> S]
    BY <1>1
  <2> HIDE DEF p
  <2>2. p \in Seq(S) /\ Len(p) = k
    BY <2>1
  <2> QED  BY <2>2 DEF p
<1> QED  BY <1>2 DEF IsSeq, PhonesTo

LEMMA SylSaidSeq == ASSUME NEW syl, NEW k \in Nat PROVE IsSeq(SylSaid(syl, k))
BY PhonesToSeq, UtteredSeq DEF SylSaid

LEMMA SylSaidEmpty == ASSUME NEW syl PROVE SylSaid(syl, 0) = << >>
<1>1. PhonesTo(syl, 0) = << >>
  BY PhonesToSeq, SeqFacts
<1> QED  BY <1>1, UtteredEmpty DEF SylSaid

LEMMA SylSaidSame ==
  ASSUME NEW syl, NEW syl2, syl.id = syl2.id, syl.phones = syl2.phones, NEW k
  PROVE  SylSaid(syl, k) = SylSaid(syl2, k)
BY Zenon DEF SylSaid, PhonesTo, PhoneOf

LEMMA PhoneSpeaks ==
  ASSUME NEW syl, NEW j
  PROVE  /\ Speaks(PhoneOf(syl, j)) <=> syl.phones[j] # PausePhone
         /\ PhoneOf(syl, j).id = syl.id /\ PhoneOf(syl, j).ph = syl.phones[j] /\ PhoneOf(syl, j).n = j
BY DEF PhoneOf, Speaks

\* One phone more.
LEMMA SylSaidNext ==
  ASSUME NEW syl, NEW k \in Nat
  PROVE  SylSaid(syl, k + 1)
           = IF syl.phones[k + 1] # PausePhone
             THEN Append(SylSaid(syl, k), << syl.id, syl.phones[k + 1], k + 1 >>) ELSE SylSaid(syl, k)
<1> DEFINE p == PhonesTo(syl, k)
           q == PhonesTo(syl, k + 1)
           x == PhoneOf(syl, k + 1)
           a == Append(p, x)
<1>1. /\ IsSeq(p) /\ Len(p) = k /\ \A j \in 1 .. k : p[j] = PhoneOf(syl, j)
      /\ IsSeq(q) /\ Len(q) = k + 1 /\ \A j \in 1 .. k + 1 : q[j] = PhoneOf(syl, j)
  BY PhonesToSeq
<1>2. x.id = syl.id /\ x.ph = syl.phones[k + 1] /\ x.n = k + 1 /\ (Speaks(x) <=> syl.phones[k + 1] # PausePhone)
  BY PhoneSpeaks
<1>3. Uttered(p) = SylSaid(syl, k) /\ Uttered(q) = SylSaid(syl, k + 1) /\ x = PhoneOf(syl, k + 1)
  BY DEF SylSaid
<1> HIDE DEF p, q, x
<1>4. /\ IsSeq(a) /\ Len(a) = k + 1 /\ a[k + 1] = x
      /\ \A j \in 1 .. k : a[j] = p[j]
  BY <1>1, SeqAppend
<1>5. Uttered(a) = IF Speaks(x) THEN Append(Uttered(p), << x.id, x.ph, x.n >>) ELSE Uttered(p)
  BY <1>1, UtteredAppend
<1> HIDE DEF a
<1>6. q = a
  <2>1. ASSUME NEW j \in 1 .. k + 1 PROVE q[j] = a[j]
    <3>1. CASE j = k + 1
      BY <3>1, <1>1, <1>3, <1>4
    <3>2. CASE j # k + 1
      <4>1. j \in 1 .. k
        BY <3>2
      <4> QED  BY <4>1, <1>1, <1>4
    <3> QED  BY <3>1, <3>2
  <2> QED  BY <1>1, <1>4, <2>1, SameSeq
<1> QED  BY <1>2, <1>3, <1>5, <1>6, Zenon

LEMMA SylSaidPause ==
  ASSUME NEW syl, syl.phones = << PausePhone >>
  PROVE  SylSaid(syl, 1) = << >>
<1>1. SylSaid(syl, 0 + 1) = SylSaid(syl, 0)
  <2>1. syl.phones[0 + 1] = PausePhone
    OBVIOUS
  <2> QED  BY <2>1, SylSaidNext
<1> QED  BY <1>1, SylSaidEmpty

LEMMA SylSaidPrefix ==
  ASSUME NEW syl, NEW k \in Nat, NEW m \in Nat, k <= m
  PROVE  \E r : IsSeq(r) /\ SylSaid(syl, m) = SylSaid(syl, k) \o r
<1> DEFINE p == PhonesTo(syl, k)
           q == PhonesTo(syl, m)
           later == [j \in 1 .. m - k |-> PhoneOf(syl, k + j)]
           S == {PhoneOf(syl, j) : j \in 1 .. m}
           u == p \o later
<1>1. /\ IsSeq(p) /\ Len(p) = k /\ \A j \in 1 .. k : p[j] = PhoneOf(syl, j)
      /\ IsSeq(q) /\ Len(q) = m /\ \A j \in 1 .. m : q[j] = PhoneOf(syl, j)
  BY PhonesToSeq
<1>2. IsSeq(later) /\ Len(later) = m - k /\ \A j \in 1 .. m - k : later[j] = PhoneOf(syl, k + j)
  <2>1. m - k \in Nat /\ \A j \in 1 .. m - k : k + j \in 1 .. m
    OBVIOUS
  <2>2. later \in [1 .. m - k -> S]
    BY <2>1
  <2>3. \A j \in 1 .. m - k : later[j] = PhoneOf(syl, k + j)
    OBVIOUS
  <2> HIDE DEF later, S
  <2>4. later \in Seq(S) /\ Len(later) = m - k
    BY <2>1, <2>2
  <2> QED  BY <2>3, <2>4 DEF IsSeq
<1>3. Uttered(p) = SylSaid(syl, k) /\ Uttered(q) = SylSaid(syl, m)
  BY DEF SylSaid
<1> HIDE DEF p, q, later
<1>4. /\ IsSeq(u) /\ Len(u) = Len(p) + Len(later)
      /\ \A j \in 1 .. Len(p) : u[j] = p[j]
      /\ \A j \in 1 .. Len(later) : u[Len(p) + j] = later[j]
  <2>1. IsSeq(p) /\ IsSeq(later)
    BY <1>1, <1>2
  <2> QED  BY <2>1, SeqConcat
<1>5. Uttered(u) = Uttered(p) \o Uttered(later)
  BY <1>1, <1>2, UtteredConcat
<1> HIDE DEF u
<1>6. q = u
  <2>1. ASSUME NEW j \in 1 .. m PROVE q[j] = u[j]
    <3>1. CASE j <= k
      <4>1. j \in 1 .. k
        BY <3>1
      <4> QED  BY <4>1, <1>1, <1>4
    <3>2. CASE j > k
      <4>1. j - k \in 1 .. m - k /\ k + (j - k) = j
        BY <3>2
      <4>2. u[k + (j - k)] = PhoneOf(syl, k + (j - k))
        BY <4>1, <1>1, <1>2, <1>4
      <4> QED  BY <4>1, <4>2, <1>1
    <3> QED  BY <3>1, <3>2
  <2> QED  BY <1>1, <1>2, <1>4, <2>1, SameSeq
<1>7. IsSeq(Uttered(later))
  BY <1>2, UtteredSeq
<1> QED  BY <1>3, <1>5, <1>6, <1>7

(* The recursion over the syllables.                                        *)
LEMMA SpellsExists ==
  ASSUME NEW u, NEW n \in Nat
  PROVE  \E f : Spells(f, u, n)
<1> DEFINE Bad == {i \in Nat : ~\E f : Spells(f, u, i)}
           said(i) == SylSaid(u[i], Len(u[i].phones))
<1> SUFFICES ASSUME Bad # {} PROVE FALSE
  OBVIOUS
<1>1. PICK m \in Bad : \A k \in Bad : m <= k
  <2>1. Bad \subseteq Nat
    OBVIOUS
  <2> HIDE DEF Bad
  <2> QED  BY <2>1, LeastMember
<1>2. m # 0
  <2>1. Spells([i \in 0 .. 0 |-> << >>], u, 0)
    BY DEF Spells
  <2> QED  BY <2>1, <1>1
<1>3. m - 1 \in Nat /\ m - 1 \notin Bad
  BY <1>1, <1>2
<1>4. PICK g : Spells(g, u, m - 1)
  BY <1>3
<1>4a. g = [i \in 0 .. m - 1 |-> IF i = 0 THEN << >> ELSE g[i - 1] \o said(i)]
  BY <1>4 DEF Spells
<1> HIDE DEF said
<1> DEFINE f == [i \in 0 .. m |-> IF i = 0 THEN << >> ELSE g[i - 1] \o said(i)]
<1>5. \A i \in 0 .. m - 1 : f[i] = g[i]
  <2> SUFFICES ASSUME NEW i \in 0 .. m - 1 PROVE f[i] = g[i]
    OBVIOUS
  <2>1. g[i] = IF i = 0 THEN << >> ELSE g[i - 1] \o said(i)
    BY <1>4a, Zenon
  <2>2. i \in 0 .. m
    BY <1>3
  <2> QED  BY <2>1, <2>2, Zenon
<1>6. Spells(f, u, m)
  <2>1. \A i \in 0 .. m : i # 0 => i - 1 \in 0 .. m - 1
    BY <1>1
  <2>2. \A i \in 0 .. m : i # 0 => f[i - 1] = g[i - 1]
    <3> HIDE DEF f
    <3> QED BY <2>1, <1>5
  <2>3. f = [i \in 0 .. m |-> IF i = 0 THEN << >> ELSE f[i - 1] \o said(i)]
    BY <2>2, Zenon
  <2> HIDE DEF f
  <2> QED  BY <2>3, Zenon DEF Spells, said
<1> QED  BY <1>1, <1>6

LEMMA SpellsAt ==
  ASSUME NEW f, NEW u, NEW n \in Nat, Spells(f, u, n)
  PROVE  /\ f[0] = << >>
         /\ \A i \in 1 .. n : f[i] = f[i - 1] \o SylSaid(u[i], Len(u[i].phones))
<1>1. 0 \in 0 .. n /\ \A i \in 1 .. n : i \in 0 .. n /\ i # 0
  OBVIOUS
<1> QED  BY <1>1, Zenon DEF Spells

LEMMA SpellsBy ==
  \A f, u : \A n \in Nat : Spells(f, u, n) =>
    \A i \in 1 .. n : f[i] = f[i - 1] \o SylSaid(u[i], Len(u[i].phones))
BY SpellsAt, Zenon

\* Syllables that say the same.
Matching(u, v, m) == \A i \in 1 .. m : u[i].id = v[i].id /\ u[i].phones = v[i].phones

LEMMA SpellsMatching ==
  ASSUME NEW f, NEW u, NEW n \in Nat, Spells(f, u, n),
         NEW g, NEW v, NEW k \in Nat, Spells(g, v, k),
         NEW m \in Nat, m <= n, m <= k, Matching(u, v, m)
  PROVE  f[m] = g[m]
<1> DEFINE Bad == {i \in 0 .. m : f[i] # g[i]}
<1> SUFFICES ASSUME Bad # {} PROVE FALSE
  OBVIOUS
<1>1. PICK j \in Bad : \A i \in Bad : j <= i
  <2>1. Bad \subseteq Nat
    OBVIOUS
  <2> HIDE DEF Bad
  <2> QED  BY <2>1, LeastMember
<1>2. j # 0
  BY <1>1, SpellsAt
<1>3. j \in 1 .. m /\ j \in 1 .. n /\ j \in 1 .. k /\ f[j - 1] = g[j - 1]
  BY <1>1, <1>2
<1>4. u[j].id = v[j].id /\ u[j].phones = v[j].phones
  BY <1>3 DEF Matching
<1>5. SylSaid(u[j], Len(u[j].phones)) = SylSaid(v[j], Len(v[j].phones))
  BY <1>4, SylSaidSame
<1>6. /\ f[j] = f[j - 1] \o SylSaid(u[j], Len(u[j].phones))
      /\ g[j] = g[j - 1] \o SylSaid(v[j], Len(v[j].phones))
  BY <1>3, SpellsBy, ZenonT(60)
<1>7. f[j] = g[j]
  BY <1>3, <1>5, <1>6, Zenon
<1> QED  BY <1>1, <1>7

LEMMA SentSaidIs ==
  ASSUME NEW u, NEW n \in Nat
  PROVE  \E f : Spells(f, u, n) /\ SentSaid(u, n) = f[n]
<1> DEFINE g == CHOOSE f : Spells(f, u, n)
<1>1. Spells(g, u, n)
  <2>1. \E f : Spells(f, u, n)
    BY SpellsExists
  <2> QED  BY <2>1, Zenon
<1> QED  BY <1>1, Zenon DEF SentSaid

LEMMA SentEmpty == ASSUME NEW u PROVE SentSaid(u, 0) = << >>
<1>1. PICK f : Spells(f, u, 0) /\ SentSaid(u, 0) = f[0]
  BY SentSaidIs
<1> QED  BY <1>1, SpellsAt

LEMMA SentMatching ==
  ASSUME NEW u, NEW v, NEW n \in Nat, Matching(u, v, n)
  PROVE  SentSaid(u, n) = SentSaid(v, n)
<1>1. PICK f : Spells(f, u, n) /\ SentSaid(u, n) = f[n]
  BY SentSaidIs
<1>2. PICK g : Spells(g, v, n) /\ SentSaid(v, n) = g[n]
  BY SentSaidIs
<1>3. n <= n
  OBVIOUS
<1>4. f[n] = g[n]
  BY <1>1, <1>2, <1>3, SpellsMatching
<1> QED  BY <1>1, <1>2, <1>4

\* One syllable more.
LEMMA SentNext ==
  ASSUME NEW u, NEW n \in Nat
  PROVE  SentSaid(u, n + 1) = SentSaid(u, n) \o SylSaid(u[n + 1], Len(u[n + 1].phones))
<1>1. PICK f : Spells(f, u, n) /\ SentSaid(u, n) = f[n]
  BY SentSaidIs
<1>2. PICK g : Spells(g, u, n + 1) /\ SentSaid(u, n + 1) = g[n + 1]
  BY SentSaidIs
<1>3. n <= n /\ n <= n + 1 /\ n + 1 \in Nat /\ n + 1 \in 1 .. n + 1 /\ (n + 1) - 1 = n /\ Matching(u, u, n)
  BY DEF Matching
<1>4. f[n] = g[n]
  BY <1>1, <1>2, <1>3, SpellsMatching
<1>5. g[n + 1] = g[(n + 1) - 1] \o SylSaid(u[n + 1], Len(u[n + 1].phones))
  BY <1>2, <1>3, SpellsAt
<1> QED  BY <1>1, <1>2, <1>3, <1>4, <1>5

\* The first k syllables are a beginning of the first n; k = n says that all is
\* a sequence.
PhonesOK(phones) == IsSeq(phones) /\ phones # << >>
HavePhones(u, n) == \A i \in 1 .. n : PhonesOK(u[i].phones)
LEMMA PhonesLen == ASSUME NEW p, PhonesOK(p) PROVE Len(p) \in Nat /\ Len(p) >= 1
BY SeqFacts DEF PhonesOK

LEMMA SentPrefix ==
  ASSUME NEW u, NEW n \in Nat, HavePhones(u, n)
  PROVE  /\ \A i \in 0 .. n : IsSeq(SentSaid(u, i))
         /\ \A k \in 0 .. n : \E r : IsSeq(r) /\ SentSaid(u, n) = SentSaid(u, k) \o r
<1>1. \A i \in 0 .. n : IsSeq(SentSaid(u, i))
  <2> DEFINE Bad == {i \in 0 .. n : ~IsSeq(SentSaid(u, i))}
  <2> SUFFICES ASSUME Bad # {} PROVE FALSE
    OBVIOUS
  <2>1. PICK m \in Bad : \A k \in Bad : m <= k
    <3>1. Bad \subseteq Nat
      OBVIOUS
    <3> HIDE DEF Bad
    <3> QED  BY <3>1, LeastMember
  <2>2. m # 0
    BY <2>1, SentEmpty, SeqEmpty
  <2>3. PICK j \in 0 .. n - 1 : m = j + 1
    <3>1. m - 1 \in 0 .. n - 1 /\ m = (m - 1) + 1
      BY <2>1, <2>2
    <3> QED  BY <3>1
  <2>4. j \in Nat /\ j \in 0 .. n /\ j + 1 \in 1 .. n
    OBVIOUS
  <2>5. IsSeq(SentSaid(u, j))
    BY <2>1, <2>3, <2>4
  <2>6. Len(u[j + 1].phones) \in Nat
    BY <2>4, PhonesLen DEF HavePhones
  <2>7. IsSeq(SylSaid(u[j + 1], Len(u[j + 1].phones)))
    BY <2>6, SylSaidSeq
  <2>8. IsSeq(SentSaid(u, j + 1))
    <3>1. SentSaid(u, j + 1) = SentSaid(u, j) \o SylSaid(u[j + 1], Len(u[j + 1].phones))
      BY <2>4, SentNext
    <3>2. \A a, b : IsSeq(a) /\ IsSeq(b) => IsSeq(a \o b)
      BY SeqConcat
    <3> QED  BY <2>5, <2>7, <3>1, <3>2, Zenon
  <2> QED  BY <2>1, <2>3, <2>8
<1>2. ASSUME NEW k \in 0 .. n PROVE \E r : IsSeq(r) /\ SentSaid(u, n) = SentSaid(u, k) \o r
  <2> DEFINE Good(i) == \E r : IsSeq(r) /\ SentSaid(u, i) = SentSaid(u, k) \o r
             Bad == {i \in k .. n : ~Good(i)}
  <2> SUFFICES ASSUME Bad # {} PROVE FALSE
    <3>1. n \in k .. n
      OBVIOUS
    <3> QED  BY <3>1
  <2>1. PICK m \in Bad : \A i \in Bad : m <= i
    <3>1. Bad \subseteq Nat
      OBVIOUS
    <3> HIDE DEF Bad
    <3> QED  BY <3>1, LeastMember
  <2>2. m # k
    <3>1. SentSaid(u, k) = SentSaid(u, k) \o << >>
      BY <1>1, SeqNothing
    <3>2. Good(k)
      BY <3>1, SeqEmpty
    <3> HIDE DEF Good
    <3> QED  BY <2>1, <3>2
  <2>3. PICK j \in k .. n - 1 : m = j + 1
    <3>1. m - 1 \in k .. n - 1 /\ m = (m - 1) + 1
      <4> HIDE DEF Good
      <4> QED  BY <2>1, <2>2
    <3> QED  BY <3>1
  <2>4. j \in Nat /\ j \in 0 .. n /\ j \in k .. n /\ j + 1 \in 1 .. n
    OBVIOUS
  <2>5. Good(j)
    <3> HIDE DEF Good
    <3> QED  BY <2>1, <2>3, <2>4
  <2>6. PICK r : IsSeq(r) /\ SentSaid(u, j) = SentSaid(u, k) \o r
    BY <2>5
  <2> DEFINE next == SylSaid(u[j + 1], Len(u[j + 1].phones))
  <2>7. Len(u[j + 1].phones) \in Nat
    BY <2>4, PhonesLen DEF HavePhones
  <2>8. IsSeq(next)
    BY <2>7, SylSaidSeq
  <2>9. SentSaid(u, j + 1) = SentSaid(u, j) \o next
    BY <2>4, SentNext
  <2> HIDE DEF next
  <2>10. IsSeq(SentSaid(u, k)) /\ IsSeq(r \o next)
    BY <1>1, <2>6, <2>8, SeqConcat
  <2>11. SentSaid(u, j + 1) = SentSaid(u, k) \o (r \o next)
    <3>1. IsSeq(SentSaid(u, k)) /\ IsSeq(r) /\ IsSeq(next)
      BY <2>6, <2>8, <2>10
    <3>2. SentSaid(u, j + 1) = (SentSaid(u, k) \o r) \o next
      BY <2>6, <2>9, Zenon
    <3> DEFINE a == SentSaid(u, k)
    <3>3. IsSeq(a)
      BY <3>1
    <3> HIDE DEF a
    <3>4. (a \o r) \o next = a \o (r \o next)
      BY <3>1, <3>3, SeqAssoc, SMTT(60)
    <3> DEFINE x == (a \o r) \o next
               y == a \o (r \o next)
    <3>5. x = y
      BY <3>4
    <3>6. SentSaid(u, j + 1) = x
      BY <3>2 DEF a
    <3>7. y = SentSaid(u, k) \o (r \o next)
      BY DEF a
    <3> HIDE DEF x, y
    <3> QED  BY <3>5, <3>6, <3>7
  <2>12. Good(j + 1)
    BY <2>10, <2>11
  <2> HIDE DEF Good
  <2> QED  BY <2>1, <2>3, <2>12
<1> QED  BY <1>1, <1>2

-----------------------------------------------------------------------------
(* The sentence that is collected: every syllable has phones.               *)
SentOK(s) ==
  /\ "syls" \in DOMAIN s /\ IsSeq(s.syls)
  /\ \A n \in 1 .. Len(s.syls) :
       {"id", "phones", "events"} \subseteq DOMAIN s.syls[n] /\ PhonesOK(s.syls[n].phones)
Said(s) == SentSaid(s.syls, Len(s.syls))
\* s becomes t, with n syllables more.
Grown(s, t, n) == SentOK(t) /\ Len(t.syls) = Len(s.syls) + n

LEMMA SaidSeq == ASSUME NEW s, SentOK(s) PROVE IsSeq(Said(s)) /\ Len(s.syls) \in Nat
<1>1. Len(s.syls) \in Nat /\ HavePhones(s.syls, Len(s.syls))
  BY SeqFacts DEF SentOK, HavePhones
<1>2. Len(s.syls) \in 0 .. Len(s.syls)
  BY <1>1
<1> QED  BY <1>1, <1>2, SentPrefix DEF Said

LEMMA NothingSaid ==
  SentOK(NoSentence) /\ Len(NoSentence.syls) = 0 /\ Said(NoSentence) = << >>
<1>1. NoSentence.syls = << >> /\ IsSeq(<< >>) /\ Len(<< >>) = 0
  BY SeqEmpty DEF NoSentence
<1>2. SentOK(NoSentence)
  BY <1>1 DEF SentOK, NoSentence
<1> QED  BY <1>1, <1>2, SentEmpty DEF Said

LEMMA SaidNone == ASSUME NEW s, Len(s.syls) = 0 PROVE Said(s) = << >>
BY SentEmpty DEF Said

LEMMA WithTypesKeeps ==
  ASSUME NEW s, SentOK(s), NEW item
  PROVE  Grown(s, WithTypes(s, item), 0) /\ Said(WithTypes(s, item)) = Said(s)
<1> DEFINE t == WithTypes(s, item)
<1>1. t.syls = s.syls /\ DOMAIN t = DOMAIN s
  BY DEF SentOK, WithTypes
<1> HIDE DEF t
<1>2. SentOK(t)
  BY <1>1, Zenon DEF SentOK
<1>3. Len(t.syls) = Len(s.syls) + 0 /\ Said(t) = Said(s)
  BY <1>1, SaidSeq DEF Said
<1> QED  BY <1>2, <1>3 DEF t, Grown

\* One syllable behind the others.
LEMMA SyllableAdded ==
  ASSUME NEW s, SentOK(s), NEW t, NEW syl,
         DOMAIN t = DOMAIN s, t.syls = Append(s.syls, syl),
         {"id", "phones", "events"} \subseteq DOMAIN syl, PhonesOK(syl.phones)
  PROVE  Grown(s, t, 1) /\ Said(t) = Said(s) \o SylSaid(syl, Len(syl.phones))
<1> DEFINE u == s.syls
           v == t.syls
           n == Len(u)
<1>1. IsSeq(u) /\ n \in Nat
  BY SeqFacts DEF SentOK
<1>2. v = Append(u, syl)
  OBVIOUS
<1>3. /\ IsSeq(v) /\ Len(v) = n + 1 /\ v[n + 1] = syl
      /\ \A i \in 1 .. n : v[i] = u[i]
  <2> HIDE DEF u, v
  <2> QED  BY <1>1, <1>2, SeqAppend
<1>4. SentOK(t)
  <2>1. "syls" \in DOMAIN t /\ t.syls = v
    BY DEF SentOK
  <2>2. ASSUME NEW i \in 1 .. n + 1
        PROVE  {"id", "phones", "events"} \subseteq DOMAIN v[i] /\ PhonesOK(v[i].phones)
    <3>1. CASE i = n + 1
      BY <3>1, <1>3
    <3>2. CASE i # n + 1
      <4>1. i \in 1 .. n /\ v[i] = u[i]
        BY <3>2, <1>1, <1>3
      <4> QED  BY <4>1 DEF SentOK
    <3> QED  BY <3>1, <3>2
  <2> QED  BY <2>1, <2>2, <1>3 DEF SentOK
<1>5. Said(t) = SentSaid(v, n + 1) /\ Said(s) = SentSaid(u, n)
  BY <1>3 DEF Said
<1> HIDE DEF u, v, n
<1>6. SentSaid(v, n + 1) = SentSaid(v, n) \o SylSaid(v[n + 1], Len(v[n + 1].phones))
  BY <1>1, SentNext
<1>7. SentSaid(v, n) = SentSaid(u, n)
  <2>1. Matching(v, u, n)
    BY <1>3 DEF Matching
  <2> QED  BY <2>1, <1>1, SentMatching
<1>8. Said(t) = Said(s) \o SylSaid(syl, Len(syl.phones))
  BY <1>3, <1>5, <1>6, <1>7, Zenon
<1>9. Grown(s, t, 1)
  BY <1>3, <1>4 DEF Grown, u, v, n
<1> QED  BY <1>8, <1>9

LEMMA PauseAdds ==
  ASSUME NEW s, SentOK(s), NEW id, NEW kind, NEW limits
  PROVE  Grown(s, CreatePause(s, id, kind, limits), 1) /\ Said(CreatePause(s, id, kind, limits)) = Said(s)
<1> DEFINE t == CreatePause(s, id, kind, limits)
           syl == [id |-> id, pause |-> TRUE, bnd |-> kind, limits |-> PauseLimits(kind, limits),
                   phones |-> << PausePhone >>, acc |-> 0, sType |-> s.sType, pType |-> s.pType,
                   events |-> << >>]
<1>1. DOMAIN t = DOMAIN s /\ t.syls = Append(s.syls, syl)
  BY DEF SentOK, CreatePause
<1>2. {"id", "phones", "events"} \subseteq DOMAIN syl /\ syl.phones = << PausePhone >>
  OBVIOUS
<1>3. PhonesOK(syl.phones) /\ Len(syl.phones) = 1
  <2>1. IsSeq(<< PausePhone >>) /\ Len(<< PausePhone >>) = 1
    BY SeqOne
  <2> HIDE DEF syl
  <2> QED  BY <1>2, <2>1, SeqEmpty DEF PhonesOK
<1> HIDE DEF t, syl
<1>4. Grown(s, t, 1) /\ Said(t) = Said(s) \o SylSaid(syl, Len(syl.phones))
  BY <1>1, <1>2, <1>3, SyllableAdded
<1>5. SylSaid(syl, Len(syl.phones)) = << >>
  BY <1>2, <1>3, SylSaidPause
<1>6. IsSeq(Said(s)) /\ Said(t) = Said(s) \o << >>
  BY <1>4, <1>5, SaidSeq
<1>7. Said(t) = Said(s)
  <2> DEFINE a == Said(s)
  <2>1. IsSeq(a) /\ Said(t) = a \o << >>
    BY <1>6
  <2> HIDE DEF a
  <2>2. Said(t) = a
    BY <2>1, SeqNothing
  <2> QED  BY <2>2 DEF a
<1> QED  BY <1>4, <1>7 DEF t

LEMMA SyllableAdds ==
  ASSUME NEW s, SentOK(s), NEW item, PhonesOK(item.phones)
  PROVE  /\ Grown(s, CreateSyllable(s, item), 1)
         /\ Said(CreateSyllable(s, item)) = Said(s) \o SylSaid(item, Len(item.phones))
<1> DEFINE t == CreateSyllable(s, item)
           syl == [id |-> item.id, pause |-> FALSE, bnd |-> "none", limits |-> << 0, 0 >>,
                   phones |-> item.phones, acc |-> item.acc, sType |-> s.sType, pType |-> s.pType,
                   events |-> << >>]
<1>1. DOMAIN t = DOMAIN s /\ t.syls = Append(s.syls, syl)
  BY DEF SentOK, CreateSyllable
<1>2. {"id", "phones", "events"} \subseteq DOMAIN syl /\ syl.phones = item.phones /\ syl.id = item.id
  OBVIOUS
<1> HIDE DEF t, syl
<1>3. Grown(s, t, 1) /\ Said(t) = Said(s) \o SylSaid(syl, Len(syl.phones))
  BY <1>1, <1>2, SyllableAdded
<1>4. SylSaid(syl, Len(syl.phones)) = SylSaid(item, Len(item.phones))
  BY <1>2, SylSaidSame
<1>5. Said(t) = Said(s) \o SylSaid(item, Len(item.phones))
  BY <1>3, <1>4, Zenon
<1> QED  BY <1>3, <1>5 DEF t

LEMMA SeqExcept ==
  ASSUME NEW s, IsSeq(s), NEW i \in 1 .. Len(s), NEW e
  PROVE  /\ IsSeq([s EXCEPT ![i] = e]) /\ Len([s EXCEPT ![i] = e]) = Len(s)
         /\ [s EXCEPT ![i] = e][i] = e
         /\ \A j \in 1 .. Len(s) : j # i => [s EXCEPT ![i] = e][j] = s[j]
<1>1. PICK S : s \in Seq(S)
  BY DEF IsSeq
<1> DEFINE U == S \cup {e}
<1>2. s \in Seq(U) /\ e \in U
  BY <1>1
<1> HIDE DEF U
<1>3. [s EXCEPT ![i] = e] \in Seq(U)
  BY <1>2
<1> QED  BY <1>2, <1>3 DEF IsSeq

LEMMA EventKeeps ==
  ASSUME NEW s, SentOK(s), Len(s.syls) > 0, NEW e
  PROVE  Grown(s, ProcessEvent(s, e), 0) /\ Said(ProcessEvent(s, e)) = Said(s)
<1> DEFINE t == ProcessEvent(s, e)
           u == s.syls
           n == Len(u)
           syl == [u[n] EXCEPT !.events = Append(@, e)]
           v == [u EXCEPT ![n] = syl]
<1>1. IsSeq(u) /\ n \in Nat /\ n \in 1 .. n
  BY SeqFacts DEF SentOK
<1>2. DOMAIN t = DOMAIN s /\ t.syls = v
  BY DEF SentOK, ProcessEvent
<1>3. {"id", "phones", "events"} \subseteq DOMAIN u[n] /\ PhonesOK(u[n].phones)
  BY <1>1 DEF SentOK
<1>4. DOMAIN syl = DOMAIN u[n] /\ syl.phones = u[n].phones /\ syl.id = u[n].id
  BY <1>3
<1>5. /\ IsSeq(v) /\ Len(v) = n /\ v[n] = syl
      /\ \A j \in 1 .. n : j # n => v[j] = u[j]
  <2> HIDE DEF syl, u
  <2> QED  BY <1>1, SeqExcept
<1>6. SentOK(t)
  <2> HIDE DEF t, v
  <2>1. t.syls = v /\ "syls" \in DOMAIN t
    BY <1>2 DEF SentOK
  <2>3. ASSUME NEW i \in 1 .. n
        PROVE  {"id", "phones", "events"} \subseteq DOMAIN v[i] /\ PhonesOK(v[i].phones)
    <3>1. CASE i = n
      BY <3>1, <1>3, <1>4, <1>5
    <3>2. CASE i # n
      <4>1. v[i] = u[i]
        BY <3>2, <1>5
      <4> QED  BY <4>1 DEF SentOK
    <3> QED  BY <3>1, <3>2
  <2> QED  BY <2>1, <2>3, <1>5 DEF SentOK
<1>7. t.syls = v
  BY <1>2
<1>8. Matching(v, u, n)
  <2> HIDE DEF v, syl
  <2> QED  BY <1>4, <1>5 DEF Matching
<1> HIDE DEF t, v, u, n, syl
<1>9. Said(t) = SentSaid(v, n) /\ Said(s) = SentSaid(u, n)
  BY <1>5, <1>7 DEF Said, u, n
<1>10. Said(t) = Said(s)
  BY <1>1, <1>8, <1>9, SentMatching
<1>11. Len(t.syls) = Len(s.syls) + 0
  BY <1>1, <1>5, <1>7 DEF u, n
<1> QED  BY <1>6, <1>10, <1>11 DEF Grown, t

\* The forward step: a syllable adds what it says, all the rest says nothing.
Forwards(s, item) ==
  /\ item.kind \in BoundKinds \cup {"SYLL"} /\ (item.kind = "SYLL" => PhonesOK(item.phones))
  /\ item.kind = "SBEG" => Len(s.syls) = 0
  /\ item.kind \in {"PHR0", "PHR3"} => Len(s.syls) > 0
SaysOf(item) == IF item.kind = "SYLL" THEN SylSaid(item, Len(item.phones)) ELSE << >>
\* The syllables there are then: a syllable, or a pause, or both.
Growth(s, item) ==
  IF item.kind \in {"PHR0", "PHR3"} THEN 0 ELSE IF item.kind = "SYLL" /\ Len(s.syls) = 0 THEN 2 ELSE 1

LEMMA OpenedKeeps ==
  ASSUME NEW s, SentOK(s)
  PROVE  /\ Len(s.syls) = 0 => Grown(s, Opened(s), 1)
         /\ Len(s.syls) # 0 => Grown(s, Opened(s), 0)
         /\ Said(Opened(s)) = Said(s)
<1>1. Len(s.syls) \in Nat /\ (Len(s.syls) = 0 <=> s.syls = << >>)
  BY SeqFacts DEF SentOK
<1>2. CASE s.syls # << >>
  <2>1. Opened(s) = s /\ Len(s.syls) # 0
    BY <1>1, <1>2 DEF Opened
  <2> QED  BY <1>1, <2>1 DEF Grown
<1>3. CASE s.syls = << >>
  <2> DEFINE p == CreatePause(NoSentence, 0, "SBEG", << 0, 0 >>)
             q == ProcessEvent(p, "P")
  <2>1. Grown(NoSentence, p, 1) /\ Said(p) = Said(NoSentence)
    BY NothingSaid, PauseAdds
  <2> HIDE DEF p
  <2>2. SentOK(p) /\ Len(p.syls) = 1 /\ Said(p) = << >>
    BY <2>1, NothingSaid DEF Grown
  <2>3. Grown(p, q, 0) /\ Said(q) = Said(p)
    BY <2>2, EventKeeps
  <2>4. Opened(s) = q
    BY <1>3 DEF Opened, p
  <2>5. Said(s) = << >>
    BY <1>1, <1>3, SaidNone
  <2> HIDE DEF q
  <2> QED  BY <1>1, <1>3, <2>2, <2>3, <2>4, <2>5 DEF Grown
<1> QED  BY <1>2, <1>3

LEMMA ForwardKeeps ==
  ASSUME NEW s, SentOK(s), NEW item, Forwards(s, item)
  PROVE  /\ Grown(s, ForwardStep(s, item), Growth(s, item))
         /\ Said(ForwardStep(s, item)) = Said(s) \o SaysOf(item)
<1> DEFINE t == ForwardStep(s, item)
<1>1. Len(s.syls) \in Nat /\ IsSeq(Said(s))
  BY SaidSeq
<1>2. Said(s) \o << >> = Said(s)
  BY <1>1, SeqNothing
<1>3. CASE item.kind = "SBEG"
  <2> DEFINE p == WithTypes(NoSentence, item)
             q == CreatePause(p, item.id, "SBEG", item.limits)
  <2>1. Grown(NoSentence, p, 0) /\ Said(p) = << >>
    BY NothingSaid, WithTypesKeeps
  <2> HIDE DEF p
  <2>2. SentOK(p) /\ Len(p.syls) = 0
    BY <2>1, NothingSaid DEF Grown
  <2>3. Grown(p, q, 1) /\ Said(q) = Said(p)
    BY <2>2, PauseAdds
  <2>4. t = ProcessEvent(q, "P")
    BY <1>3 DEF ForwardStep, p
  <2> HIDE DEF q, t
  <2>5. Grown(q, t, 0) /\ Said(t) = Said(q)
    BY <2>2, <2>3, <2>4, EventKeeps DEF Grown
  <2>6. Len(s.syls) = 0 /\ Said(s) = << >> /\ SaysOf(item) = << >> /\ Growth(s, item) = 1
    BY <1>3, SaidNone DEF Forwards, SaysOf, Growth
  <2>7. Grown(s, t, 1)
    BY <2>2, <2>3, <2>5, <2>6 DEF Grown
  <2> QED  BY <1>2, <2>1, <2>3, <2>5, <2>6, <2>7 DEF t
<1>4. CASE item.kind \in {"PHR1", "PHR2"}
  <2> DEFINE p == WithTypes(s, item)
             q == CreatePause(p, item.id, item.kind, item.limits)
  <2>1. Grown(s, p, 0) /\ Said(p) = Said(s)
    BY WithTypesKeeps
  <2> HIDE DEF p
  <2>2. SentOK(p) /\ Len(p.syls) = Len(s.syls)
    BY <1>1, <2>1 DEF Grown
  <2>3. Grown(p, q, 1) /\ Said(q) = Said(p)
    BY <2>2, PauseAdds
  <2>4. t = ProcessEvent(q, "P")
    BY <1>4 DEF ForwardStep, p
  <2> HIDE DEF q, t
  <2>5. Grown(q, t, 0) /\ Said(t) = Said(q)
    BY <1>1, <2>2, <2>3, <2>4, EventKeeps DEF Grown
  <2>6. SaysOf(item) = << >> /\ Growth(s, item) = 1
    BY <1>4 DEF SaysOf, Growth
  <2>7. Grown(s, t, 1)
    BY <1>1, <2>2, <2>3, <2>5 DEF Grown
  <2> QED  BY <1>2, <2>1, <2>3, <2>5, <2>6, <2>7 DEF t
<1>5. CASE item.kind \in {"PHR0", "PHR3"}
  <2>1. Len(s.syls) > 0 /\ SaysOf(item) = << >> /\ Growth(s, item) = 0
    BY <1>5, <1>1 DEF Forwards, SaysOf, Growth
  <2>2. \A e : Grown(s, ProcessEvent(s, e), 0) /\ Said(ProcessEvent(s, e)) = Said(s)
    BY <2>1, EventKeeps
  <2>3. CASE item.kind = "PHR0"
    <3>1. t = ProcessEvent(s, "W")
      BY <2>3 DEF ForwardStep
    <3> HIDE DEF t
    <3> QED  BY <1>2, <2>1, <2>2, <3>1 DEF t
  <2>4. CASE item.kind = "PHR3"
    <3> DEFINE p == ProcessEvent(s, "S")
    <3>1. t = WithTypes(p, item)
      BY <2>4 DEF ForwardStep
    <3>2. Grown(s, p, 0) /\ Said(p) = Said(s)
      BY <2>2
    <3> HIDE DEF p, t
    <3>3. Grown(p, t, 0) /\ Said(t) = Said(p)
      BY <3>1, <3>2, WithTypesKeeps DEF Grown
    <3>4. Grown(s, t, 0)
      BY <1>1, <3>2, <3>3 DEF Grown
    <3> QED  BY <1>2, <2>1, <3>2, <3>3, <3>4 DEF t
  <2> QED  BY <1>5, <2>3, <2>4
<1>6. CASE item.kind \in {"SEND", "TERM"}
  <2> DEFINE q == CreatePause(s, item.id, item.kind, item.limits)
  <2>1. Grown(s, q, 1) /\ Said(q) = Said(s)
    BY PauseAdds
  <2>2. t = ProcessEvent(q, "P")
    BY <1>6 DEF ForwardStep
  <2> HIDE DEF q, t
  <2>3. Grown(q, t, 0) /\ Said(t) = Said(q)
    BY <1>1, <2>1, <2>2, EventKeeps DEF Grown
  <2>4. SaysOf(item) = << >> /\ Growth(s, item) = 1
    BY <1>6 DEF SaysOf, Growth
  <2>5. Grown(s, t, 1)
    BY <1>1, <2>1, <2>3 DEF Grown
  <2> QED  BY <1>2, <2>1, <2>3, <2>4, <2>5 DEF t
<1>7. CASE item.kind = "SYLL"
  <2> DEFINE p == Opened(s)
             q == CreateSyllable(p, item)
  <2>1. /\ Len(s.syls) = 0 => Grown(s, p, 1)
        /\ Len(s.syls) # 0 => Grown(s, p, 0)
        /\ Said(p) = Said(s)
    BY OpenedKeeps
  <2>2. PhonesOK(item.phones)
    BY <1>7 DEF Forwards
  <2>3. t = ProcessEvent(q, "SYLL")
    BY <1>7 DEF ForwardStep
  <2> HIDE DEF p
  <2>4. SentOK(p) /\ Len(p.syls) = IF Len(s.syls) = 0 THEN 1 ELSE Len(s.syls)
    <3>1. CASE Len(s.syls) = 0
      BY <2>1, <3>1 DEF Grown
    <3>2. CASE Len(s.syls) # 0
      BY <1>1, <2>1, <3>2 DEF Grown
    <3> QED  BY <3>1, <3>2
  <2>5. Grown(p, q, 1) /\ Said(q) = Said(p) \o SylSaid(item, Len(item.phones))
    BY <2>2, <2>4, SyllableAdds
  <2> HIDE DEF q, t
  <2>6. SentOK(q) /\ Len(q.syls) = Len(p.syls) + 1
    BY <2>5 DEF Grown
  <2>7. Grown(q, t, 0) /\ Said(t) = Said(q)
    BY <1>1, <2>3, <2>4, <2>6, EventKeeps
  <2>8. SaysOf(item) = SylSaid(item, Len(item.phones)) /\ Growth(s, item) = IF Len(s.syls) = 0 THEN 2 ELSE 1
    BY <1>7 DEF SaysOf, Growth
  <2>9. Grown(s, t, Growth(s, item))
    <3>1. SentOK(t) /\ Len(t.syls) = Len(q.syls) + 0
      BY <2>7 DEF Grown
    <3>2. Len(t.syls) = Len(s.syls) + Growth(s, item)
      <4>1. CASE Len(s.syls) = 0
        <5>1. Growth(s, item) = 2 /\ Len(p.syls) = 1
          BY <2>4, <2>8, <4>1
        <5> QED  BY <2>6, <3>1, <4>1, <5>1
      <4>2. CASE Len(s.syls) # 0
        <5>1. Growth(s, item) = 1 /\ Len(p.syls) = Len(s.syls)
          BY <2>4, <2>8, <4>2
        <5> QED  BY <1>1, <2>6, <3>1, <5>1
      <4> QED  BY <4>1, <4>2
    <3> QED  BY <3>1, <3>2 DEF Grown
  <2>10. Said(t) = Said(s) \o SaysOf(item)
    BY <2>1, <2>5, <2>7, <2>8, Zenon
  <2> QED  BY <2>9, <2>10 DEF t
<1> QED  BY <1>3, <1>4, <1>5, <1>6, <1>7 DEF Forwards, BoundKinds, PauseBounds

-----------------------------------------------------------------------------
(* The cursor in a sentence, and what has been put of it.                   *)
CursorSaid(s, cur) == SentSaid(s.syls, cur.syll) \o SylSaid(s.syls[cur.syll + 1], cur.ph)
CursorAt(s, cur) ==
  /\ cur.syll \in 0 .. Len(s.syls) /\ cur.ph \in Nat
  /\ cur.syll = Len(s.syls) => cur.ph = 0
  /\ cur.syll < Len(s.syls) => cur.ph <= Len(s.syls[cur.syll + 1].phones)

LEMMA CursorSaidSeq ==
  ASSUME NEW s, SentOK(s), NEW cur, CursorAt(s, cur)
  PROVE  IsSeq(CursorSaid(s, cur))
<1> DEFINE a == SentSaid(s.syls, cur.syll)
           b == SylSaid(s.syls[cur.syll + 1], cur.ph)
<1>1. Len(s.syls) \in Nat /\ HavePhones(s.syls, Len(s.syls))
  BY SeqFacts DEF SentOK, HavePhones
<1>2. IsSeq(a)
  BY <1>1, SentPrefix DEF CursorAt
<1>3. IsSeq(b)
  BY SylSaidSeq DEF CursorAt
<1> HIDE DEF a, b
<1>4. IsSeq(a \o b)
  BY <1>2, <1>3, SeqConcat
<1> QED  BY <1>4 DEF CursorSaid, a, b

\* At the beginning nothing, at the end all.
LEMMA CursorFirst ==
  ASSUME NEW s, NEW cur, cur.syll = 0, cur.ph = 0
  PROVE  CursorSaid(s, cur) = << >>
<1>1. SentSaid(s.syls, cur.syll) = << >> /\ SylSaid(s.syls[cur.syll + 1], cur.ph) = << >>
  BY SentEmpty, SylSaidEmpty
<1>2. << >> \o << >> = << >>
  BY SeqEmpty, SeqNothing
<1> QED  BY <1>1, <1>2, Zenon DEF CursorSaid

LEMMA CursorLast ==
  ASSUME NEW s, SentOK(s), NEW cur, cur.syll = Len(s.syls), cur.ph = 0
  PROVE  CursorSaid(s, cur) = Said(s)
<1>1. SentSaid(s.syls, cur.syll) = Said(s) /\ SylSaid(s.syls[cur.syll + 1], cur.ph) = << >>
  BY SylSaidEmpty DEF Said
<1>2. IsSeq(Said(s))
  BY SaidSeq
<1>3. Said(s) \o << >> = Said(s)
  BY <1>2, SeqNothing
<1> QED  BY <1>1, <1>3, Zenon DEF CursorSaid

\* Behind a syllable is before the next one.
LEMMA CursorNext ==
  ASSUME NEW s, SentOK(s), NEW cur, CursorAt(s, cur), cur.syll < Len(s.syls),
         cur.ph = Len(s.syls[cur.syll + 1].phones),
         NEW then, then.syll = cur.syll + 1, then.ph = 0
  PROVE  CursorSaid(s, then) = CursorSaid(s, cur) /\ CursorAt(s, then)
<1> DEFINE k == cur.syll
           a == SentSaid(s.syls, k + 1)
<1>1. Len(s.syls) \in Nat /\ HavePhones(s.syls, Len(s.syls)) /\ k \in Nat /\ k + 1 \in 0 .. Len(s.syls)
  BY SeqFacts DEF SentOK, HavePhones, CursorAt
<1>2. a = SentSaid(s.syls, k) \o SylSaid(s.syls[k + 1], Len(s.syls[k + 1].phones))
  BY <1>1, SentNext
<1>3. a = CursorSaid(s, cur)
  BY <1>2, Zenon DEF CursorSaid
<1>4. SentSaid(s.syls, then.syll) = a /\ SylSaid(s.syls[then.syll + 1], then.ph) = << >>
  BY SylSaidEmpty
<1>5. IsSeq(a)
  BY <1>1, SentPrefix
<1> HIDE DEF a
<1>6. a \o << >> = a
  BY <1>5, SeqNothing
<1>7. CursorSaid(s, then) = a
  BY <1>4, <1>6, Zenon DEF CursorSaid
<1>8. CursorAt(s, then)
  <2>1. then.syll < Len(s.syls) => Len(s.syls[then.syll + 1].phones) \in Nat
    <3> SUFFICES ASSUME then.syll < Len(s.syls) PROVE Len(s.syls[then.syll + 1].phones) \in Nat
      OBVIOUS
    <3>1. then.syll + 1 \in 1 .. Len(s.syls)
      BY <1>1
    <3> QED  BY <1>1, <3>1, PhonesLen DEF HavePhones
  <2> QED  BY <1>1, <2>1 DEF CursorAt
<1> QED  BY <1>3, <1>7, <1>8

\* One phone on.
LEMMA CursorPhone ==
  ASSUME NEW s, SentOK(s), NEW cur, CursorAt(s, cur), cur.syll < Len(s.syls),
         NEW then, then.syll = cur.syll, then.ph = cur.ph + 1,
         NEW syl, syl = s.syls[cur.syll + 1], cur.ph < Len(syl.phones)
  PROVE  /\ CursorSaid(s, then) = IF syl.phones[cur.ph + 1] # PausePhone
                                  THEN Append(CursorSaid(s, cur), << syl.id, syl.phones[cur.ph + 1], cur.ph + 1 >>)
                                  ELSE CursorSaid(s, cur)
         /\ CursorAt(s, then)
<1> DEFINE a == SentSaid(s.syls, cur.syll)
           b == SylSaid(syl, cur.ph)
           x == << syl.id, syl.phones[cur.ph + 1], cur.ph + 1 >>
<1>1. Len(s.syls) \in Nat /\ HavePhones(s.syls, Len(s.syls)) /\ cur.ph \in Nat
  BY SeqFacts DEF SentOK, HavePhones, CursorAt
<1>2. IsSeq(a) /\ IsSeq(b)
  BY <1>1, SentPrefix, SylSaidSeq DEF CursorAt
<1>3. SylSaid(syl, cur.ph + 1) = IF syl.phones[cur.ph + 1] # PausePhone THEN Append(b, x) ELSE b
  BY <1>1, SylSaidNext
<1>4. CursorSaid(s, then) = a \o SylSaid(syl, cur.ph + 1) /\ CursorSaid(s, cur) = a \o b
  BY Zenon DEF CursorSaid
<1> HIDE DEF a, b, x
<1>5. a \o Append(b, x) = Append(a \o b, x)
  BY <1>2, AppendBehind
<1>6. CursorSaid(s, then) = IF syl.phones[cur.ph + 1] # PausePhone THEN Append(CursorSaid(s, cur), x)
                            ELSE CursorSaid(s, cur)
  BY <1>3, <1>4, <1>5, Zenon
<1>7. CursorAt(s, then)
  <2>1. Len(s.syls[then.syll + 1].phones) \in Nat
    <3>1. then.syll + 1 \in 1 .. Len(s.syls)
      BY <1>1 DEF CursorAt
    <3> QED  BY <1>1, <3>1, PhonesLen DEF HavePhones
  <2>2. s.syls[then.syll + 1] = syl
    OBVIOUS
  <2>3. then.ph \in Nat /\ then.ph <= Len(syl.phones) /\ then.syll \in 0 .. Len(s.syls)
    BY <1>1, <2>1, <2>2 DEF CursorAt
  <2> QED  BY <1>1, <2>2, <2>3 DEF CursorAt
<1> QED  BY <1>6, <1>7 DEF x

\* What was put is a beginning of what the sentence says.
LEMMA CursorPrefix ==
  ASSUME NEW s, SentOK(s), NEW cur, CursorAt(s, cur)
  PROVE  \E r : IsSeq(r) /\ Said(s) = CursorSaid(s, cur) \o r
<1>1. Len(s.syls) \in Nat /\ HavePhones(s.syls, Len(s.syls))
  BY SeqFacts DEF SentOK, HavePhones
<1>2. CASE cur.syll = Len(s.syls)
  <2>1. Said(s) = CursorSaid(s, cur) /\ IsSeq(Said(s))
    BY <1>2, CursorLast, SaidSeq DEF CursorAt
  <2>2. Said(s) \o << >> = Said(s)
    BY <2>1, SeqNothing
  <2>3. Said(s) = CursorSaid(s, cur) \o << >>
    BY <2>1, <2>2, Zenon
  <2> QED  BY <2>3, SeqEmpty, Zenon
<1>3. CASE cur.syll # Len(s.syls)
  <2> DEFINE k == cur.syll
             syl == s.syls[k + 1]
             a == SentSaid(s.syls, k)
             b == SylSaid(syl, cur.ph)
             c == SylSaid(syl, Len(syl.phones))
  <2>1. k \in Nat /\ k + 1 \in 1 .. Len(s.syls) /\ k + 1 \in 0 .. Len(s.syls) /\ k \in 0 .. Len(s.syls)
    BY <1>1, <1>3 DEF CursorAt
  <2>2. Len(syl.phones) \in Nat /\ cur.ph \in Nat /\ cur.ph <= Len(syl.phones)
    <3>1. Len(s.syls[k + 1].phones) \in Nat
      BY <1>1, <2>1, PhonesLen DEF HavePhones
    <3> QED  BY <1>1, <1>3, <3>1 DEF CursorAt
  <2>3. PICK q : IsSeq(q) /\ Said(s) = SentSaid(s.syls, k + 1) \o q
    BY <1>1, <2>1, SentPrefix DEF Said
  <2>4. PICK p : IsSeq(p) /\ c = b \o p
    BY <2>2, SylSaidPrefix
  <2>5. SentSaid(s.syls, k + 1) = a \o c
    BY <2>1, SentNext
  <2>6. CursorSaid(s, cur) = a \o b
    BY Zenon DEF CursorSaid
  <2>7. IsSeq(a) /\ IsSeq(b)
    BY <1>1, <2>1, <2>2, SentPrefix, SylSaidSeq
  <2> HIDE DEF a, b, c
  <2> DEFINE ab == a \o b
             pq == p \o q
  <2>8. IsSeq(ab) /\ IsSeq(pq)
    BY <2>3, <2>4, <2>7, SeqConcat
  <2>9. ab \o p = a \o (b \o p)
    BY <2>4, <2>7, SeqAssoc
  <2> HIDE DEF ab
  <2>10. (ab \o p) \o q = ab \o (p \o q)
    BY <2>3, <2>4, <2>8, SeqAssoc, SMTT(60)
  <2>11. Said(s) = (ab \o p) \o q
    <3>1. SentSaid(s.syls, k + 1) = ab \o p
      BY <2>4, <2>5, <2>9, Zenon
    <3> QED  BY <2>3, <3>1, Zenon
  <2>12. Said(s) = ab \o pq
    <3> DEFINE x == (ab \o p) \o q
               y == ab \o pq
    <3>1. x = y
      BY <2>10
    <3>2. Said(s) = x
      BY <2>11
    <3> HIDE DEF x, y
    <3>3. Said(s) = y
      BY <3>1, <3>2
    <3> QED  BY <3>3 DEF y
  <2>13. CursorSaid(s, cur) = ab
    BY <2>6 DEF ab
  <2> HIDE DEF pq
  <2> QED  BY <2>8, <2>12, <2>13, Zenon
<1> QED  BY <1>2, <1>3

\* Of a step of the cursor: behind a phone, and behind an item tied to the syllable.
Moves(s, cur, then) ==
  \/ then.syll = cur.syll /\ then.ph = IF cur.ph < Len(s.syls[cur.syll + 1].phones) THEN cur.ph + 1 ELSE cur.ph
  \/ cur.ph >= Len(s.syls[cur.syll + 1].phones) - 1 /\ then.syll = cur.syll + 1 /\ then.ph = 0

LEMMA PhonePast ==
  ASSUME NEW s, SentOK(s), NEW cur, CursorAt(s, cur), cur.syll < Len(s.syls),
         NEW syl, syl = s.syls[cur.syll + 1], cur.ph < Len(syl.phones),
         NEW then, Moves(s, cur, then)
  PROVE  /\ CursorSaid(s, then) = IF syl.phones[cur.ph + 1] # PausePhone
                                  THEN Append(CursorSaid(s, cur), << syl.id, syl.phones[cur.ph + 1], cur.ph + 1 >>)
                                  ELSE CursorSaid(s, cur)
         /\ CursorAt(s, then)
<1> DEFINE mid == [syll |-> cur.syll, ph |-> cur.ph + 1]
           more == IF syl.phones[cur.ph + 1] # PausePhone
                   THEN Append(CursorSaid(s, cur), << syl.id, syl.phones[cur.ph + 1], cur.ph + 1 >>)
                   ELSE CursorSaid(s, cur)
<1>1. CASE then.syll = cur.syll /\ then.ph = IF cur.ph < Len(syl.phones) THEN cur.ph + 1 ELSE cur.ph
  <2>1. then.ph = cur.ph + 1
    BY <1>1
  <2> QED  BY <1>1, <2>1, CursorPhone
<1>2. CASE cur.ph >= Len(syl.phones) - 1 /\ then.syll = cur.syll + 1 /\ then.ph = 0
  <2>1. mid.syll = cur.syll /\ mid.ph = cur.ph + 1
    OBVIOUS
  <2> HIDE DEF mid
  <2>2. CursorSaid(s, mid) = more /\ CursorAt(s, mid)
    BY <2>1, CursorPhone
  <2>3. Len(s.syls) \in Nat /\ HavePhones(s.syls, Len(s.syls))
    BY SeqFacts DEF SentOK, HavePhones
  <2>4. Len(syl.phones) \in Nat
    <3>1. cur.syll + 1 \in 1 .. Len(s.syls)
      BY <2>3 DEF CursorAt
    <3> QED  BY <2>3, <3>1, PhonesLen DEF HavePhones
  <2>5. mid.ph = Len(s.syls[mid.syll + 1].phones)
    BY <1>2, <2>1, <2>4 DEF CursorAt
  <2> HIDE DEF more
  <2>6. CursorSaid(s, then) = CursorSaid(s, mid) /\ CursorAt(s, then)
    BY <1>2, <2>1, <2>2, <2>5, CursorNext
  <2> QED  BY <2>2, <2>6 DEF more
<1> QED  BY <1>1, <1>2 DEF Moves

LEMMA ItemPast ==
  ASSUME NEW s, SentOK(s), NEW cur, CursorAt(s, cur), cur.syll < Len(s.syls),
         cur.ph >= Len(s.syls[cur.syll + 1].phones), NEW then, Moves(s, cur, then)
  PROVE  CursorSaid(s, then) = CursorSaid(s, cur) /\ CursorAt(s, then)
<1> DEFINE syl == s.syls[cur.syll + 1]
<1>1. Len(s.syls) \in Nat /\ HavePhones(s.syls, Len(s.syls))
  BY SeqFacts DEF SentOK, HavePhones
<1>2. Len(syl.phones) \in Nat
  <2>1. cur.syll + 1 \in 1 .. Len(s.syls)
    BY <1>1 DEF CursorAt
  <2> QED  BY <1>1, <2>1, PhonesLen DEF HavePhones
<1>3. cur.ph = Len(syl.phones)
  BY <1>2 DEF CursorAt
<1>4. CASE then.syll = cur.syll /\ then.ph = cur.ph
  BY <1>4, Zenon DEF CursorSaid, CursorAt
<1>5. CASE then.syll = cur.syll + 1 /\ then.ph = 0
  BY <1>3, <1>5, CursorNext
<1> QED  BY <1>2, <1>3, <1>4, <1>5 DEF Moves

-----------------------------------------------------------------------------
(* What was put is b and what the cursor has passed of the sentence; what is *)
(* due is b, the sentence and what the item in inBuf says.                   *)
Balance(put, asks, b, said, all, rest) ==
  /\ IsSeq(b) /\ IsSeq(said) /\ IsSeq(all) /\ IsSeq(rest)
  /\ put = b \o said /\ asks = (b \o all) \o rest

LEMMA BalanceTake ==
  ASSUME NEW put, NEW asks, NEW b, NEW said, NEW all, Balance(put, asks, b, said, all, << >>),
         NEW rest, IsSeq(rest)
  PROVE  Balance(put, asks \o rest, b, said, all, rest)
<1> DEFINE x == b \o all
<1>1. IsSeq(x)
  BY SeqConcat DEF Balance
<1>2. asks = x \o << >>
  BY DEF Balance
<1> HIDE DEF x
<1>3. asks = x
  BY <1>1, <1>2, SeqNothing
<1>4. asks = b \o all
  BY <1>3 DEF x
<1> QED  BY <1>4, Zenon DEF Balance

LEMMA BalanceForward ==
  ASSUME NEW put, NEW asks, NEW b, NEW said, NEW all, NEW rest, Balance(put, asks, b, said, all, rest)
  PROVE  Balance(put, asks, b, said, all \o rest, << >>)
<1> DEFINE x == all \o rest
           y == b \o x
<1>1. IsSeq(b) /\ IsSeq(all) /\ IsSeq(rest) /\ IsSeq(said) /\ put = b \o said
  BY DEF Balance
<1>2. IsSeq(x)
  BY <1>1, SeqConcat
<1>3. (b \o all) \o rest = b \o (all \o rest)
  BY <1>1, SeqAssoc
<1>4. asks = y
  <2> DEFINE p == (b \o all) \o rest
             q == b \o (all \o rest)
  <2>1. asks = p /\ p = q /\ q = y
    BY <1>3 DEF Balance
  <2> QED  BY <2>1
<1> HIDE DEF x
<1>5. IsSeq(y)
  BY <1>1, <1>2, SeqConcat
<1> HIDE DEF y
<1>6. asks = y \o << >>
  BY <1>4, <1>5, SeqNothing
<1>7. asks = (b \o x) \o << >>
  BY <1>6 DEF y
<1>8. Balance(put, asks, b, said, x, << >>)
  BY <1>1, <1>2, <1>7, SeqEmpty, Zenon DEF Balance
<1> QED  BY <1>8 DEF x

LEMMA BalancePhone ==
  ASSUME NEW put, NEW asks, NEW b, NEW said, NEW all, NEW rest, Balance(put, asks, b, said, all, rest), NEW x
  PROVE  Balance(Append(put, x), asks, b, Append(said, x), all, rest)
<1>1. IsSeq(b) /\ IsSeq(said) /\ put = b \o said
  BY DEF Balance
<1>2. b \o Append(said, x) = Append(put, x)
  BY <1>1, AppendBehind
<1>3. IsSeq(Append(said, x))
  BY <1>1, SeqAppend
<1> QED  BY <1>2, <1>3, Zenon DEF Balance

LEMMA BalanceForgotten ==
  ASSUME NEW put, NEW asks, NEW b, NEW all, NEW rest, Balance(put, asks, b, all, all, rest)
  PROVE  Balance(put, asks, b \o all, << >>, << >>, rest)
<1> DEFINE x == b \o all
<1>1. IsSeq(x) /\ IsSeq(rest)
  BY SeqConcat DEF Balance
<1>2. put = x /\ asks = x \o rest
  BY DEF Balance
<1> HIDE DEF x
<1>3. x \o << >> = x
  BY <1>1, SeqNothing
<1>4. Balance(put, asks, x, << >>, << >>, rest)
  BY <1>1, <1>2, <1>3, SeqEmpty, Zenon DEF Balance
<1> QED  BY <1>4 DEF x

\* What was put of a sentence up to a place in it is a beginning of what is due.
LEMMA BalancePrefix ==
  ASSUME NEW put, NEW asks, NEW b, NEW said, NEW all, NEW rest, Balance(put, asks, b, said, all, rest),
         NEW r, IsSeq(r), all = said \o r
  PROVE  \E q : IsSeq(q) /\ asks = put \o q
<1> DEFINE x == r \o rest
<1>1. IsSeq(b) /\ IsSeq(said) /\ IsSeq(rest) /\ put = b \o said
  BY DEF Balance
<1>2. IsSeq(x) /\ IsSeq(put)
  BY <1>1, SeqConcat
<1>3. (b \o said) \o r = b \o (said \o r)
  BY <1>1, SeqAssoc, SMTT(60)
<1>4. b \o all = put \o r
  BY <1>1, <1>3, Zenon
<1>5. asks = (put \o r) \o rest
  <2> DEFINE y == b \o all
             z == put \o r
  <2>1. asks = y \o rest /\ y = z
    BY <1>4 DEF Balance
  <2> HIDE DEF y, z
  <2>2. asks = z \o rest
    BY <2>1
  <2> QED  BY <2>2 DEF z
<1>6. (put \o r) \o rest = put \o (r \o rest)
  <2>1. IsSeq(put) /\ IsSeq(r) /\ IsSeq(rest)
    BY <1>1, <1>2
  <2> QED  BY <2>1, SeqAssoc, SMTT(60)
<1>7. asks = put \o x
  <2> DEFINE p == (put \o r) \o rest
             q == put \o (r \o rest)
  <2>1. asks = p /\ p = q /\ q = put \o x
    BY <1>5, <1>6
  <2> QED  BY <2>1
<1> QED  BY <1>2, <1>7

-----------------------------------------------------------------------------
(* What is due for an item that came.                                        *)
ItemOK(item) == item.kind # "PHONE" /\ (item.kind = "SYLL" => PhonesOK(item.phones))

LEMMA Silent == ASSUME NEW x, ~Speaks(x) PROVE Uttered(<< x >>) = << >> /\ IsSeq(<< x >>)
<1> DEFINE a == Append(<< >>, x)
<1>1. a = << x >>
  OBVIOUS
<1>2. Uttered(a) = Uttered(<< >>)
  BY SeqEmpty, UtteredAppend
<1> QED  BY <1>1, <1>2, SeqOne, UtteredEmpty, Zenon

LEMMA DueSays ==
  ASSUME NEW item, ItemOK(item)
  PROVE  IsSeq(DueFor(item)) /\ Uttered(DueFor(item)) = SaysOf(item)
<1> DEFINE itself == << [id |-> item.id, kind |-> item.kind] >>
           pause == << Phone(item.id, PausePhone, 1, asked) >>
           phones == [k \in DOMAIN item.phones |-> Phone(item.id, item.phones[k], k, asked)]
<1>0. DueFor(item) = CASE item.kind = "SYLL" -> phones
                       [] item.kind \in {"PHR1", "PHR2"} -> pause
                       [] item.kind \in SentEnd /\ Open(came) -> pause \o itself
                       [] item.kind \in {"PHR0", "PHR3", "PLAY", "SPEED"} -> << >>
                       [] OTHER -> itself
  BY DEF DueFor
<1>1. Uttered(itself) = << >> /\ IsSeq(itself)
  <2> DEFINE x == [id |-> item.id, kind |-> item.kind]
  <2>1. ~Speaks(x)
    BY DEF Speaks, ItemOK
  <2> HIDE DEF x
  <2>2. Uttered(<< x >>) = << >> /\ IsSeq(<< x >>)
    BY <2>1, Silent
  <2> QED  BY <2>2 DEF x
<1>2. Uttered(pause) = << >> /\ IsSeq(pause)
  <2> DEFINE x == Phone(item.id, PausePhone, 1, asked)
  <2>1. ~Speaks(x)
    BY DEF Speaks, Phone
  <2> HIDE DEF x
  <2>2. Uttered(<< x >>) = << >> /\ IsSeq(<< x >>)
    BY <2>1, Silent
  <2> QED  BY <2>2 DEF x
<1>3. CASE item.kind = "SYLL"
  <2> DEFINE n == Len(item.phones)
             p == PhonesTo(item, n)
  <2>1. IsSeq(item.phones) /\ n \in Nat /\ DOMAIN item.phones = 1 .. n
    BY <1>3, SeqFacts DEF ItemOK, PhonesOK
  <2>2. DueFor(item) = phones /\ SaysOf(item) = Uttered(p)
    <3>1. SaysOf(item) = SylSaid(item, n) /\ SylSaid(item, n) = Uttered(p)
      BY <1>3, Zenon DEF SaysOf, SylSaid
    <3>2. DueFor(item) = phones
      <4> DEFINE both == pause \o itself
      <4> HIDE DEF phones, pause, itself, both
      <4> QED  BY <1>0, <1>3 DEF both, SentEnd
    <3> QED  BY <3>1, <3>2
  <2>3. IsSeq(phones) /\ Len(phones) = n
    <3> DEFINE S == {Phone(item.id, item.phones[k], k, asked) : k \in 1 .. n}
    <3>1. phones \in [1 .. n -> S]
      BY <2>1
    <3> HIDE DEF phones, S
    <3>2. phones \in Seq(S) /\ Len(phones) = n
      BY <2>1, <3>1
    <3> QED  BY <3>2 DEF IsSeq
  <2>4. \A k \in 1 .. n : phones[k] = Phone(item.id, item.phones[k], k, asked)
    BY <2>1
  <2>5. IsSeq(p) /\ Len(p) = n /\ \A k \in 1 .. n : p[k] = PhoneOf(item, k)
    BY <2>1, PhonesToSeq
  <2>6. ASSUME NEW k \in 1 .. n PROVE Alike(phones[k], p[k])
    <3> DEFINE x == Phone(item.id, item.phones[k], k, asked)
               y == PhoneOf(item, k)
    <3>1. x.kind = "PHONE" /\ x.ph = item.phones[k] /\ x.id = item.id /\ x.n = k
      BY DEF Phone
    <3>2. y.kind = "PHONE" /\ y.ph = item.phones[k] /\ y.id = item.id /\ y.n = k
      BY DEF PhoneOf
    <3>3. phones[k] = x /\ p[k] = y
      BY <2>4, <2>5
    <3> HIDE DEF x, y, phones, p
    <3> QED  BY <3>1, <3>2, <3>3, Zenon DEF Alike, Speaks
  <2> HIDE DEF phones, p, n
  <2>7. Uttered(phones) = Uttered(p)
    BY <2>3, <2>5, <2>6, UtteredAlike
  <2> QED  BY <2>2, <2>3, <2>7
<1>4. CASE item.kind # "SYLL"
  <2>1. SaysOf(item) = << >>
    BY <1>4 DEF SaysOf
  <2>2. IsSeq(pause \o itself) /\ Uttered(pause \o itself) = << >>
    <3> HIDE DEF pause, itself
    <3>1. IsSeq(pause \o itself)
      BY <1>1, <1>2, SeqConcat
    <3>2. Uttered(pause \o itself) = Uttered(pause) \o Uttered(itself)
      BY <1>1, <1>2, UtteredConcat
    <3>3. << >> \o << >> = << >>
      BY SeqEmpty, SeqNothing
    <3> QED  BY <1>1, <1>2, <3>1, <3>2, <3>3, Zenon
  <2>3. DueFor(item) \in {itself, pause, pause \o itself, << >>}
    <3> DEFINE both == pause \o itself
    <3> HIDE DEF phones, pause, itself, both
    <3>2. DueFor(item) \in {itself, pause, both, << >>}
      BY <1>0, <1>4 DEF both
    <3> QED  BY <3>2 DEF both
  <2> DEFINE both == pause \o itself
  <2>4. IsSeq(both) /\ Uttered(both) = << >> /\ DueFor(item) \in {itself, pause, both, << >>}
    BY <2>2, <2>3
  <2> HIDE DEF itself, pause, both
  <2> QED  BY <1>1, <1>2, <2>1, <2>4, SeqEmpty, UtteredEmpty
<1> QED  BY <1>3, <1>4

-----------------------------------------------------------------------------
(* The numbers of tied items: a syllable that has any has a first and a     *)
(* last, and the first item of all goes to the first syllable.              *)
QueueType(q) == DOMAIN q = {"cur", "last", "size"} /\ q.cur \in Nat /\ q.last \in Nat
AreaOK(area) == \A o \in DOMAIN area.at : area.at[o].kind # "PHONE"
TiesGood(ties, m, last) ==
  /\ ties \in [1 .. m -> [first : Nat, last : Nat]]
  /\ \A n \in 1 .. m : ties[n].first <= ties[n].last /\ ties[n].first <= last + 1
  /\ ties[1].first <= 1
FirstFree(ties, last) == ties[1].first = 0 => last = 0

LEMMA AttachedOK ==
  ASSUME AreaOK(pamArea), NEW n
  PROVE  Attached(n).kind # "PHONE"
<1> DEFINE off == IF n \in DOMAIN pamArea.offs THEN pamArea.offs[n] ELSE 0
<1>1. Attached(n) = IF off \in DOMAIN pamArea.at THEN pamArea.at[off] ELSE Torn
  BY DEF Attached
<1> HIDE DEF off
<1>2. Torn.kind # "PHONE"
  BY DEF Torn
<1> QED  BY <1>1, <1>2 DEF AreaOK

LEMMA QueueKeeps ==
  ASSUME QueueType(pamQueue), IdsFit, AreaOK(pamArea), NEW item, item.kind # "PHONE",
         NEW m \in Nat \ {0}, NEW n \in Int, n < m,
         NEW ties, TiesGood(ties, m, pamQueue.last),
         n <= 0 => FirstFree(ties, pamQueue.last), QueueItem(item, n, ties)
  PROVE  /\ QueueType(pamQueue)' /\ AreaOK(pamArea)' /\ pamQueue'.cur = pamQueue.cur
         /\ TiesGood(pamTies', m, pamQueue'.last)
         /\ n <= 0 => FirstFree(pamTies', pamQueue'.last)
<1>1. CASE QueueRoom(pamQueue, item)
  <2> DEFINE id == pamQueue.last + 1
             slot == IF n < 0 THEN 1 ELSE n + 1
             tie == [first |-> IF ties[slot].first = 0 THEN id ELSE ties[slot].first, last |-> id]
  <2>1. /\ pamQueue' = [pamQueue EXCEPT !.last = id, !.size = @ + item.len + HeadSize]
        /\ pamArea'.at = Stored(pamArea, pamQueue.size, item)
        /\ pamTies' = [ties EXCEPT ![slot] = tie]
    <3>1. id % PamIds = id
      <4>1. PamIds \in Nat /\ 0 \in Nat /\ id \in 0 .. PamIds - 1
        BY PamAssumption DEF QueueType, IdsFit
      <4> HIDE DEF id
      <4>2. (0 * PamIds + id) % PamIds = id
        BY <4>1, DivMod
      <4>3. 0 * PamIds + id = id
        BY <4>1
      <4> QED  BY <4>2, <4>3
    <3> DEFINE k == id % PamIds
    <3>2. /\ pamQueue' = [pamQueue EXCEPT !.last = k, !.size = @ + item.len + HeadSize]
          /\ pamArea'.at = Stored(pamArea, pamQueue.size, item)
          /\ pamTies' = [ties EXCEPT ![slot] =
                           [first |-> IF ties[slot].first = 0 THEN k ELSE ties[slot].first, last |-> k]]
      BY <1>1 DEF QueueItem
    <3>3. k = id
      BY <3>1
    <3> HIDE DEF k, id, slot
    <3> QED  BY <3>2, <3>3
  <2>2. id \in Nat /\ slot \in 1 .. m
    BY DEF QueueType
  <2>3. QueueType(pamQueue') /\ pamQueue'.last = id /\ pamQueue'.cur = pamQueue.cur
    <3>1. /\ DOMAIN pamQueue' = DOMAIN pamQueue /\ pamQueue'.last = id /\ pamQueue'.cur = pamQueue.cur
      BY <2>1 DEF QueueType
    <3> HIDE DEF id
    <3> QED  BY <2>2, <3>1 DEF QueueType
  <2>4. AreaOK(pamArea')
    <3> DEFINE at == Stored(pamArea, pamQueue.size, item)
    <3>1. ASSUME NEW o \in DOMAIN at PROVE at[o] = item \/ (o \in DOMAIN pamArea.at /\ at[o] = pamArea.at[o])
      BY DEF Stored
    <3> HIDE DEF at
    <3>2. pamArea'.at = at
      BY <2>1 DEF at
    <3> QED  BY <3>1, <3>2 DEF AreaOK
  <2>5. ties \in [1 .. m -> [first : Nat, last : Nat]] /\ ties[slot] \in [first : Nat, last : Nat]
    BY <2>2 DEF TiesGood
  <2>6. tie \in [first : Nat, last : Nat] /\ tie.last = id
        /\ (ties[slot].first = 0 => tie.first = id) /\ (ties[slot].first # 0 => tie.first = ties[slot].first)
    BY <2>2, <2>5
  <2>7. ties[slot].first \in Nat /\ ties[slot].first <= id
    BY <2>2, <2>5 DEF TiesGood
  <2>8. tie.first \in Nat /\ tie.first <= id /\ tie.first # 0
    <3> HIDE DEF tie
    <3> QED  BY <2>2, <2>6, <2>7 DEF QueueType
  <2> HIDE DEF tie
  <2>9. /\ pamTies' \in [1 .. m -> [first : Nat, last : Nat]]
        /\ pamTies'[slot] = tie /\ \A i \in 1 .. m : i # slot => pamTies'[i] = ties[i]
    <3> HIDE DEF slot, id
    <3> QED  BY <2>1, <2>2, <2>5, <2>6
  <2>10. slot = 1 => n <= 0
    OBVIOUS
  <2>11. n <= 0 => slot = 1
    OBVIOUS
  <2> HIDE DEF slot
  <2>12. ASSUME NEW i \in 1 .. m PROVE pamTies'[i].first <= pamTies'[i].last /\ pamTies'[i].first <= id + 1
    <3>1. CASE i = slot
      BY <2>2, <2>6, <2>8, <2>9, <3>1
    <3>2. CASE i # slot
      <4>1. pamTies'[i] = ties[i] /\ ties[i].first \in Nat
        BY <2>5, <2>9, <3>2
      <4> QED  BY <4>1 DEF TiesGood, QueueType
    <3> QED  BY <3>1, <3>2
  <2>13. pamTies'[1].first <= 1 /\ (n <= 0 => pamTies'[1].first # 0)
    <3>1. CASE slot = 1
      <4>1. ties[1].first = 0 => id = 1
        BY <2>10, <3>1 DEF FirstFree
      <4>2. ties[1].first <= 1
        BY DEF TiesGood
      <4> HIDE DEF id
      <4> QED  BY <2>6, <2>8, <2>9, <3>1, <4>1, <4>2
    <3>2. CASE slot # 1
      <4>1. 1 \in 1 .. m /\ ~(n <= 0)
        BY <2>11, <3>2
      <4> QED  BY <2>9, <3>2, <4>1 DEF TiesGood
    <3> QED  BY <3>1, <3>2
  <2> HIDE DEF id
  <2> QED  BY <2>3, <2>4, <2>9, <2>12, <2>13 DEF TiesGood, FirstFree
<1>2. CASE ~QueueRoom(pamQueue, item)
  <2>1. pamTies' = ties /\ pamQueue' = pamQueue /\ pamArea' = pamArea
    BY <1>2 DEF QueueItem
  <2> QED  BY <2>1
<1> QED  BY <1>1, <1>2

\* New syllables have no items.
LEMMA NewTiesGood ==
  ASSUME NEW m \in Nat \ {0}, NEW last \in Nat, TiesGood(pamTies, m, last),
         NEW u, IsSeq(u), NEW k \in Nat, Len(u) = k, m <= k
  PROVE  /\ TiesGood(NewTies(u), k, last)
         /\ NewTies(u)[1] = pamTies[1]
<1> DEFINE t == NewTies(u)
<1>1. DOMAIN pamTies = 1 .. m /\ DOMAIN u = 1 .. k
  BY SeqFacts DEF TiesGood
<1>2. (1 .. m) \cup (1 .. k) = 1 .. k
  OBVIOUS
<1>3. t = [n \in 1 .. k |-> IF n \in 1 .. m THEN pamTies[n] ELSE Untied]
  BY <1>1, <1>2 DEF NewTies
<1> HIDE DEF t
<1>4. Untied \in [first : Nat, last : Nat] /\ Untied.first = 0 /\ Untied.last = 0
  BY DEF Untied
<1>5. \A n \in 1 .. k : t[n] = (IF n \in 1 .. m THEN pamTies[n] ELSE Untied)
  BY <1>3
<1>6. t \in [1 .. k -> [first : Nat, last : Nat]]
  <2>1. \A n \in 1 .. m : pamTies[n] \in [first : Nat, last : Nat]
    BY DEF TiesGood
  <2> QED  BY <1>3, <1>4, <2>1
<1>7. ASSUME NEW n \in 1 .. k PROVE t[n].first <= t[n].last /\ t[n].first <= last + 1
  <2>1. CASE n \in 1 .. m
    BY <1>5, <2>1 DEF TiesGood
  <2>2. CASE n \notin 1 .. m
    BY <1>4, <1>5, <2>2
  <2> QED  BY <2>1, <2>2
<1>8. 1 \in 1 .. k /\ 1 \in 1 .. m
  OBVIOUS
<1>9. t[1] = pamTies[1]
  BY <1>5, <1>8
<1> QED  BY <1>6, <1>7, <1>9 DEF TiesGood, t

-----------------------------------------------------------------------------
(* A sentence is begun only when none is open.                              *)
OpenUpTo(s, n) ==
  \E k \in 1 .. n : s[k].kind \in {"SBEG", "SYLL"} /\ \A m \in k + 1 .. n : s[m].kind \notin SentEnd
Grammar(s) == \A p \in 1 .. Len(s) : s[p].kind = "SBEG" => ~OpenUpTo(s, p - 1)

LEMMA OpenSame ==
  ASSUME NEW s, NEW t, NEW n, \A k \in 1 .. n : s[k] = t[k], NEW m \in Int, n = m, OpenUpTo(s, n)
  PROVE  OpenUpTo(t, n)
<1>1. PICK k \in 1 .. m : s[k].kind \in {"SBEG", "SYLL"} /\ \A i \in k + 1 .. m : s[i].kind \notin SentEnd
  BY DEF OpenUpTo
<1>2. \A i \in k + 1 .. m : i \in 1 .. m
  OBVIOUS
<1>3. t[k].kind \in {"SBEG", "SYLL"} /\ \A i \in k + 1 .. m : t[i].kind \notin SentEnd
  BY <1>1, <1>2, Zenon
<1> QED  BY <1>3, Zenon DEF OpenUpTo

LEMMA OpenAll ==
  ASSUME NEW s, IsSeq(s)
  PROVE  Open(s) <=> OpenUpTo(s, Len(s))
<1>1. DOMAIN s = 1 .. Len(s)
  BY SeqFacts
<1> QED  BY <1>1, Zenon DEF Open, OpenUpTo

\* One item more.
LEMMA OpenNext ==
  ASSUME NEW s, NEW n \in Nat
  PROVE  /\ s[n + 1].kind \in {"SBEG", "SYLL"} => OpenUpTo(s, n + 1)
         /\ OpenUpTo(s, n) /\ s[n + 1].kind \notin SentEnd => OpenUpTo(s, n + 1)
<1>1. ASSUME s[n + 1].kind \in {"SBEG", "SYLL"} PROVE OpenUpTo(s, n + 1)
  <2>1. n + 1 \in 1 .. n + 1 /\ \A m \in (n + 1) + 1 .. n + 1 : FALSE
    OBVIOUS
  <2> QED  BY <1>1, <2>1, Zenon DEF OpenUpTo
<1>2. ASSUME OpenUpTo(s, n), s[n + 1].kind \notin SentEnd PROVE OpenUpTo(s, n + 1)
  <2>1. PICK k \in 1 .. n : s[k].kind \in {"SBEG", "SYLL"} /\ \A i \in k + 1 .. n : s[i].kind \notin SentEnd
    BY <1>2 DEF OpenUpTo
  <2>2. k \in 1 .. n + 1 /\ \A i \in k + 1 .. n + 1 : i = n + 1 \/ i \in k + 1 .. n
    OBVIOUS
  <2>3. \A i \in k + 1 .. n + 1 : s[i].kind \notin SentEnd
    BY <1>2, <2>1, <2>2, Zenon
  <2> QED  BY <2>1, <2>2, <2>3, Zenon DEF OpenUpTo
<1> QED  BY <1>1, <1>2

\* The grammar of what came and waits, for the last that came.
LEMMA GrammarLast ==
  ASSUME NEW s, IsSeq(s), NEW t, IsSeq(t), Grammar(s \o t), s # << >>, s[Len(s)].kind = "SBEG"
  PROVE  ~OpenUpTo(s, Len(s) - 1)
<1> DEFINE u == s \o t
           n == Len(s)
<1>1. IsSeq(u) /\ Len(u) = n + Len(t) /\ \A i \in 1 .. n : u[i] = s[i]
  BY SeqConcat
<1>2. n \in Nat /\ n # 0 /\ Len(t) \in Nat
  BY SeqFacts
<1> HIDE DEF u, n
<1>3. n \in 1 .. Len(u) /\ n \in 1 .. n /\ n - 1 \in Int
  BY <1>1, <1>2
<1>4. u[n].kind = "SBEG"
  BY <1>1, <1>3 DEF n
<1>5. ~OpenUpTo(u, n - 1)
  BY <1>3, <1>4 DEF Grammar, u
<1>6. \A k \in 1 .. n - 1 : s[k] = u[k]
  BY <1>1, <1>2
<1> SUFFICES ASSUME OpenUpTo(s, n - 1) PROVE FALSE
  BY DEF n
<1> QED  BY <1>3, <1>5, <1>6, OpenSame

LEMMA GrammarNext ==
  ASSUME NEW s, IsSeq(s), Grammar(s), NEW x, x.kind = "SBEG" => ~Open(s)
  PROVE  Grammar(Append(s, x))
<1> DEFINE u == Append(s, x)
           n == Len(s)
<1>1. IsSeq(u) /\ Len(u) = n + 1 /\ u[n + 1] = x /\ \A i \in 1 .. n : u[i] = s[i]
  BY SeqAppend
<1>2. n \in Nat
  BY SeqFacts
<1>3. x.kind = "SBEG" => ~OpenUpTo(s, n)
  BY OpenAll
<1> HIDE DEF u
<1> SUFFICES ASSUME NEW p \in 1 .. n + 1, u[p].kind = "SBEG", OpenUpTo(u, p - 1) PROVE FALSE
  BY <1>1 DEF Grammar, u
<1>4. p - 1 \in Int /\ \A k \in 1 .. p - 1 : u[k] = s[k]
  BY <1>1, <1>2
<1>5. OpenUpTo(s, p - 1)
  BY <1>4, OpenSame
<1>6. CASE p = n + 1
  <2>1. p - 1 = n
    BY <1>2, <1>6
  <2> QED  BY <1>1, <1>3, <1>5, <1>6, <2>1
<1>7. CASE p # n + 1
  <2>1. p \in 1 .. n /\ s[p].kind = "SBEG"
    BY <1>1, <1>2, <1>7
  <2> QED  BY <1>5, <2>1 DEF Grammar
<1> QED  BY <1>6, <1>7

-----------------------------------------------------------------------------
(* The invariant.                                                           *)
HistoryType ==
  /\ IsSeq(cbIn) /\ IsSeq(pamOut) /\ IsSeq(came) /\ IsSeq(told) /\ IsSeq(due)
  /\ \A n \in 1 .. Len(cbIn) : ItemOK(cbIn[n])
InputType ==
  pamIn = << >> \/ (came # << >> /\ pamIn = << came[Len(came)] >> /\ ItemOK(came[Len(came)]))
CursorType == pamCur \in [syll : Int, ph : Nat] /\ QueueType(pamQueue) /\ AreaOK(pamArea)
TieRoom == IF TotalSylls = 0 THEN 1 ELSE TotalSylls
TiesOK == TiesGood(pamTies, TieRoom, pamQueue.last)

\* While a sentence is collected it is open, the cursor is at its last syllable
\* and nothing was put of it.
Collecting == procState \in {"COLLECT", "SCHEDULE", "FORWARD", "FORCE_TERM", "IMMEDIATE"}
InputIn ==
  /\ procState = "COLLECT" => pamIn = << >>
  /\ procState \in {"FORWARD", "IMMEDIATE", "FORCE_TERM"} => pamIn # << >>
  /\ procState = "FORWARD" => Due.kind \in BoundKinds \cup {"SYLL"}
                              /\ (Due.kind \in {"SBEG", "SYLL"} \/ TotalSylls > 0)
  /\ procState = "IMMEDIATE" => Due.kind # "SYLL" /\ TotalSylls = 0
OpenOK == TotalSylls > 0 => OpenUpTo(came, Len(came) - Len(pamIn))
CollectOK ==
  /\ pamOut = << >> /\ pamCur = [syll |-> TotalSylls - 1, ph |-> 0]
  /\ TotalSylls <= 1 => FirstFree(pamTies, pamQueue.last)
  /\ OpenOK /\ InputIn

\* While it is put the cursor is in it, or at its end, and unless it is there
\* something is left for its syllable.
CursorIn == TotalSylls > 0 /\ CursorAt(pamSent, pamCur)
SomeLeft == pamCur.syll < TotalSylls => HasToProcess \/ HasToPop
FeedOK ==
  /\ pamOut # << >>
  /\ \/ TotalSylls = 0 /\ pamCur = Nowhere
     \/ CursorIn /\ SomeLeft
PhaseOK ==
  \/ Collecting /\ CollectOK
  \/ procState = "PROCESS" /\ CursorIn
  \/ procState = "FEED" /\ FeedOK

SaidOf == IF Collecting \/ TotalSylls = 0 THEN << >> ELSE CursorSaid(pamSent, pamCur)
InSaid == IF pamIn = << >> THEN << >> ELSE SaysOf(Due)
Owes(b) == Balance(Uttered(told \o pamOut), Uttered(due), b, SaidOf, Said(pamSent), InSaid)
Balanced == \E b : Owes(b)

PamInv ==
  /\ HistoryType /\ InputType /\ CursorType /\ SentOK(pamSent) /\ TiesOK
  /\ Grammar(came \o cbIn) /\ PhaseOK /\ Balanced

LEMMA InputIs ==
  ASSUME InputType, IsSeq(came), pamIn # << >>
  PROVE  /\ came # << >> /\ Len(came) \in Nat /\ Len(came) >= 1 /\ Len(pamIn) = 1
         /\ Due = came[Len(came)] /\ ItemOK(Due)
<1>1. came # << >> /\ pamIn = << came[Len(came)] >> /\ ItemOK(came[Len(came)])
  BY DEF InputType
<1>2. Len(came) \in Nat /\ Len(came) >= 1
  BY <1>1, SeqFacts
<1> DEFINE x == came[Len(came)]
<1>3. pamIn = << x >> /\ ItemOK(x)
  BY <1>1
<1> HIDE DEF x
<1>4. Len(<< x >>) = 1 /\ << x >>[1] = x
  OBVIOUS
<1>5. Len(pamIn) = 1 /\ Due = x
  BY <1>3, <1>4, Zenon DEF Due
<1> QED  BY <1>1, <1>2, <1>3, <1>5 DEF x

\* The input is consumed: the sentence is still open.
LEMMA OpenConsumed ==
  ASSUME InputType, IsSeq(came), pamIn # << >>, NEW sylls,
         \/ Due.kind \in {"SBEG", "SYLL"}
         \/ Due.kind \notin SentEnd /\ OpenUpTo(came, Len(came) - Len(pamIn))
  PROVE  OpenUpTo(came, Len(came))
<1>1. came # << >> /\ Len(came) \in Nat /\ Len(came) >= 1 /\ Len(pamIn) = 1 /\ Due = came[Len(came)]
  BY InputIs
<1>2. PICK n \in Nat : n = Len(came) - 1
  BY <1>1
<1>3. Len(came) = n + 1 /\ Len(came) - Len(pamIn) = n /\ Due = came[n + 1]
  BY <1>1, <1>2
<1>4. CASE Due.kind \in {"SBEG", "SYLL"}
  <2>1. OpenUpTo(came, n + 1)
    BY <1>3, <1>4, OpenNext
  <2> QED  BY <1>3, <2>1
<1>5. CASE Due.kind \notin SentEnd /\ OpenUpTo(came, n)
  <2>1. OpenUpTo(came, n + 1)
    BY <1>3, <1>5, OpenNext
  <2> QED  BY <1>3, <2>1
<1> QED  BY <1>3, <1>4, <1>5

\* pamUpdateProcess.
LEMMA UpdateMoves ==
  ASSUME SentOK(pamSent), pamCur \in [syll : Int, ph : Nat], TiesOK, CursorIn, pamCur.syll < TotalSylls,
         NEW queue, QueueType(queue), queue.last = pamQueue.last, Update(queue),
         pamSent' = pamSent, pamTies' = pamTies
  PROVE  /\ pamCur' \in [syll : Int, ph : Nat] /\ QueueType(pamQueue)' /\ pamQueue'.last = pamQueue.last
         /\ Moves(pamSent, pamCur, pamCur') /\ SomeLeft'
<1> DEFINE syl == Syll(pamCur.syll)
           lastPh == Len3(syl) - 1
           after == [pamCur EXCEPT !.ph = IF @ <= lastPh THEN @ + 1 ELSE @]
           total == TotalSylls
<1>1. total \in Nat /\ HavePhones(pamSent.syls, total) /\ total' = total
  BY SeqFacts DEF SentOK, HavePhones, TotalSylls
<1>2. pamCur.syll \in 0 .. total - 1 /\ pamCur.ph \in Nat /\ pamCur.ph <= Len(syl.phones)
  BY <1>1 DEF CursorIn, CursorAt, Syll
<1>3. Len3(syl) = Len(syl.phones) /\ Len3(syl) \in Nat /\ Len3(syl) >= 1
  <2>1. pamCur.syll + 1 \in 1 .. total
    BY <1>1, <1>2
  <2> QED  BY <1>1, <2>1, PhonesLen DEF HavePhones, Syll, Len3
<1>4. Ties \in [first : Nat, last : Nat] /\ Ties.first <= Ties.last
  <2>1. pamCur.syll + 1 \in 1 .. TieRoom
    BY <1>1, <1>2 DEF TieRoom
  <2> QED  BY <2>1 DEF TiesOK, TiesGood, Ties
<1>5. /\ after \in [syll : Int, ph : Nat] /\ after.syll = pamCur.syll
      /\ after.ph = IF pamCur.ph < Len3(syl) THEN pamCur.ph + 1 ELSE pamCur.ph
  BY <1>2, <1>3
<1> HIDE DEF syl, total
<1>6. CASE pamCur' = after
  <2>1. pamCur' \in [syll : Int, ph : Nat] /\ pamCur'.syll = pamCur.syll
        /\ pamCur'.ph = IF pamCur.ph < Len3(syl) THEN pamCur.ph + 1 ELSE pamCur.ph
    BY <1>5, <1>6
  <2>2. Moves(pamSent, pamCur, pamCur')
    BY <1>3, <2>1 DEF Moves, syl, Syll
  <2>3. Syll(pamCur.syll)' = syl /\ Ties' = Ties
    BY <2>1 DEF syl, Syll, Ties
  <2>4. CASE pamCur.ph < lastPh /\ pamQueue' = queue
    <3>1. pamCur'.ph < Len3(syl)
      BY <1>2, <1>3, <2>1, <2>4
    <3>2. HasToProcess'
      BY <1>1, <1>2, <2>1, <2>3, <3>1 DEF HasToProcess, total
    <3> QED  BY <2>1, <2>2, <2>4, <3>2 DEF SomeLeft
  <2>5. CASE /\ pamCur.ph >= lastPh /\ Ties.first > 0 /\ queue.cur = 0
             /\ pamQueue' = [queue EXCEPT !.cur = Ties.first]
    <3>1. QueueType(pamQueue') /\ pamQueue'.last = pamQueue.last /\ pamQueue'.cur = Ties.first
      BY <1>4, <2>5 DEF QueueType
    <3>2. HasToPop'
      BY <1>1, <1>2, <1>4, <2>1, <2>3, <2>5, <3>1 DEF HasToPop, AnyTied, total
    <3> QED  BY <2>1, <2>2, <3>1, <3>2 DEF SomeLeft
  <2>6. CASE /\ pamCur.ph >= lastPh /\ Ties.first > 0 /\ queue.cur \in 1 .. Ties.last - 1
             /\ pamQueue' = [queue EXCEPT !.cur = @ + 1]
    <3>1. QueueType(pamQueue') /\ pamQueue'.last = pamQueue.last /\ pamQueue'.cur = queue.cur + 1
      BY <2>6 DEF QueueType
    <3>2. HasToPop'
      BY <1>1, <1>2, <1>4, <2>1, <2>3, <2>6, <3>1 DEF HasToPop, AnyTied, total
    <3> QED  BY <2>1, <2>2, <3>1, <3>2 DEF SomeLeft
  <2> SUFFICES ASSUME ~(pamCur.ph < lastPh /\ pamQueue' = queue),
                      ~(/\ pamCur.ph >= lastPh /\ Ties.first > 0 /\ queue.cur = 0
                        /\ pamQueue' = [queue EXCEPT !.cur = Ties.first]),
                      ~(/\ pamCur.ph >= lastPh /\ Ties.first > 0 /\ queue.cur \in 1 .. Ties.last - 1
                        /\ pamQueue' = [queue EXCEPT !.cur = @ + 1]),
                      pamCur.ph >= lastPh, pamCur' = [syll |-> pamCur.syll + 1, ph |-> 0]
               PROVE FALSE
    BY <2>4, <2>5, <2>6, <1>6 DEF Update, syl
  <2>7. pamCur'.syll = pamCur.syll + 1
    OBVIOUS
  <2> QED  BY <1>2, <2>1, <2>7
<1>7. CASE /\ pamCur.ph >= lastPh /\ pamCur' = [syll |-> pamCur.syll + 1, ph |-> 0]
           /\ pamQueue' = [queue EXCEPT !.cur = IF pamCur.syll < TotalSylls - 1 THEN 0 ELSE @]
  <2>1. pamCur' \in [syll : Int, ph : Nat] /\ pamCur'.syll = pamCur.syll + 1 /\ pamCur'.ph = 0
    BY <1>2, <1>7
  <2>2. QueueType(pamQueue') /\ pamQueue'.last = pamQueue.last
    BY <1>7 DEF QueueType
  <2>3. Moves(pamSent, pamCur, pamCur')
    BY <1>3, <1>7, <2>1 DEF Moves, syl, Syll
  <2>4. SomeLeft'
    <3> SUFFICES ASSUME pamCur'.syll < TotalSylls' PROVE HasToProcess'
      BY DEF SomeLeft
    <3>1. pamCur'.syll + 1 \in 1 .. total /\ pamCur'.syll \in 0 .. total' - 1
      BY <1>1, <1>2, <2>1 DEF total
    <3>2. Len3(pamSent.syls[pamCur'.syll + 1]) \in Nat /\ Len3(pamSent.syls[pamCur'.syll + 1]) >= 1
      BY <1>1, <3>1, PhonesLen DEF HavePhones, Len3
    <3>3. Syll(pamCur.syll)' = pamSent.syls[pamCur'.syll + 1]
      BY DEF Syll
    <3> QED  BY <2>1, <3>1, <3>2, <3>3 DEF HasToProcess, total
  <2> QED  BY <2>1, <2>2, <2>3, <2>4
<1>8. \/ pamCur' = after
      \/ /\ pamCur.ph >= lastPh /\ pamCur' = [syll |-> pamCur.syll + 1, ph |-> 0]
         /\ pamQueue' = [queue EXCEPT !.cur = IF pamCur.syll < TotalSylls - 1 THEN 0 ELSE @]
  <2>1. pamCur.ph < lastPh \/ pamCur.ph >= lastPh
    BY <1>2, <1>3
  <2> QED  BY <2>1 DEF Update, syl
<1> QED  BY <1>6, <1>7, <1>8

-----------------------------------------------------------------------------
(* The invariant holds at first and after a reset, when all is empty.       *)
Blank ==
  /\ cbIn = << >> /\ procState = "COLLECT" /\ pamIn = << >> /\ pamOut = << >> /\ pamSent = NoSentence
  /\ pamCur = Nowhere /\ pamTies = << Untied >> /\ pamQueue = EmptyQueue /\ pamArea.at = << >>
  /\ came = << >> /\ told = << >> /\ due = << >>

LEMMA PhaseIs ==
  PhaseOK => /\ Collecting => CollectOK /\ SaidOf = << >>
             /\ procState = "PROCESS" => CursorIn /\ ~Collecting /\ SaidOf = CursorSaid(pamSent, pamCur)
             /\ procState = "FEED" => FeedOK /\ ~Collecting
BY DEF PhaseOK, Collecting, SaidOf, CursorIn

LEMMA BlankInv == Blank => PamInv
<1> SUFFICES ASSUME Blank PROVE PamInv
  OBVIOUS
<1>1. IsSeq(<< >>) /\ Len(<< >>) = 0 /\ << >> \o << >> = << >>
  BY SeqEmpty, SeqNothing
<1>2. HistoryType /\ InputType
  BY <1>1 DEF HistoryType, InputType, Blank
<1>3. CursorType
  <2>1. pamCur \in [syll : Int, ph : Nat]
    BY DEF Blank, Nowhere
  <2>2. QueueType(pamQueue)
    BY DEF Blank, EmptyQueue, QueueType
  <2>3. AreaOK(pamArea)
    <3>1. DOMAIN << >> = {}
      BY <1>1, SeqFacts
    <3> QED  BY <3>1 DEF Blank, AreaOK
  <2> QED  BY <2>1, <2>2, <2>3 DEF CursorType
<1>4. SentOK(pamSent) /\ TotalSylls = 0 /\ Said(pamSent) = << >>
  BY NothingSaid DEF Blank, TotalSylls
<1>5. pamTies[1] = Untied /\ pamTies \in [1 .. 1 -> {Untied}] /\ pamQueue.last = 0
  BY DEF Blank, EmptyQueue
<1>6. Untied \in [first : Nat, last : Nat] /\ Untied.first = 0 /\ Untied.last = 0
  BY DEF Untied
<1>7. TiesOK
  <2>1. pamTies \in [1 .. 1 -> [first : Nat, last : Nat]]
    BY <1>5, <1>6
  <2>2. \A n \in 1 .. 1 : n = 1
    OBVIOUS
  <2> QED  BY <1>4, <1>5, <1>6, <2>1, <2>2 DEF TiesOK, TiesGood, TieRoom
<1>8. Grammar(came \o cbIn)
  <2>1. came \o cbIn = << >>
    BY <1>1 DEF Blank
  <2> QED  BY <1>1, <2>1 DEF Grammar
<1>9. PhaseOK
  <2>1. pamCur = [syll |-> TotalSylls - 1, ph |-> 0]
    BY <1>4 DEF Blank, Nowhere
  <2> QED  BY <1>4, <1>5, <2>1 DEF PhaseOK, Collecting, CollectOK, OpenOK, InputIn, FirstFree, Blank
<1>10. Balanced
  <2>1. Uttered(told \o pamOut) = << >> /\ Uttered(due) = << >>
    BY <1>1, UtteredEmpty DEF Blank
  <2>2. SaidOf = << >> /\ InSaid = << >>
    BY <1>4 DEF SaidOf, InSaid, Blank
  <2>3. Balance(<< >>, << >>, << >>, << >>, << >>, << >>)
    BY <1>1, Zenon DEF Balance
  <2> QED  BY <1>4, <2>1, <2>2, <2>3, Zenon DEF Balanced, Owes
<1> QED  BY <1>2, <1>3, <1>4, <1>7, <1>8, <1>9, <1>10 DEF PamInv

\* A step that leaves all of this alone.
invVars == << cbIn, procState, pamIn, pamOut, pamSent, pamCur, pamTies, pamQueue, pamArea, came, told, due >>
LEMMA StepNothing ==
  ASSUME PamInv, UNCHANGED invVars
  PROVE  PamInv'
<1>1. HistoryType' /\ InputType' /\ CursorType' /\ SentOK(pamSent)'
  BY DEF PamInv, invVars, HistoryType, InputType, CursorType, AreaOK
<1>2. TiesOK' /\ Grammar(came \o cbIn)'
  BY DEF PamInv, invVars, TiesOK, TieRoom, TotalSylls
<1>3. PhaseOK'
  BY DEF PamInv, invVars, PhaseOK, Collecting, CollectOK, OpenOK, InputIn, Due, TotalSylls, CursorIn, FeedOK,
         SomeLeft, HasToProcess, HasToPop, AnyTied, Ties, Syll
<1>4. Balanced'
  BY DEF PamInv, invVars, Balanced, Owes, SaidOf, InSaid, Due, Collecting, TotalSylls
<1> QED  BY <1>1, <1>2, <1>3, <1>4 DEF PamInv

-----------------------------------------------------------------------------
(* An item arrives.                                                          *)
LEMMA NumberedOK ==
  ASSUME NEW in \in PamItems, NEW n
  PROVE  ItemOK(Numbered(in, n)) /\ Numbered(in, n).kind = in.kind
<1>1. {"kind", "phones"} \subseteq DOMAIN in /\ in.kind # "PHONE"
      /\ (in.kind = "SYLL" => in.phones \in Seq(STRING) \ {<< >>})
  BY PamAssumption
<1>2. Numbered(in, n).kind = in.kind /\ Numbered(in, n).phones = in.phones
  BY <1>1 DEF Numbered
<1>3. in.kind = "SYLL" => PhonesOK(in.phones)
  BY <1>1 DEF PhonesOK, IsSeq
<1> QED  BY <1>1, <1>2, <1>3 DEF ItemOK

LEMMA StepArrive ==
  ASSUME PamInv, Arrive(MayFollow(came \o cbIn)), UNCHANGED pamOnly
  PROVE  PamInv'
<1>1. PICK in \in MayFollow(came \o cbIn) : cbIn' = Append(cbIn, Numbered(in, fed + 1))
  BY DEF Arrive
<1> DEFINE x == Numbered(in, fed + 1)
<1>2. in \in PamItems /\ (in.kind = "SBEG" => ~Open(came \o cbIn))
  BY <1>1 DEF MayFollow
<1>3. ItemOK(x) /\ x.kind = in.kind
  BY <1>2, NumberedOK
<1> HIDE DEF x
<1>4. cbIn' = Append(cbIn, x)
  BY <1>1 DEF x
<1>5. /\ IsSeq(cbIn) /\ IsSeq(came)
      /\ \A n \in 1 .. Len(cbIn) : ItemOK(cbIn[n])
  BY DEF PamInv, HistoryType
<1>6. UNCHANGED << procState, pamIn, pamOut, pamSent, pamCur, pamTies, pamQueue, pamArea, came, told, due >>
  BY DEF Arrive, pamOnly, pamHist, taking
<1>7. HistoryType'
  <2>1. IsSeq(cbIn') /\ \A n \in 1 .. Len(cbIn') : ItemOK(cbIn'[n])
    <3> DEFINE c == Append(cbIn, x)
    <3>1. /\ IsSeq(c) /\ Len(c) = Len(cbIn) + 1 /\ c[Len(cbIn) + 1] = x /\ Len(cbIn) \in Nat
          /\ \A n \in 1 .. Len(cbIn) : c[n] = cbIn[n]
      BY <1>5, SeqAppend, SeqFacts
    <3> HIDE DEF c
    <3>2. \A n \in 1 .. Len(cbIn) + 1 : n = Len(cbIn) + 1 \/ n \in 1 .. Len(cbIn)
      BY <3>1
    <3>3. \A n \in 1 .. Len(c) : ItemOK(c[n])
      BY <1>3, <1>5, <3>1, <3>2
    <3> QED  BY <1>4, <3>1, <3>3 DEF c
  <2> QED  BY <1>6, <2>1 DEF PamInv, HistoryType
<1>8. Grammar(came \o cbIn)'
  <2> DEFINE s == came \o cbIn
  <2>1. IsSeq(s) /\ Grammar(s)
    BY <1>5, SeqConcat DEF PamInv
  <2>2. came \o Append(cbIn, x) = Append(s, x)
    BY <1>5, AppendBehind
  <2>3. x.kind = "SBEG" => ~Open(s)
    BY <1>2, <1>3
  <2> HIDE DEF s
  <2>4. Grammar(Append(s, x))
    BY <2>1, <2>3, GrammarNext
  <2> QED  BY <1>4, <1>6, <2>2, <2>4
<1>9. InputType' /\ CursorType' /\ SentOK(pamSent)'
  BY <1>6 DEF PamInv, InputType, CursorType, AreaOK
<1>10. TiesOK'
  BY <1>6 DEF PamInv, TiesOK, TieRoom, TotalSylls
<1>11. PhaseOK'
  BY <1>6 DEF PamInv, PhaseOK, Collecting, CollectOK, OpenOK, InputIn, Due, TotalSylls, CursorIn, FeedOK,
         SomeLeft, HasToProcess, HasToPop, AnyTied, Ties, Syll
<1>12. Balanced'
  BY <1>6 DEF PamInv, Balanced, Owes, SaidOf, InSaid, Due, Collecting, TotalSylls
<1> QED  BY <1>7, <1>8, <1>9, <1>10, <1>11, <1>12 DEF PamInv

-----------------------------------------------------------------------------
(* COLLECT and SCHEDULE.                                                     *)
LEMMA StepCollect ==
  ASSUME PamInv, PamCollect
  PROVE  PamInv'
<1> DEFINE x == Head(cbIn)
<1>1. /\ procState = "COLLECT" /\ cbIn # << >> /\ cbIn' = Tail(cbIn) /\ procState' = "SCHEDULE"
      /\ pamIn' = << x >> /\ came' = Append(came, x) /\ due' = due \o DueFor(x)
      /\ UNCHANGED << pamOut, pamSent, pamCur, pamTies, pamQueue, pamArea, told >>
  BY DEF PamCollect, Running, Take, Leave, Taken
<1>2. /\ IsSeq(cbIn) /\ IsSeq(came) /\ IsSeq(due)
      /\ \A n \in 1 .. Len(cbIn) : ItemOK(cbIn[n])
  BY DEF PamInv, HistoryType
<1>3. /\ IsSeq(Tail(cbIn)) /\ Len(cbIn) >= 1 /\ Len(Tail(cbIn)) = Len(cbIn) - 1 /\ x = cbIn[1]
      /\ \A n \in 1 .. Len(cbIn) - 1 : Tail(cbIn)[n] = cbIn[n + 1]
      /\ Len(cbIn) \in Nat
  BY <1>1, <1>2, SeqTail, SeqFacts
<1>4. ItemOK(x)
  BY <1>2, <1>3
<1>5. Collecting /\ CollectOK /\ SaidOf = << >> /\ pamIn = << >>
  <2>1. Collecting
    BY <1>1 DEF Collecting
  <2>2. CollectOK /\ SaidOf = << >>
    BY <2>1, PhaseIs DEF PamInv
  <2> QED  BY <1>1, <2>1, <2>2 DEF CollectOK, InputIn
<1>6. IsSeq(DueFor(x)) /\ Uttered(DueFor(x)) = SaysOf(x)
  BY <1>4, DueSays
<1> DEFINE d == DueFor(x)
           c == Append(came, x)
<1>7. /\ IsSeq(c) /\ Len(c) = Len(came) + 1 /\ c[Len(came) + 1] = x /\ Len(came) \in Nat
      /\ \A n \in 1 .. Len(came) : c[n] = came[n]
  BY <1>2, SeqAppend, SeqFacts
<1>8. Grammar(came \o cbIn)'
  <2>1. c \o Tail(cbIn) = came \o cbIn
    BY <1>1, <1>2, FirstMoves
  <2>2. Grammar(came \o cbIn)
    BY DEF PamInv
  <2> HIDE DEF c
  <2>3. Grammar(c \o Tail(cbIn))
    BY <2>1, <2>2
  <2> QED  BY <1>1, <2>3 DEF c
<1>9. IsSeq(due \o d) /\ Uttered(due \o d) = Uttered(due) \o Uttered(d)
  BY <1>2, <1>6, SeqConcat, UtteredConcat
<1>10. came' = c /\ pamIn' = << x >> /\ Due' = x /\ due' = due \o d
  BY <1>1 DEF Due
<1> HIDE DEF d, c, x
<1>11. HistoryType'
  <2>1. \A n \in 1 .. Len(cbIn') : ItemOK(cbIn'[n])
    <3>1. ASSUME NEW n \in 1 .. Len(cbIn) - 1 PROVE ItemOK(Tail(cbIn)[n])
      <4>1. n + 1 \in 1 .. Len(cbIn)
        BY <1>3
      <4> QED  BY <1>2, <1>3, <4>1
    <3> QED  BY <1>1, <1>3, <3>1
  <2>2. IsSeq(cbIn') /\ IsSeq(came') /\ IsSeq(due')
    BY <1>1, <1>3, <1>7, <1>9, <1>10
  <2> QED  BY <1>1, <2>1, <2>2 DEF PamInv, HistoryType
<1>12. InputType'
  <2>1. came' # << >> /\ came'[Len(came')] = x
    BY <1>7, <1>10, SeqFacts
  <2> QED  BY <1>4, <1>10, <2>1 DEF InputType
<1>13. CursorType' /\ SentOK(pamSent)' /\ TiesOK'
  BY <1>1 DEF PamInv, CursorType, AreaOK, TiesOK, TieRoom, TotalSylls
<1>14. PhaseOK'
  <2>1. OpenOK'
    <3>1. Len(<< x >>) = 1 /\ Len(<< >>) = 0
      OBVIOUS
    <3>2. Len(came') - Len(pamIn') = Len(came) /\ Len(came) - Len(pamIn) = Len(came) /\ TotalSylls' = TotalSylls
      BY <1>1, <1>5, <1>7, <1>10, <3>1 DEF TotalSylls
    <3>3. TotalSylls > 0 => OpenUpTo(came, Len(came))
      BY <1>5, <3>2 DEF CollectOK, OpenOK
    <3>4. OpenUpTo(came, Len(came)) => OpenUpTo(c, Len(came))
      BY <1>7, OpenSame
    <3> QED  BY <1>10, <3>2, <3>3, <3>4 DEF OpenOK
  <2>2. InputIn'
    BY <1>1 DEF InputIn
  <2>3. Collecting'
    BY <1>1 DEF Collecting
  <2>4. CollectOK'
    BY <1>1, <1>5, <2>1, <2>2 DEF CollectOK, TotalSylls
  <2> QED  BY <2>3, <2>4 DEF PhaseOK
<1>15. Balanced'
  <2>1. PICK b : Owes(b)
    BY DEF PamInv, Balanced
  <2>2. InSaid = << >> /\ SaidOf' = << >> /\ InSaid' = SaysOf(x)
    <3>1. << x >> # << >>
      OBVIOUS
    <3>2. Collecting'
      BY <1>1 DEF Collecting
    <3> QED  BY <1>5, <1>10, <3>1, <3>2 DEF InSaid, SaidOf
  <2>3. Balance(Uttered(told \o pamOut), Uttered(due), b, << >>, Said(pamSent), << >>)
    BY <1>5, <2>1, <2>2 DEF Owes
  <2>4. IsSeq(SaysOf(x))
    BY <1>6, UtteredSeq DEF d
  <2>5. Balance(Uttered(told \o pamOut), Uttered(due) \o SaysOf(x), b, << >>, Said(pamSent), SaysOf(x))
    BY <2>3, <2>4, BalanceTake
  <2>6. Uttered(due') = Uttered(due) \o SaysOf(x)
    BY <1>6, <1>9, <1>10, Zenon DEF d
  <2>7. Owes(b)'
    BY <1>1, <2>2, <2>5, <2>6, Zenon DEF Owes
  <2> QED  BY <2>7 DEF Balanced
<1> QED  BY <1>8, <1>11, <1>12, <1>13, <1>14, <1>15 DEF PamInv

\* What stays when nothing is taken or put.
LEMMA HistoryStays ==
  ASSUME PamInv, UNCHANGED << cbIn, came, told, due, pamOut >>, pamIn' = pamIn \/ pamIn' = << >>
  PROVE  HistoryType' /\ InputType' /\ Grammar(came \o cbIn)'
<1>1. HistoryType' /\ Grammar(came \o cbIn)'
  BY DEF PamInv, HistoryType
<1>2. InputType'
  BY DEF PamInv, InputType
<1> QED  BY <1>1, <1>2

LEMMA BalancedSame ==
  ASSUME Balanced, UNCHANGED << told, pamOut, due >>, SaidOf' = SaidOf, Said(pamSent') = Said(pamSent),
         InSaid' = InSaid
  PROVE  Balanced'
BY Zenon DEF Balanced, Owes

LEMMA BalancedConsumed ==
  ASSUME Balanced, UNCHANGED << told, pamOut, due >>, SaidOf' = SaidOf,
         Said(pamSent') = Said(pamSent) \o InSaid, InSaid' = << >>
  PROVE  Balanced'
<1>1. PICK b : Owes(b)
  BY DEF Balanced
<1>2. Balance(Uttered(told \o pamOut), Uttered(due), b, SaidOf, Said(pamSent) \o InSaid, << >>)
  BY <1>1, BalanceForward DEF Owes
<1>3. Owes(b)'
  BY <1>2, Zenon DEF Owes
<1> QED  BY <1>3 DEF Balanced

LEMMA StepRest ==
  ASSUME PamInv, PamNothing
  PROVE  PamInv'
<1>1. /\ procState = "SCHEDULE" /\ procState' = "COLLECT" /\ pamIn = << >>
      /\ UNCHANGED << cbIn, pamIn, pamOut, pamSent, pamCur, pamTies, pamQueue, pamArea, came, told, due >>
  BY DEF PamNothing, Running, Leave, NoTransfer, pamOnly, pamHist, taking
<1>2. HistoryType' /\ InputType' /\ Grammar(came \o cbIn)'
  BY <1>1, HistoryStays
<1>3. CursorType' /\ SentOK(pamSent)' /\ TiesOK'
  BY <1>1 DEF PamInv, CursorType, AreaOK, TiesOK, TieRoom, TotalSylls
<1>4. Collecting /\ Collecting'
  BY <1>1 DEF Collecting
<1>5. CollectOK /\ SaidOf = << >>
  BY <1>4, PhaseIs DEF PamInv
<1>6. PhaseOK'
  <2>1. OpenOK' /\ InputIn'
    BY <1>1, <1>5 DEF CollectOK, OpenOK, InputIn, TotalSylls
  <2> QED  BY <1>1, <1>4, <1>5, <2>1 DEF PhaseOK, CollectOK, TotalSylls
<1>7. Balanced'
  <2>1. SaidOf' = SaidOf /\ InSaid' = InSaid
    BY <1>1, <1>4, <1>5 DEF SaidOf, InSaid
  <2> QED  BY <1>1, <2>1, BalancedSame DEF PamInv
<1> QED  BY <1>2, <1>3, <1>6, <1>7 DEF PamInv

\* What the phases have in common that work for the item in inBuf.
LEMMA InputHere ==
  ASSUME PamInv, procState \in {"SCHEDULE", "FORWARD", "FORCE_TERM", "IMMEDIATE"}, pamIn # << >>
  PROVE  /\ Collecting /\ CollectOK /\ SaidOf = << >> /\ InSaid = SaysOf(Due) /\ ItemOK(Due)
         /\ TotalSylls \in Nat /\ came # << >> /\ Len(came) \in Nat /\ Len(came) >= 1 /\ Len(pamIn) = 1
         /\ Due = came[Len(came)] /\ IsSeq(came) /\ IsSeq(cbIn)
         /\ TieRoom \in Nat \ {0}
<1>1. Collecting
  BY DEF Collecting
<1>2. CollectOK /\ SaidOf = << >>
  BY <1>1, PhaseIs DEF PamInv
<1>3. InSaid = SaysOf(Due)
  BY DEF InSaid
<1>4. IsSeq(came) /\ IsSeq(cbIn) /\ InputType
  BY DEF PamInv, HistoryType
<1>5. /\ came # << >> /\ Len(came) \in Nat /\ Len(came) >= 1 /\ Len(pamIn) = 1
      /\ Due = came[Len(came)] /\ ItemOK(Due)
  BY <1>4, InputIs
<1>6. TotalSylls \in Nat
  BY SeqFacts DEF PamInv, SentOK, TotalSylls
<1>7. TieRoom \in Nat \ {0}
  BY <1>6 DEF TieRoom
<1> QED  BY <1>1, <1>2, <1>3, <1>4, <1>5, <1>6, <1>7

LEMMA StepPlay ==
  ASSUME PamInv, PamPlay
  PROVE  PamInv'
<1>1. /\ procState = "SCHEDULE" /\ procState' = "SCHEDULE" /\ pamIn # << >> /\ pamIn' = << >> /\ Due.kind = "PLAY"
      /\ UNCHANGED << cbIn, pamOut, pamSent, pamCur, pamTies, pamQueue, pamArea, came, told, due >>
  BY DEF PamPlay, Scheduling, Consumed, SchedOnly, Running, Leave, NoTransfer, taking
<1>2. HistoryType' /\ InputType' /\ Grammar(came \o cbIn)'
  BY <1>1, HistoryStays
<1>3. CursorType' /\ SentOK(pamSent)' /\ TiesOK'
  BY <1>1 DEF PamInv, CursorType, AreaOK, TiesOK, TieRoom, TotalSylls
<1>4. /\ Collecting /\ CollectOK /\ SaidOf = << >> /\ InSaid = SaysOf(Due) /\ Len(came) \in Nat /\ IsSeq(came)
  BY <1>1, InputHere
<1>5. Collecting'
  BY <1>1 DEF Collecting
<1>6. PhaseOK'
  <2>1. OpenOK'
    <3>1. TotalSylls > 0 => OpenUpTo(came, Len(came))
      <4> SUFFICES ASSUME TotalSylls > 0 PROVE OpenUpTo(came, Len(came))
        OBVIOUS
      <4>1. OpenUpTo(came, Len(came) - Len(pamIn))
        BY <1>4 DEF CollectOK, OpenOK
      <4>2. Due.kind \notin SentEnd
        BY <1>1 DEF SentEnd
      <4> QED  BY <1>1, <1>4, <4>1, <4>2, OpenConsumed DEF PamInv
    <3>2. Len(came') - Len(pamIn') = Len(came)
      BY <1>1, <1>4, SeqEmpty
    <3> QED  BY <1>1, <3>1, <3>2 DEF OpenOK, TotalSylls
  <2>2. InputIn'
    BY <1>1 DEF InputIn
  <2> QED  BY <1>1, <1>4, <1>5, <2>1, <2>2 DEF PhaseOK, CollectOK, TotalSylls
<1>7. Balanced'
  <2>1. SaidOf' = SaidOf /\ InSaid' = InSaid
    BY <1>1, <1>4, <1>5 DEF SaidOf, InSaid, SaysOf
  <2> QED  BY <1>1, <2>1, BalancedSame DEF PamInv
<1> QED  BY <1>2, <1>3, <1>6, <1>7 DEF PamInv

LEMMA StepRoute ==
  ASSUME PamInv, PamRoute
  PROVE  PamInv'
<1>1. /\ procState = "SCHEDULE" /\ pamIn # << >> /\ procState' \in {"IMMEDIATE", "FORCE_TERM", "FORWARD"}
      /\ UNCHANGED << cbIn, pamIn, pamOut, pamSent, pamCur, pamTies, pamQueue, pamArea, came, told, due >>
      /\ procState' = "IMMEDIATE" => Passes(Due)
      /\ procState' = "FORWARD" => ~Passes(Due) /\ Due.kind \in BoundKinds \cup {"SYLL"}
  BY DEF PamRoute, Scheduling, Running, Leave, NoTransfer, pamOnly, pamHist, taking
<1>2. HistoryType' /\ InputType' /\ Grammar(came \o cbIn)'
  BY <1>1, HistoryStays
<1>3. CursorType' /\ SentOK(pamSent)' /\ TiesOK'
  BY <1>1 DEF PamInv, CursorType, AreaOK, TiesOK, TieRoom, TotalSylls
<1>4. Collecting /\ CollectOK /\ SaidOf = << >> /\ TotalSylls \in Nat
  BY <1>1, InputHere
<1>5. Collecting' /\ Due' = Due /\ TotalSylls' = TotalSylls
  BY <1>1 DEF Collecting, Due, TotalSylls
<1>6. PhaseOK'
  <2>1. OpenOK'
    BY <1>1, <1>4 DEF CollectOK, OpenOK, TotalSylls
  <2>2. pamCur.syll = TotalSylls - 1
    BY <1>4 DEF CollectOK
  <2>3. InputIn'
    <3>1. procState' = "IMMEDIATE" => Due.kind # "SYLL" /\ TotalSylls = 0
      BY <1>1, <1>4, <2>2 DEF Passes
    <3>2. procState' = "FORWARD" => Due.kind \in {"SBEG", "SYLL"} \/ TotalSylls > 0
      <4>1. Due.kind \in BoundKinds => ~IsCommand(Due)
        BY DEF BoundKinds, PauseBounds, IsCommand
      <4> QED  BY <1>1, <1>4, <2>2, <4>1 DEF Passes
    <3> QED  BY <1>1, <1>5, <3>1, <3>2 DEF InputIn
  <2> QED  BY <1>1, <1>4, <1>5, <2>1, <2>3 DEF PhaseOK, CollectOK
<1>7. Balanced'
  <2>1. SaidOf' = SaidOf /\ InSaid' = InSaid
    BY <1>1, <1>4, <1>5 DEF SaidOf, InSaid
  <2> QED  BY <1>1, <2>1, BalancedSame DEF PamInv
<1> QED  BY <1>2, <1>3, <1>6, <1>7 DEF PamInv

LEMMA StepAttach ==
  ASSUME PamInv, IdsFit, PamAttach
  PROVE  PamInv'
<1>1. /\ procState = "SCHEDULE" /\ procState' = "SCHEDULE" /\ pamIn # << >> /\ pamIn' = << >>
      /\ Due.kind \notin BoundKinds \cup {"SYLL"} /\ QueueItem(Due, pamCur.syll, pamTies)
      /\ UNCHANGED << cbIn, pamOut, pamSent, pamCur, came, told, due >>
  BY DEF PamAttach, Scheduling, Consumed, SchedOnly, Running, Leave, NoTransfer, taking
<1>2. HistoryType' /\ InputType' /\ Grammar(came \o cbIn)'
  BY <1>1, HistoryStays
<1>3. /\ Collecting /\ CollectOK /\ SaidOf = << >> /\ InSaid = SaysOf(Due) /\ ItemOK(Due)
      /\ Len(came) \in Nat /\ IsSeq(came) /\ TotalSylls \in Nat /\ TieRoom \in Nat \ {0}
  BY <1>1, InputHere
<1>4. Collecting' /\ TotalSylls' = TotalSylls /\ TieRoom' = TieRoom
  BY <1>1 DEF Collecting, TotalSylls, TieRoom
<1>5. pamCur.syll = TotalSylls - 1
  BY <1>3 DEF CollectOK
<1>6. /\ QueueType(pamQueue)' /\ AreaOK(pamArea)'
      /\ TiesGood(pamTies', TieRoom, pamQueue'.last)
      /\ pamCur.syll <= 0 => FirstFree(pamTies', pamQueue'.last)
  <2>1. QueueType(pamQueue) /\ AreaOK(pamArea) /\ TiesGood(pamTies, TieRoom, pamQueue.last)
    BY DEF PamInv, CursorType, TiesOK
  <2>2. pamCur.syll \in Int /\ pamCur.syll < TieRoom
    BY <1>3, <1>5 DEF TieRoom
  <2>3. pamCur.syll <= 0 => FirstFree(pamTies, pamQueue.last)
    BY <1>3, <1>5 DEF CollectOK
  <2>4. Due.kind # "PHONE"
    BY <1>3 DEF ItemOK
  <2> QED  BY <1>1, <1>3, <2>1, <2>2, <2>3, <2>4, QueueKeeps
<1>7. CursorType' /\ SentOK(pamSent)' /\ TiesOK'
  BY <1>1, <1>4, <1>6 DEF PamInv, CursorType, TiesOK
<1>8. PhaseOK'
  <2>1. OpenOK'
    <3>1. TotalSylls > 0 => OpenUpTo(came, Len(came))
      <4> SUFFICES ASSUME TotalSylls > 0 PROVE OpenUpTo(came, Len(came))
        OBVIOUS
      <4>1. OpenUpTo(came, Len(came) - Len(pamIn))
        BY <1>3 DEF CollectOK, OpenOK
      <4>2. Due.kind \notin SentEnd
        BY <1>1 DEF SentEnd, BoundKinds, PauseBounds
      <4> QED  BY <1>1, <1>3, <4>1, <4>2, OpenConsumed DEF PamInv
    <3>2. Len(came') - Len(pamIn') = Len(came)
      BY <1>1, <1>3, SeqEmpty
    <3> QED  BY <1>1, <1>4, <3>1, <3>2 DEF OpenOK
  <2>2. InputIn'
    BY <1>1 DEF InputIn
  <2>3. TotalSylls <= 1 => FirstFree(pamTies', pamQueue'.last)
    BY <1>3, <1>5, <1>6
  <2> QED  BY <1>1, <1>3, <1>4, <2>1, <2>2, <2>3 DEF PhaseOK, CollectOK
<1>9. Balanced'
  <2>1. SaidOf' = SaidOf /\ InSaid' = InSaid
    BY <1>1, <1>3, <1>4 DEF SaidOf, InSaid, SaysOf
  <2> QED  BY <1>1, <2>1, BalancedSame DEF PamInv
<1> QED  BY <1>2, <1>7, <1>8, <1>9 DEF PamInv

-----------------------------------------------------------------------------
(* FORWARD: the sentence grows.                                              *)
LEMMA SentGrows ==
  ASSUME PamInv, procState \in {"SCHEDULE", "FORWARD", "FORCE_TERM", "IMMEDIATE"}, pamIn # << >>,
         NEW item, Forwards(pamSent, item), pamSent' = ForwardStep(pamSent, item)
  PROVE  /\ SentOK(pamSent') /\ Said(pamSent') = Said(pamSent) \o SaysOf(item)
         /\ TotalSylls' = TotalSylls + Growth(pamSent, item) /\ TotalSylls' \in Nat \ {0}
         /\ TieRoom <= TotalSylls' /\ TieRoom' = TotalSylls' /\ TotalSylls <= TotalSylls'
         /\ TiesGood(NewTies(pamSent'.syls), TotalSylls', pamQueue.last)
         /\ TotalSylls' <= 1 => FirstFree(NewTies(pamSent'.syls), pamQueue.last)
<1> DEFINE u == pamSent'.syls
           k == TotalSylls'
<1>1. CollectOK /\ TotalSylls \in Nat /\ TieRoom \in Nat \ {0}
  BY InputHere
<1>2. Grown(pamSent, pamSent', Growth(pamSent, item)) /\ Said(pamSent') = Said(pamSent) \o SaysOf(item)
  BY ForwardKeeps DEF PamInv
<1>3. SentOK(pamSent') /\ k = TotalSylls + Growth(pamSent, item) /\ IsSeq(u) /\ Len(u) = k
  BY <1>2 DEF Grown, TotalSylls, SentOK
<1>4. Growth(pamSent, item) \in Nat /\ (TotalSylls = 0 => Growth(pamSent, item) # 0)
  BY <1>1 DEF Growth, Forwards, TotalSylls
<1>5. k \in Nat \ {0} /\ TieRoom <= k /\ TotalSylls <= k
  BY <1>1, <1>3, <1>4 DEF TieRoom
<1> HIDE DEF k
<1>6. TieRoom' = k
  BY <1>5 DEF TieRoom, k
<1>7. pamQueue.last \in Nat /\ TiesGood(pamTies, TieRoom, pamQueue.last)
  BY DEF PamInv, CursorType, QueueType, TiesOK
<1> HIDE DEF u
<1>8. TiesGood(NewTies(u), k, pamQueue.last) /\ NewTies(u)[1] = pamTies[1]
  BY <1>1, <1>3, <1>5, <1>7, NewTiesGood
<1>9. k <= 1 => FirstFree(NewTies(u), pamQueue.last)
  <2>1. k <= 1 => TotalSylls <= 1
    BY <1>1, <1>5
  <2> QED  BY <1>1, <1>8, <2>1 DEF CollectOK, FirstFree
<1> QED  BY <1>2, <1>3, <1>5, <1>6, <1>8, <1>9 DEF u, k

LEMMA StepForward ==
  ASSUME PamInv, IdsFit, PamForward
  PROVE  PamInv'
<1> DEFINE ties == NewTies(pamSent'.syls)
<1>1. /\ procState = "FORWARD" /\ procState' = "SCHEDULE" /\ pamIn' = << >> /\ Due.kind \notin {"SEND", "TERM"}
      /\ pamSent' = ForwardStep(pamSent, Due) /\ pamCur' = [syll |-> Len(pamSent'.syls) - 1, ph |-> 0]
      /\ UNCHANGED << cbIn, pamOut, came, told, due >>
      /\ IF Due.kind \in {"SBEG", "PHR1", "PHR2"} THEN QueueItem(Due, pamCur'.syll, ties)
         ELSE pamTies' = ties /\ UNCHANGED << pamQueue, pamArea >>
  BY DEF PamForward, Extended, Consumed, Running, Leave, NoTransfer, taking
<1> HIDE DEF ties
<1>2. HistoryType' /\ InputType' /\ Grammar(came \o cbIn)'
  BY <1>1, HistoryStays
<1>3. pamIn # << >> /\ Due.kind \in BoundKinds \cup {"SYLL"} /\ (Due.kind \in {"SBEG", "SYLL"} \/ TotalSylls > 0)
  <2>1. CollectOK
    BY <1>1, PhaseIs DEF PamInv, Collecting
  <2> QED  BY <1>1, <2>1 DEF CollectOK, InputIn
<1>4. /\ Collecting /\ CollectOK /\ SaidOf = << >> /\ InSaid = SaysOf(Due) /\ ItemOK(Due)
      /\ TotalSylls \in Nat /\ came # << >> /\ Len(came) \in Nat /\ Len(came) >= 1 /\ Len(pamIn) = 1
      /\ Due = came[Len(came)] /\ IsSeq(came) /\ IsSeq(cbIn)
  BY <1>1, <1>3, InputHere
<1>5. Due.kind = "SBEG" => TotalSylls = 0
  <2> SUFFICES ASSUME Due.kind = "SBEG" PROVE ~(TotalSylls > 0)
    BY <1>4
  <2>1. ~OpenUpTo(came, Len(came) - 1)
    BY <1>4, GrammarLast DEF PamInv
  <2> QED  BY <1>4, <2>1 DEF CollectOK, OpenOK
<1>6. Forwards(pamSent, Due)
  BY <1>3, <1>4, <1>5 DEF Forwards, ItemOK, TotalSylls
<1>7. /\ SentOK(pamSent') /\ Said(pamSent') = Said(pamSent) \o SaysOf(Due)
      /\ TotalSylls' \in Nat \ {0} /\ TieRoom' = TotalSylls'
      /\ TiesGood(ties, TotalSylls', pamQueue.last)
      /\ TotalSylls' <= 1 => FirstFree(ties, pamQueue.last)
  BY <1>1, <1>3, <1>6, SentGrows DEF ties
<1>8. pamCur' = [syll |-> TotalSylls' - 1, ph |-> 0] /\ pamCur'.syll = TotalSylls' - 1
  BY <1>1 DEF TotalSylls
<1>9. /\ QueueType(pamQueue)' /\ AreaOK(pamArea)' /\ TiesGood(pamTies', TotalSylls', pamQueue'.last)
      /\ TotalSylls' <= 1 => FirstFree(pamTies', pamQueue'.last)
  <2>1. QueueType(pamQueue) /\ AreaOK(pamArea)
    BY DEF PamInv, CursorType
  <2>2. CASE Due.kind \in {"SBEG", "PHR1", "PHR2"}
    <3>0. TotalSylls' \in Nat \ {0} /\ pamCur'.syll = TotalSylls' - 1
      BY <1>7, <1>8
    <3>2. PICK m \in Nat \ {0} : m = TotalSylls'
      BY <3>0
    <3>1. PICK n \in Int : n = m - 1 /\ n = pamCur'.syll
      <4>1. m - 1 \in Int /\ m - 1 = pamCur'.syll
        BY <3>0, <3>2
      <4> QED  BY <4>1
    <3>3. PICK t : t = ties
      OBVIOUS
    <3>4. QueueItem(Due, n, t)
      BY <1>1, <2>2, <3>1, <3>3
    <3>5. n < m /\ (n <= 0 <=> m <= 1) /\ Due.kind # "PHONE"
      BY <1>4, <3>1 DEF ItemOK
    <3>6. TiesGood(t, m, pamQueue.last) /\ (n <= 0 => FirstFree(t, pamQueue.last))
      BY <1>7, <3>2, <3>3, <3>5
    <3>7. /\ QueueType(pamQueue)' /\ AreaOK(pamArea)' /\ TiesGood(pamTies', m, pamQueue'.last)
          /\ n <= 0 => FirstFree(pamTies', pamQueue'.last)
      BY <2>1, <3>4, <3>5, <3>6, QueueKeeps
    <3> QED  BY <3>2, <3>5, <3>7
  <2>3. CASE Due.kind \notin {"SBEG", "PHR1", "PHR2"}
    BY <1>1, <1>7, <2>1, <2>3
  <2> QED  BY <2>2, <2>3
<1>10. CursorType' /\ SentOK(pamSent)' /\ TiesOK'
  <2>1. pamCur' \in [syll : Int, ph : Nat]
    BY <1>7, <1>8
  <2> QED  BY <1>7, <1>9, <2>1 DEF CursorType, TiesOK
<1>11. Collecting'
  BY <1>1 DEF Collecting
<1>12. PhaseOK'
  <2>1. OpenOK'
    <3>1. OpenUpTo(came, Len(came))
      <4>1. Due.kind \notin {"SBEG", "SYLL"} => Due.kind \notin SentEnd /\ OpenUpTo(came, Len(came) - Len(pamIn))
        BY <1>1, <1>3, <1>4 DEF CollectOK, OpenOK, SentEnd
      <4> QED  BY <1>3, <1>4, <4>1, OpenConsumed DEF PamInv
    <3>2. Len(came') - Len(pamIn') = Len(came)
      BY <1>1, <1>4, SeqEmpty
    <3> QED  BY <1>1, <3>1, <3>2 DEF OpenOK
  <2>2. InputIn'
    BY <1>1 DEF InputIn
  <2>3. pamOut' = << >>
    BY <1>1, <1>4 DEF CollectOK
  <2> QED  BY <1>8, <1>9, <1>11, <2>1, <2>2, <2>3 DEF PhaseOK, CollectOK
<1>13. Balanced'
  <2>1. SaidOf' = SaidOf /\ InSaid' = << >> /\ Said(pamSent') = Said(pamSent) \o InSaid
    BY <1>1, <1>4, <1>7, <1>11 DEF SaidOf, InSaid
  <2> QED  BY <1>1, <2>1, BalancedConsumed DEF PamInv
<1> QED  BY <1>2, <1>10, <1>12, <1>13 DEF PamInv

\* The end of a sentence, its own or a forced one.
LEMMA ClosedKeeps ==
  ASSUME PamInv, IdsFit, procState \in {"FORWARD", "FORCE_TERM"}, pamIn # << >>, NEW item, item.kind \in {"SEND", "TERM"},
         Closed(item),
         \/ pamIn' = << >> /\ item = Due
         \/ pamIn' = pamIn
  PROVE  PamInv'
<1> DEFINE ties == NewTies(pamSent'.syls)
<1>1. /\ procState' = "PROCESS" /\ pamSent' = ForwardStep(pamSent, item) /\ pamCur' = [syll |-> 0, ph |-> 0]
      /\ QueueItem(item, Len(pamSent'.syls) - 1, ties)
      /\ UNCHANGED << cbIn, pamOut, came, told, due >>
  BY DEF Closed, Leave, NoTransfer, taking
<1> HIDE DEF ties
<1>2. HistoryType' /\ InputType' /\ Grammar(came \o cbIn)'
  BY <1>1, HistoryStays
<1>3. /\ Collecting /\ CollectOK /\ SaidOf = << >> /\ InSaid = SaysOf(Due) /\ TotalSylls \in Nat
  BY InputHere
<1>4. Forwards(pamSent, item) /\ SaysOf(item) = << >>
  BY DEF Forwards, BoundKinds, PauseBounds, SaysOf
<1>5. /\ SentOK(pamSent') /\ Said(pamSent') = Said(pamSent) \o SaysOf(item)
      /\ TotalSylls' \in Nat \ {0} /\ TieRoom' = TotalSylls'
      /\ TiesGood(ties, TotalSylls', pamQueue.last)
      /\ TotalSylls' <= 1 => FirstFree(ties, pamQueue.last)
  BY <1>1, <1>4, SentGrows DEF ties
<1>6. QueueType(pamQueue)' /\ AreaOK(pamArea)' /\ TiesGood(pamTies', TotalSylls', pamQueue'.last)
  <2>1. QueueType(pamQueue) /\ AreaOK(pamArea)
    BY DEF PamInv, CursorType
  <2>2. PICK m \in Nat \ {0} : m = TotalSylls'
    <3>1. TotalSylls' \in Nat \ {0}
      BY <1>5
    <3> QED  BY <3>1
  <2>3. PICK n \in Int : n = m - 1
    <3>1. m - 1 \in Int
      OBVIOUS
    <3> QED  BY <3>1
  <2>4. PICK t : t = ties
    OBVIOUS
  <2>5. QueueItem(item, n, t)
    BY <1>1, <2>2, <2>3, <2>4 DEF TotalSylls
  <2>6. n < m /\ (n <= 0 <=> m <= 1) /\ item.kind # "PHONE"
    BY <2>3
  <2>7. TiesGood(t, m, pamQueue.last) /\ (n <= 0 => FirstFree(t, pamQueue.last))
    BY <1>5, <2>2, <2>4, <2>6
  <2>8. QueueType(pamQueue)' /\ AreaOK(pamArea)' /\ TiesGood(pamTies', m, pamQueue'.last)
    BY <2>1, <2>5, <2>6, <2>7, QueueKeeps
  <2> QED  BY <2>2, <2>8
<1>7. pamCur' \in [syll : Int, ph : Nat] /\ pamCur'.syll = 0 /\ pamCur'.ph = 0
  BY <1>1
<1>8. CursorType' /\ SentOK(pamSent)' /\ TiesOK'
  BY <1>5, <1>6, <1>7 DEF CursorType, TiesOK
<1>9. CursorIn'
  <2>1. HavePhones(pamSent'.syls, TotalSylls') /\ 1 \in 1 .. TotalSylls'
    BY <1>5 DEF SentOK, HavePhones, TotalSylls
  <2>2. Len(pamSent'.syls[0 + 1].phones) \in Nat
    BY <2>1, PhonesLen DEF HavePhones
  <2> QED  BY <1>5, <1>7, <2>2 DEF CursorIn, CursorAt, TotalSylls
<1>10. PhaseOK'
  BY <1>1, <1>9 DEF PhaseOK
<1>11. Balanced'
  <2>1. SaidOf' = SaidOf
    <3>1. ~Collecting' /\ TotalSylls' # 0
      BY <1>1, <1>5 DEF Collecting
    <3>2. CursorSaid(pamSent', pamCur') = << >>
      BY <1>7, CursorFirst
    <3> QED  BY <1>3, <3>1, <3>2 DEF SaidOf
  <2>2. Said(pamSent') = Said(pamSent) \o << >>
    BY <1>4, <1>5
  <2>3. Said(pamSent') = Said(pamSent)
    <3> DEFINE a == Said(pamSent)
    <3>1. IsSeq(a) /\ Said(pamSent') = a \o << >>
      BY <2>2, SaidSeq DEF PamInv
    <3> HIDE DEF a
    <3>2. Said(pamSent') = a
      BY <3>1, SeqNothing
    <3> QED  BY <3>2 DEF a
  <2>4. InSaid' = InSaid
    BY <1>3, <1>4 DEF InSaid, Due
  <2> QED  BY <1>1, <2>1, <2>3, <2>4, BalancedSame DEF PamInv
<1> QED  BY <1>2, <1>8, <1>10, <1>11 DEF PamInv

LEMMA StepForwardEnd ==
  ASSUME PamInv, IdsFit, PamForwardEnd
  PROVE  PamInv'
<1>1. procState = "FORWARD" /\ Due.kind \in {"SEND", "TERM"} /\ Closed(Due) /\ pamIn' = << >>
  BY DEF PamForwardEnd, Running, Consumed
<1>2. pamIn # << >>
  <2>1. CollectOK
    BY <1>1, PhaseIs DEF PamInv, Collecting
  <2> QED  BY <1>1, <2>1 DEF CollectOK, InputIn
<1> QED  BY <1>1, <1>2, ClosedKeeps

LEMMA StepForceTerm ==
  ASSUME PamInv, IdsFit, PamForceTerm
  PROVE  PamInv'
<1>1. procState = "FORCE_TERM" /\ Closed(ForcedTerm) /\ pamIn' = pamIn
  BY DEF PamForceTerm, Running
<1>2. pamIn # << >>
  <2>1. CollectOK
    BY <1>1, PhaseIs DEF PamInv, Collecting
  <2> QED  BY <1>1, <2>1 DEF CollectOK, InputIn
<1>3. ForcedTerm.kind \in {"SEND", "TERM"}
  BY DEF ForcedTerm
<1> QED  BY <1>1, <1>2, <1>3, ClosedKeeps

-----------------------------------------------------------------------------
(* PROCESS: items and phones of the sentence go into outBuf.                 *)
LEMMA ProcessHere ==
  ASSUME PamInv, procState = "PROCESS"
  PROVE  /\ CursorIn /\ ~Collecting /\ SaidOf = CursorSaid(pamSent, pamCur) /\ TotalSylls \in Nat
         /\ SentOK(pamSent) /\ pamCur.syll \in 0 .. TotalSylls /\ pamCur.ph \in Nat
         /\ IsSeq(pamOut) /\ IsSeq(told) /\ TiesOK
         /\ QueueType(pamQueue) /\ AreaOK(pamArea) /\ pamCur \in [syll : Int, ph : Nat]
<1>1. CursorIn /\ ~Collecting /\ SaidOf = CursorSaid(pamSent, pamCur)
  BY PhaseIs DEF PamInv
<1>2. SentOK(pamSent) /\ TotalSylls \in Nat
  BY SeqFacts DEF PamInv, SentOK, TotalSylls
<1>3. pamCur.syll \in 0 .. TotalSylls /\ pamCur.ph \in Nat
  BY <1>1 DEF CursorIn, CursorAt, TotalSylls
<1>4. QueueType(pamQueue) /\ AreaOK(pamArea) /\ pamCur \in [syll : Int, ph : Nat]
  BY DEF PamInv, CursorType
<1> QED  BY <1>1, <1>2, <1>3, <1>4 DEF PamInv, HistoryType

\* One item more in outBuf.
LEMMA PutBehind ==
  ASSUME IsSeq(told), IsSeq(pamOut), NEW x
  PROVE  /\ IsSeq(Append(pamOut, x)) /\ Append(pamOut, x) # << >>
         /\ Uttered(told \o Append(pamOut, x))
              = IF Speaks(x) THEN Append(Uttered(told \o pamOut), << x.id, x.ph, x.n >>)
                ELSE Uttered(told \o pamOut)
<1> DEFINE s == told \o pamOut
           a == Append(pamOut, x)
<1>1. IsSeq(s)
  BY SeqConcat
<1>2. IsSeq(a) /\ Len(a) = Len(pamOut) + 1 /\ Len(pamOut) \in Nat
  BY SeqAppend, SeqFacts
<1>3. told \o a = Append(s, x)
  BY AppendBehind
<1> HIDE DEF s, a
<1>4. a # << >>
  BY <1>2, SeqEmpty
<1>5. Uttered(Append(s, x)) = IF Speaks(x) THEN Append(Uttered(s), << x.id, x.ph, x.n >>) ELSE Uttered(s)
  BY <1>1, UtteredAppend
<1>6. Uttered(told \o a) = IF Speaks(x) THEN Append(Uttered(s), << x.id, x.ph, x.n >>) ELSE Uttered(s)
  BY <1>3, <1>5, Zenon
<1> QED  BY <1>2, <1>4, <1>6 DEF s, a

\* A step of PROCESS: outBuf keeps or gets the phone the cursor was before.
LEMMA ProcessKeeps ==
  ASSUME PamInv, procState = "PROCESS", UNCHANGED << cbIn, pamIn, pamSent, pamTies, pamArea, came, told, due >>,
         IsSeq(pamOut'), pamCur' \in [syll : Int, ph : Nat], QueueType(pamQueue)', pamQueue'.last = pamQueue.last,
         CursorAt(pamSent, pamCur'),
         \/ procState' = "PROCESS"
         \/ procState' = "FEED" /\ pamOut' # << >> /\ SomeLeft',
         \/ /\ Uttered(told \o pamOut') = Uttered(told \o pamOut)
            /\ CursorSaid(pamSent, pamCur') = CursorSaid(pamSent, pamCur)
         \/ \E x : /\ Uttered(told \o pamOut') = Append(Uttered(told \o pamOut), x)
                   /\ CursorSaid(pamSent, pamCur') = Append(CursorSaid(pamSent, pamCur), x)
  PROVE  PamInv'
<1>1. CursorIn /\ ~Collecting /\ SaidOf = CursorSaid(pamSent, pamCur) /\ AreaOK(pamArea)
  BY ProcessHere
<1>2. HistoryType' /\ InputType' /\ Grammar(came \o cbIn)'
  BY DEF PamInv, HistoryType, InputType
<1>3. CursorType' /\ SentOK(pamSent)'
  BY <1>1 DEF PamInv, CursorType, AreaOK
<1>4. TiesOK'
  BY DEF PamInv, TiesOK, TieRoom, TotalSylls
<1>5. CursorIn'
  BY <1>1 DEF CursorIn, TotalSylls
<1>6. PhaseOK'
  BY <1>5 DEF PhaseOK, FeedOK
<1>7. Balanced'
  <2>1. PICK b : Owes(b)
    BY DEF PamInv, Balanced
  <2>2. SaidOf' = CursorSaid(pamSent, pamCur') /\ InSaid' = InSaid
    <3>1. ~Collecting' /\ TotalSylls' # 0
      BY <1>5 DEF Collecting, CursorIn
    <3> QED  BY <3>1 DEF SaidOf, InSaid, Due
  <2> DEFINE put == Uttered(told \o pamOut)
             put2 == Uttered(told \o pamOut')
             said == CursorSaid(pamSent, pamCur)
             said2 == CursorSaid(pamSent, pamCur')
             asks == Uttered(due)
             all == Said(pamSent)
             rest == InSaid
  <2>3. Balance(put, asks, b, said, all, rest)
    BY <1>1, <2>1 DEF Owes
  <2>4. (put2 = put /\ said2 = said) \/ \E x : put2 = Append(put, x) /\ said2 = Append(said, x)
    OBVIOUS
  <2>5. Balance(put2, asks, b, said2, all, rest) => Owes(b)'
    BY <2>2, Zenon DEF Owes
  <2> HIDE DEF put, put2, said, said2, asks, all, rest
  <2>6. Balance(put2, asks, b, said2, all, rest)
    <3>1. CASE put2 = put /\ said2 = said
      BY <2>3, <3>1
    <3>2. CASE \E x : put2 = Append(put, x) /\ said2 = Append(said, x)
      <4>1. PICK x : put2 = Append(put, x) /\ said2 = Append(said, x)
        BY <3>2
      <4>2. Balance(Append(put, x), asks, b, Append(said, x), all, rest)
        BY <2>3, BalancePhone
      <4> QED  BY <4>1, <4>2
    <3> QED  BY <2>4, <3>1, <3>2
  <2> QED  BY <2>5, <2>6 DEF Balanced
<1> QED  BY <1>2, <1>3, <1>4, <1>6, <1>7 DEF PamInv

\* Items tied to the first syllable, before its phone.
LEMMA FirstTiedOK ==
  ASSUME PamInv, procState = "PROCESS"
  PROVE  /\ ~Speaks(FirstTied) /\ QueueType(NextQueue) /\ NextQueue.last = pamQueue.last
         /\ NextQueue.cur = pamQueue.cur + 1
<1>1. QueueType(pamQueue) /\ AreaOK(pamArea)
  BY ProcessHere
<1>2. FirstTied.kind # "PHONE"
  BY <1>1, AttachedOK DEF FirstTied
<1>3. QueueType(NextQueue) /\ NextQueue.last = pamQueue.last /\ NextQueue.cur = pamQueue.cur + 1
  BY <1>1 DEF NextQueue, QueueType
<1> QED  BY <1>2, <1>3 DEF Speaks

LEMMA StepPreFeed ==
  ASSUME PamInv, PamPreFeed
  PROVE  PamInv'
<1>1. /\ procState = "PROCESS" /\ BeforeFirst /\ pamOut' = Append(pamOut, FirstTied) /\ pamQueue' = NextQueue
      /\ procState' = "FEED"
      /\ UNCHANGED << cbIn, pamIn, pamSent, pamTies, pamArea, came, told, due, pamCur >>
  BY DEF PamPreFeed, Running, Leave, ProcessOnly, NoTransfer, pamHist, taking
<1>2. /\ CursorIn /\ TotalSylls \in Nat /\ IsSeq(pamOut) /\ IsSeq(told) /\ TiesOK /\ QueueType(pamQueue)
      /\ pamCur \in [syll : Int, ph : Nat]
  BY <1>1, ProcessHere
<1>3. ~Speaks(FirstTied) /\ QueueType(NextQueue) /\ NextQueue.last = pamQueue.last /\ NextQueue.cur = pamQueue.cur + 1
  BY <1>1, FirstTiedOK
<1> DEFINE x == FirstTied
<1>4. /\ IsSeq(Append(pamOut, x)) /\ Append(pamOut, x) # << >>
      /\ Uttered(told \o Append(pamOut, x)) = Uttered(told \o pamOut)
  <2> HIDE DEF x
  <2>1. ~Speaks(x)
    BY <1>3 DEF x
  <2> QED  BY <1>2, <2>1, PutBehind
<1>5. pamOut' = Append(pamOut, x)
  BY <1>1
<1> HIDE DEF x
<1>6. IsSeq(pamOut') /\ pamOut' # << >> /\ Uttered(told \o pamOut') = Uttered(told \o pamOut)
  BY <1>4, <1>5
<1>7. SomeLeft'
  <2>1. Ties \in [first : Nat, last : Nat]
    <3>1. pamCur.syll + 1 \in 1 .. TieRoom
      BY <1>1, <1>2 DEF BeforeFirst, TieRoom, CursorIn
    <3> QED  BY <3>1 DEF Ties, TiesOK, TiesGood, PamInv
  <2>2. pamQueue'.cur <= Ties.last
    BY <1>1, <1>2, <1>3, <2>1 DEF BeforeFirst, AnyTied, QueueType
  <2>3. Ties' = Ties /\ TotalSylls' = TotalSylls
    BY <1>1 DEF Ties, TotalSylls
  <2>4. pamCur.syll \in 0 .. TotalSylls - 1
    BY <1>1, <1>2 DEF BeforeFirst, CursorIn
  <2>5. HasToPop'
    BY <1>1, <2>2, <2>3, <2>4 DEF HasToPop, AnyTied, BeforeFirst
  <2> QED  BY <2>5 DEF SomeLeft
<1>8. CursorAt(pamSent, pamCur') /\ CursorSaid(pamSent, pamCur') = CursorSaid(pamSent, pamCur)
  BY <1>1, <1>2 DEF CursorIn
<1>9. pamCur' \in [syll : Int, ph : Nat] /\ QueueType(pamQueue)' /\ pamQueue'.last = pamQueue.last
  BY <1>1, <1>2, <1>3
<1> QED  BY <1>1, <1>6, <1>7, <1>8, <1>9, ProcessKeeps

LEMMA StepPreCommand ==
  ASSUME PamInv, PamPreCommand
  PROVE  PamInv'
<1>1. /\ procState = "PROCESS" /\ Putting(FirstTied) /\ pamQueue' = NextQueue /\ procState' = "PROCESS"
      /\ UNCHANGED << cbIn, pamIn, pamSent, pamTies, pamArea, came, told, due, pamCur >>
  BY DEF PamPreCommand, Running, Leave, ProcessOnly, NoTransfer, pamHist, taking
<1>2. /\ CursorIn /\ IsSeq(pamOut) /\ IsSeq(told) /\ pamCur \in [syll : Int, ph : Nat]
  BY <1>1, ProcessHere
<1>3. ~Speaks(FirstTied) /\ QueueType(NextQueue) /\ NextQueue.last = pamQueue.last
  BY <1>1, FirstTiedOK
<1> DEFINE x == FirstTied
<1>4. ~Speaks(x)
  BY <1>3
<1>5. pamOut' \in {pamOut, Append(pamOut, x)}
  BY <1>1 DEF Putting
<1> HIDE DEF x
<1>6. IsSeq(pamOut') /\ Uttered(told \o pamOut') = Uttered(told \o pamOut)
  <2>1. IsSeq(Append(pamOut, x)) /\ Uttered(told \o Append(pamOut, x)) = Uttered(told \o pamOut)
    BY <1>2, <1>4, PutBehind
  <2> QED  BY <1>2, <1>5, <2>1
<1>7. CursorAt(pamSent, pamCur') /\ CursorSaid(pamSent, pamCur') = CursorSaid(pamSent, pamCur)
  BY <1>1, <1>2 DEF CursorIn
<1>8. pamCur' \in [syll : Int, ph : Nat] /\ QueueType(pamQueue)' /\ pamQueue'.last = pamQueue.last
  BY <1>1, <1>2, <1>3
<1> QED  BY <1>1, <1>6, <1>7, <1>8, ProcessKeeps

LEMMA StepPhone ==
  ASSUME PamInv, PamPhone
  PROVE  PamInv'
<1> DEFINE queue == IF BeforeFirst THEN NextQueue ELSE pamQueue
<1>1. /\ procState = "PROCESS" /\ HasToProcess /\ PhoneMade(queue)
      /\ UNCHANGED << cbIn, pamIn, pamSent, pamTies, pamArea, came, told, due >>
  BY DEF PamPhone, Running, ProcessOnly, NoTransfer, pamHist, taking
<1>2. /\ CursorIn /\ TotalSylls \in Nat /\ IsSeq(pamOut) /\ IsSeq(told) /\ TiesOK /\ QueueType(pamQueue)
      /\ SentOK(pamSent) /\ pamCur \in [syll : Int, ph : Nat]
  BY <1>1, ProcessHere
<1>3. QueueType(queue) /\ queue.last = pamQueue.last
  BY <1>1, <1>2, FirstTiedOK
<1> HIDE DEF queue
<1> DEFINE syl == Syll(pamCur.syll)
<1>4. PICK f : pamOut' = Append(pamOut, PhoneItem(syl, f)) /\ Update(queue) /\ procState' = "FEED"
  <2>1. \E f : pamOut' = Append(pamOut, PhoneItem(syl, f))
    BY <1>1 DEF PhoneMade
  <2>2. Update(queue) /\ procState' = "FEED"
    BY <1>1 DEF PhoneMade, Leave
  <2> QED  BY <2>1, <2>2
<1> DEFINE x == PhoneItem(syl, f)
           said == << syl.id, syl.phones[pamCur.ph + 1], pamCur.ph + 1 >>
<1>5. x.kind = "PHONE" /\ x.id = syl.id /\ x.ph = syl.phones[pamCur.ph + 1] /\ x.n = pamCur.ph + 1
  BY DEF PhoneItem
<1>6. pamCur.syll \in 0 .. TotalSylls - 1 /\ pamCur.ph < Len(syl.phones) /\ syl = pamSent.syls[pamCur.syll + 1]
  BY <1>1 DEF HasToProcess, Len3, Syll
<1>7. /\ pamCur' \in [syll : Int, ph : Nat] /\ QueueType(pamQueue)' /\ pamQueue'.last = pamQueue.last
      /\ Moves(pamSent, pamCur, pamCur') /\ SomeLeft'
  <2>1. pamCur.syll < TotalSylls
    BY <1>2, <1>6
  <2> QED  BY <1>1, <1>2, <1>3, <1>4, <2>1, UpdateMoves
<1>8. pamOut' = Append(pamOut, x)
  BY <1>4
<1> HIDE DEF x, syl
<1>9. /\ IsSeq(pamOut') /\ pamOut' # << >>
      /\ Uttered(told \o pamOut') = IF Speaks(x) THEN Append(Uttered(told \o pamOut), << x.id, x.ph, x.n >>)
                                    ELSE Uttered(told \o pamOut)
  <2>1. /\ IsSeq(Append(pamOut, x)) /\ Append(pamOut, x) # << >>
        /\ Uttered(told \o Append(pamOut, x))
             = IF Speaks(x) THEN Append(Uttered(told \o pamOut), << x.id, x.ph, x.n >>)
               ELSE Uttered(told \o pamOut)
    BY <1>2, PutBehind
  <2> QED  BY <1>8, <2>1
<1>10. /\ CursorSaid(pamSent, pamCur') = IF syl.phones[pamCur.ph + 1] # PausePhone
                                         THEN Append(CursorSaid(pamSent, pamCur), said)
                                         ELSE CursorSaid(pamSent, pamCur)
       /\ CursorAt(pamSent, pamCur')
  <2>1. CursorAt(pamSent, pamCur) /\ pamCur.syll < Len(pamSent.syls)
    BY <1>2, <1>6 DEF CursorIn, TotalSylls
  <2>2. PICK then : then = pamCur'
    OBVIOUS
  <2>3. Moves(pamSent, pamCur, then)
    BY <1>7, <2>2
  <2>4. /\ CursorSaid(pamSent, then) = IF syl.phones[pamCur.ph + 1] # PausePhone
                                       THEN Append(CursorSaid(pamSent, pamCur), said)
                                       ELSE CursorSaid(pamSent, pamCur)
        /\ CursorAt(pamSent, then)
    BY <1>2, <1>6, <2>1, <2>3, PhonePast
  <2> QED  BY <2>2, <2>4
<1>11. Speaks(x) <=> syl.phones[pamCur.ph + 1] # PausePhone
  BY <1>5 DEF Speaks
<1>12. << x.id, x.ph, x.n >> = said
  BY <1>5
<1> HIDE DEF said
<1>13. \/ /\ Uttered(told \o pamOut') = Uttered(told \o pamOut)
          /\ CursorSaid(pamSent, pamCur') = CursorSaid(pamSent, pamCur)
       \/ /\ Uttered(told \o pamOut') = Append(Uttered(told \o pamOut), said)
          /\ CursorSaid(pamSent, pamCur') = Append(CursorSaid(pamSent, pamCur), said)
  <2>1. CASE Speaks(x)
    BY <1>9, <1>10, <1>11, <1>12, <2>1, Zenon
  <2>2. CASE ~Speaks(x)
    BY <1>9, <1>10, <1>11, <2>2, Zenon
  <2> QED  BY <2>1, <2>2
<1> QED  BY <1>1, <1>4, <1>7, <1>9, <1>10, <1>13, ProcessKeeps

LEMMA StepPop ==
  ASSUME PamInv, PamPop
  PROVE  PamInv'
<1>1. PICK queue \in {IF BeforeFirst THEN NextQueue ELSE pamQueue} : \E item \in {Attached(queue.cur)} :
        /\ Putting(item) /\ Leave(IF IsToPut(item) THEN "FEED" ELSE "PROCESS", "BUSY") /\ Update(queue)
  BY DEF PamPop
<1>2. /\ procState = "PROCESS" /\ ~HasToProcess /\ HasToPop
      /\ UNCHANGED << cbIn, pamIn, pamSent, pamTies, pamArea, came, told, due >>
  BY DEF PamPop, Running, ProcessOnly, NoTransfer, pamHist, taking
<1>3. /\ CursorIn /\ TotalSylls \in Nat /\ IsSeq(pamOut) /\ IsSeq(told) /\ TiesOK /\ QueueType(pamQueue)
      /\ SentOK(pamSent) /\ pamCur \in [syll : Int, ph : Nat] /\ AreaOK(pamArea)
  BY <1>2, ProcessHere
<1>4. QueueType(queue) /\ queue.last = pamQueue.last
  BY <1>2, <1>3, FirstTiedOK
<1> DEFINE item == Attached(queue.cur)
<1>5. Putting(item) /\ Leave(IF IsToPut(item) THEN "FEED" ELSE "PROCESS", "BUSY") /\ Update(queue)
  BY <1>1
<1>6. ~Speaks(item)
  BY <1>3, AttachedOK DEF Speaks
<1> HIDE DEF item
<1>7. pamCur.syll \in 0 .. TotalSylls - 1
  BY <1>2 DEF HasToPop
<1>8. pamCur.ph >= Len(pamSent.syls[pamCur.syll + 1].phones)
  <2>1. ~(pamCur.ph < Len(pamSent.syls[pamCur.syll + 1].phones))
    BY <1>2, <1>7 DEF HasToProcess, Len3, Syll
  <2>2. Len(pamSent.syls[pamCur.syll + 1].phones) \in Nat
    <3>1. HavePhones(pamSent.syls, TotalSylls) /\ pamCur.syll + 1 \in 1 .. TotalSylls
      BY <1>3, <1>7 DEF SentOK, HavePhones, TotalSylls
    <3> QED  BY <3>1, PhonesLen DEF HavePhones
  <2> QED  BY <1>3, <2>1, <2>2
<1>9. /\ pamCur' \in [syll : Int, ph : Nat] /\ QueueType(pamQueue)' /\ pamQueue'.last = pamQueue.last
      /\ Moves(pamSent, pamCur, pamCur') /\ SomeLeft'
  <2>1. pamCur.syll < TotalSylls
    BY <1>3, <1>7
  <2> QED  BY <1>2, <1>3, <1>4, <1>5, <2>1, UpdateMoves
<1>10. CursorSaid(pamSent, pamCur') = CursorSaid(pamSent, pamCur) /\ CursorAt(pamSent, pamCur')
  <2>1. CursorAt(pamSent, pamCur) /\ pamCur.syll < Len(pamSent.syls)
    BY <1>3, <1>7 DEF CursorIn, TotalSylls
  <2>2. PICK then : then = pamCur'
    OBVIOUS
  <2>3. Moves(pamSent, pamCur, then)
    BY <1>9, <2>2
  <2>4. CursorSaid(pamSent, then) = CursorSaid(pamSent, pamCur) /\ CursorAt(pamSent, then)
    BY <1>3, <1>8, <2>1, <2>3, ItemPast
  <2> QED  BY <2>2, <2>4
<1>11. /\ IsSeq(Append(pamOut, item)) /\ Append(pamOut, item) # << >>
       /\ Uttered(told \o Append(pamOut, item)) = Uttered(told \o pamOut)
  BY <1>3, <1>6, PutBehind
<1>12. \/ IsToPut(item) /\ pamOut' = Append(pamOut, item) /\ procState' = "FEED"
       \/ pamOut' = pamOut /\ procState' = "PROCESS"
  BY <1>5 DEF Putting, Leave
<1>13. /\ IsSeq(pamOut') /\ Uttered(told \o pamOut') = Uttered(told \o pamOut)
       /\ \/ procState' = "PROCESS"
          \/ procState' = "FEED" /\ pamOut' # << >>
  BY <1>3, <1>11, <1>12
<1> QED  BY <1>2, <1>9, <1>10, <1>13, ProcessKeeps

-----------------------------------------------------------------------------
(* IMMEDIATE and FEED.                                                       *)
LEMMA StepImmediate ==
  ASSUME PamInv, PamImmediate
  PROVE  PamInv'
<1>1. /\ procState = "IMMEDIATE" /\ procState' = "FEED" /\ pamOut' = Append(pamOut, Due) /\ pamIn' = << >>
      /\ UNCHANGED << cbIn, pamSent, pamCur, pamTies, pamQueue, pamArea, came, told, due >>
  BY DEF PamImmediate, Running, Leave, Consumed, NoTransfer, pamHist, taking
<1>2. Collecting /\ CollectOK /\ pamIn # << >> /\ Due.kind # "SYLL" /\ TotalSylls = 0
  <2>1. Collecting /\ CollectOK
    BY <1>1, PhaseIs DEF PamInv, Collecting
  <2> QED  BY <1>1, <2>1 DEF CollectOK, InputIn
<1>3. SaidOf = << >> /\ InSaid = << >> /\ ItemOK(Due)
  BY <1>1, <1>2, InputHere DEF SaysOf
<1>4. IsSeq(told) /\ IsSeq(pamOut)
  BY DEF PamInv, HistoryType
<1>5. IsSeq(pamOut') /\ pamOut' # << >> /\ Uttered(told \o pamOut') = Uttered(told \o pamOut)
  <2>1. ~Speaks(Due)
    BY <1>3 DEF ItemOK, Speaks
  <2>2. /\ IsSeq(Append(pamOut, Due)) /\ Append(pamOut, Due) # << >>
        /\ Uttered(told \o Append(pamOut, Due)) = Uttered(told \o pamOut)
    BY <1>4, <2>1, PutBehind
  <2> QED  BY <1>1, <2>2
<1>6. HistoryType' /\ InputType' /\ Grammar(came \o cbIn)'
  BY <1>1, <1>5 DEF PamInv, HistoryType, InputType
<1>7. CursorType' /\ SentOK(pamSent)' /\ TiesOK'
  BY <1>1 DEF PamInv, CursorType, AreaOK, TiesOK, TieRoom, TotalSylls
<1>8. PhaseOK'
  <2>1. pamCur' = Nowhere /\ TotalSylls' = 0
    BY <1>1, <1>2 DEF CollectOK, Nowhere, TotalSylls
  <2> QED  BY <1>1, <1>5, <2>1 DEF PhaseOK, FeedOK
<1>9. Balanced'
  <2>1. PICK b : Owes(b)
    BY DEF PamInv, Balanced
  <2>2. SaidOf' = SaidOf /\ InSaid' = InSaid
    BY <1>1, <1>2, <1>3 DEF SaidOf, InSaid, TotalSylls
  <2>3. Owes(b)'
    BY <1>1, <1>5, <2>1, <2>2, Zenon DEF Owes
  <2> QED  BY <2>3 DEF Balanced
<1> QED  BY <1>6, <1>7, <1>8, <1>9 DEF PamInv

\* The first of outBuf goes out: it counts as put before and after.
LEMMA FeedMoves ==
  ASSUME PamInv, PamFeed
  PROVE  /\ HistoryType' /\ InputType' /\ Grammar(came \o cbIn)' /\ InSaid' = InSaid
         /\ told' \o pamOut' = told \o pamOut /\ Len(pamOut) \in Nat /\ Len(pamOut') = Len(pamOut) - 1
<1>1. /\ told' = Append(told, Head(pamOut)) /\ pamOut' = Tail(pamOut)
      /\ UNCHANGED << cbIn, pamIn, came, due >>
  BY DEF PamFeed, Put, NoTransfer, taking
<1>2. pamOut # << >> /\ IsSeq(pamOut) /\ IsSeq(told)
  <2>1. procState = "FEED"
    BY DEF PamFeed, Running
  <2>2. FeedOK
    BY <2>1, PhaseIs DEF PamInv
  <2> QED  BY <2>2 DEF FeedOK, PamInv, HistoryType
<1>3. IsSeq(Append(told, Head(pamOut))) /\ IsSeq(Tail(pamOut)) /\ Len(Tail(pamOut)) = Len(pamOut) - 1
      /\ Len(pamOut) \in Nat
  BY <1>2, SeqAppend, SeqTail, SeqFacts
<1>4. Append(told, Head(pamOut)) \o Tail(pamOut) = told \o pamOut
  BY <1>2, FirstMoves
<1>5. HistoryType' /\ InputType' /\ Grammar(came \o cbIn)'
  BY <1>1, <1>3 DEF PamInv, HistoryType, InputType
<1>6. InSaid' = InSaid
  BY <1>1 DEF InSaid, Due
<1>7. told' \o pamOut' = told \o pamOut
  <2> DEFINE a == Append(told, Head(pamOut))
             b == Tail(pamOut)
             p == told \o pamOut
  <2>1. told' = a /\ pamOut' = b /\ a \o b = p
    BY <1>1, <1>4
  <2> HIDE DEF a, b, p
  <2>2. told' \o pamOut' = p
    BY <2>1
  <2> QED  BY <2>2 DEF p
<1> QED  BY <1>1, <1>3, <1>5, <1>6, <1>7

LEMMA StepFeed ==
  ASSUME PamInv, PamFeed
  PROVE  PamInv'
<1>1. /\ HistoryType' /\ InputType' /\ Grammar(came \o cbIn)' /\ InSaid' = InSaid
      /\ told' \o pamOut' = told \o pamOut /\ Len(pamOut) \in Nat /\ Len(pamOut') = Len(pamOut) - 1
  BY FeedMoves
<1>2. Uttered(told' \o pamOut') = Uttered(told \o pamOut)
  BY <1>1
<1>3. procState = "FEED" /\ UNCHANGED << cbIn, pamIn, pamArea, came, due >>
  BY DEF PamFeed, Running, Put, taking
<1>4. FeedOK /\ ~Collecting
  BY <1>3, PhaseIs DEF PamInv
<1>5. SentOK(pamSent) /\ TotalSylls \in Nat /\ CursorType /\ TiesOK
  BY SeqFacts DEF PamInv, SentOK, TotalSylls
<1>6. PICK b : Owes(b)
  BY DEF PamInv, Balanced
<1> DEFINE kept == UNCHANGED << pamSent, pamCur, pamQueue, pamTies >>
<1>7. ASSUME kept PROVE CursorType' /\ SentOK(pamSent)' /\ TiesOK'
  BY <1>3, <1>5, <1>7 DEF CursorType, AreaOK, TiesOK, TieRoom, TotalSylls
<1>8. ASSUME kept, ~Collecting' PROVE Balanced'
  <2>1. SaidOf' = SaidOf
    BY <1>4, <1>8 DEF SaidOf, TotalSylls
  <2>2. Owes(b)'
    BY <1>1, <1>2, <1>3, <1>6, <1>8, <2>1, Zenon DEF Owes
  <2> QED  BY <2>2 DEF Balanced
<1>9. CASE Len(pamOut) > 1 /\ procState' = procState /\ kept
  <2>1. pamOut' # << >>
    BY <1>1, <1>9, SeqEmpty
  <2>2. FeedOK'
    BY <1>4, <1>9, <2>1 DEF FeedOK, TotalSylls, CursorIn, SomeLeft, HasToProcess, HasToPop, AnyTied, Ties, Syll
  <2>3. PhaseOK' /\ ~Collecting'
    BY <1>3, <1>9, <2>2 DEF PhaseOK, Collecting
  <2> QED  BY <1>1, <1>7, <1>8, <1>9, <2>3 DEF PamInv
<1>10. CASE (HasToProcess \/ HasToPop) /\ procState' = "PROCESS" /\ kept
  <2>1. TotalSylls # 0
    BY <1>5, <1>10 DEF HasToProcess, HasToPop
  <2>2. CursorIn'
    BY <1>4, <1>10, <2>1 DEF FeedOK, CursorIn, TotalSylls
  <2>3. PhaseOK' /\ ~Collecting'
    BY <1>10, <2>2 DEF PhaseOK, Collecting
  <2> QED  BY <1>1, <1>7, <1>8, <1>10, <2>3 DEF PamInv
<1>11. CASE /\ Len(pamOut) = 1 /\ ~HasToProcess /\ ~HasToPop /\ procState' = "SCHEDULE"
            /\ pamSent' = NoSentence /\ pamCur' = Nowhere /\ pamQueue' = EmptyQueue
            /\ pamTies' = SubSeq(pamTies, 1, 1)
  <2>1. SentOK(pamSent)' /\ TotalSylls' = 0 /\ Said(pamSent') = << >>
    BY <1>11, NothingSaid DEF TotalSylls
  <2>2. pamCur' = [syll |-> TotalSylls' - 1, ph |-> 0] /\ pamCur' \in [syll : Int, ph : Nat]
    BY <1>11, <2>1 DEF Nowhere
  <2>3. QueueType(pamQueue)' /\ pamQueue'.last = 0
    BY <1>11 DEF EmptyQueue, QueueType
  <2>4. CursorType'
    BY <1>3, <1>5, <2>2, <2>3 DEF CursorType, AreaOK
  <2>5. TiesGood(pamTies', 1, 0) /\ FirstFree(pamTies', 0)
    <3> DEFINE room == TieRoom
               R == [first : Nat, last : Nat]
    <3>1. room \in Nat \ {0} /\ pamTies \in [1 .. room -> R] /\ pamTies[1].first <= pamTies[1].last
          /\ pamTies[1].first <= 1
      BY <1>5 DEF TiesOK, TieRoom, TiesGood
    <3> HIDE DEF room, R
    <3>2. \A i \in 1 .. 1 : pamTies[i] \in R
      BY <3>1
    <3> DEFINE t == SubSeq(pamTies, 1, 1)
    <3>3. t \in Seq(R) /\ Len(t) = 1 /\ \A i \in 1 .. 1 : t[i] = pamTies[i]
      BY <3>2, SubSeqProperties
    <3>4. pamTies' = t
      BY <1>11
    <3> HIDE DEF t
    <3>6. t \in [1 .. 1 -> R] /\ t[1] = pamTies[1]
      BY <3>3
    <3>5. \A n \in 1 .. 1 : n = 1
      OBVIOUS
    <3> QED  BY <3>1, <3>4, <3>5, <3>6 DEF TiesGood, FirstFree, R
  <2>6. TiesOK'
    BY <2>1, <2>3, <2>5 DEF TiesOK, TieRoom
  <2>7. PhaseOK'
    <3>1. Collecting'
      BY <1>11 DEF Collecting
    <3>2. pamOut' = << >>
      BY <1>1, <1>11, SeqEmpty DEF HistoryType
    <3>3. OpenOK' /\ InputIn'
      BY <1>11, <2>1 DEF OpenOK, InputIn
    <3> QED  BY <2>1, <2>2, <2>3, <2>5, <3>1, <3>2, <3>3 DEF PhaseOK, CollectOK
  <2>8. Balanced'
    <3>1. SaidOf' = << >>
      BY <2>1 DEF SaidOf
    <3> DEFINE all == Said(pamSent)
               put == Uttered(told \o pamOut)
               asks == Uttered(due)
               rest == InSaid
    <3>2. SaidOf = all
      <4>1. CASE TotalSylls = 0
        BY <4>1, SaidNone DEF SaidOf, TotalSylls
      <4>2. CASE TotalSylls # 0
        <5>1. CursorAt(pamSent, pamCur) /\ pamCur.syll = Len(pamSent.syls) /\ pamCur.ph = 0
          BY <1>4, <1>11, <4>2 DEF FeedOK, CursorIn, SomeLeft, CursorAt, TotalSylls
        <5>2. CursorSaid(pamSent, pamCur) = Said(pamSent)
          BY <1>5, <5>1, CursorLast
        <5> QED  BY <1>4, <4>2, <5>2 DEF SaidOf
      <4> QED  BY <4>1, <4>2
    <3>3. Balance(put, asks, b, all, all, rest)
      BY <1>6, <3>2 DEF Owes
    <3> HIDE DEF all, put, asks, rest
    <3>4. PICK c : Balance(put, asks, c, << >>, << >>, rest)
      BY <3>3, BalanceForgotten
    <3>5. Owes(c)'
      BY <1>1, <1>2, <1>3, <2>1, <3>1, <3>4, Zenon DEF Owes, put, asks, rest
    <3> QED  BY <3>5 DEF Balanced
  <2> QED  BY <1>1, <2>1, <2>4, <2>6, <2>7, <2>8 DEF PamInv
<1>12. \/ Len(pamOut) > 1 /\ procState' = procState /\ kept
       \/ (HasToProcess \/ HasToPop) /\ procState' = "PROCESS" /\ kept
       \/ /\ Len(pamOut) = 1 /\ ~HasToProcess /\ ~HasToPop /\ procState' = "SCHEDULE"
          /\ pamSent' = NoSentence /\ pamCur' = Nowhere /\ pamQueue' = EmptyQueue
          /\ pamTies' = SubSeq(pamTies, 1, 1)
  BY DEF PamFeed, Return, Leave, Forgotten
<1> QED  BY <1>9, <1>10, <1>11, <1>12

-----------------------------------------------------------------------------
(* Every step keeps the invariant.                                           *)
LEMMA StepKeeps ==
  ASSUME PamInv, IdsFit, PamStep
  PROVE  PamInv'
<1>1. ASSUME PamIdle PROVE UNCHANGED invVars
  BY <1>1 DEF PamIdle, Return, NoTransfer, pamOnly, pamHist, taking, invVars
<1>2. ASSUME PamFeedFull PROVE UNCHANGED invVars
  BY <1>2 DEF PamFeedFull, Return, NoTransfer, pamOnly, pamHist, taking, invVars
<1> QED
  BY <1>1, <1>2, StepNothing, StepCollect, StepRest, StepPlay, StepRoute, StepAttach, StepForward, StepForwardEnd,
     StepForceTerm, StepPreFeed, StepPreCommand, StepPhone, StepPop, StepImmediate, StepFeed DEF PamStep

LEMMA PamNextKeeps ==
  ASSUME PamInv, IdsFit, [PamNext]_pamVars, ~PamReset
  PROVE  PamInv'
<1>1. CASE PamStep
  BY <1>1, StepKeeps
<1>2. CASE Arrive(MayFollow(came \o cbIn)) /\ UNCHANGED pamOnly
  BY <1>2, StepArrive
<1>3. CASE (Call \/ Fetch) /\ UNCHANGED pamOnly
  <2>1. UNCHANGED invVars
    BY <1>3 DEF Call, Fetch, pamOnly, pamHist, taking, invVars
  <2> QED  BY <2>1, StepNothing
<1>4. CASE UNCHANGED pamVars
  <2>1. UNCHANGED invVars
    BY <1>4 DEF pamVars, unitVars, pamOnly, pamHist, taking, invVars
  <2> QED  BY <2>1, StepNothing
<1> QED  BY <1>1, <1>2, <1>3, <1>4 DEF PamNext

THEOREM PamInductive == PamSpec /\ []IdsFit => []PamInv
<1>1. PamInit => Blank
  BY DEF PamInit, PamBlank, UnitInit, Blank
<1>2. PamInv /\ IdsFit /\ [PamNext]_pamVars /\ ~PamReset => PamInv'
  BY PamNextKeeps
<1>3. PamReset => Blank'
  BY DEF PamReset, UnitReset, Blank
<1>4. Blank => PamInv
  BY BlankInv
<1> QED  BY <1>1, <1>2, <1>3, <1>4, PTL DEF PamSpec

LEMMA PhonesFollow == PamInv => PhonesInOrder
<1> SUFFICES ASSUME PamInv PROVE PhonesInOrder
  OBVIOUS
<1> DEFINE put == Uttered(told)
           held == Uttered(pamOut)
           both == Uttered(told \o pamOut)
           asks == Uttered(due)
           said == SaidOf
           all == Said(pamSent)
           rest == InSaid
<1>1. PICK b : Balance(both, asks, b, said, all, rest)
  BY DEF PamInv, Balanced, Owes
<1>2. IsSeq(told) /\ IsSeq(pamOut)
  BY DEF PamInv, HistoryType
<1>3. both = put \o held /\ IsSeq(put) /\ IsSeq(held)
  BY <1>2, UtteredConcat, UtteredSeq
<1>4. \E r : IsSeq(r) /\ all = said \o r
  <2>1. CASE Collecting \/ TotalSylls = 0
    <3>1. said = << >> /\ IsSeq(all)
      BY <2>1, SaidSeq DEF SaidOf, PamInv
    <3>2. all = << >> \o all
      <4> HIDE DEF all
      <4> QED  BY <3>1, SeqNothing
    <3> QED  BY <3>1, <3>2
  <2>2. CASE ~Collecting /\ TotalSylls # 0
    <3>1. SentOK(pamSent) /\ CursorAt(pamSent, pamCur)
      BY <2>2 DEF PamInv, PhaseOK, FeedOK, CursorIn
    <3>2. said = CursorSaid(pamSent, pamCur)
      BY <2>2 DEF SaidOf
    <3> QED  BY <3>1, <3>2, CursorPrefix
  <2> QED  BY <2>1, <2>2
<1>5. ASSUME pamSent.syls = << >>, pamIn = << >>, pamOut = << >> PROVE put = asks
  <2>1. TotalSylls = 0
    BY <1>5, SeqEmpty DEF TotalSylls
  <2>2. said = << >> /\ all = << >> /\ rest = << >>
    BY <1>5, <2>1, SaidNone DEF SaidOf, InSaid, TotalSylls
  <2>3. held = << >>
    BY <1>5, UtteredEmpty
  <2> HIDE DEF put, held, both, asks, said, all, rest
  <2>4. both = put
    BY <1>3, <2>3, SeqNothing
  <2>5. IsSeq(b) /\ both = b \o << >> /\ asks = (b \o << >>) \o << >>
    BY <1>1, <2>2 DEF Balance
  <2>6. b \o << >> = b
    BY <2>5, SeqNothing
  <2>7. asks = b /\ both = b
    BY <2>5, <2>6
  <2> QED  BY <2>4, <2>7
<1> HIDE DEF put, held, both, asks, said, all, rest
<1>6. IsPrefix(put, asks)
  <2>1. PICK r : IsSeq(r) /\ all = said \o r
    BY <1>4
  <2>2. PICK q : IsSeq(q) /\ asks = both \o q
    BY <1>1, <2>1, BalancePrefix
  <2> DEFINE t == held \o q
  <2>3. IsSeq(t)
    BY <1>3, <2>2, SeqConcat
  <2>4. (put \o held) \o q = put \o (held \o q)
    BY <1>3, <2>2, SeqAssoc
  <2>5. asks = put \o t
    BY <1>3, <2>2, <2>4
  <2> HIDE DEF t
  <2>6. IsPrefix(put, put \o t)
    BY <1>3, <2>3, Prefixed
  <2> QED  BY <2>5, <2>6
<1> QED  BY <1>5, <1>6 DEF PhonesInOrder, put, asks

\* Every phone that comes is put once and in order, whatever stands between the
\* phones, wherever a sentence that does not fit is ended by force, and also when
\* the queue has no room for the items that came with it; and no phone stays behind;
\* as long as the numbers of the items tied to a sentence do not wrap (picopam.c:1101).
THEOREM PamPhonesInOrder == PamSpec /\ []IdsFit => []PhonesInOrder
BY PamInductive, PhonesFollow, PTL
=============================================================================
