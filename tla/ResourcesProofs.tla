-------------------------- MODULE ResourcesProofs ---------------------------
(***************************************************************************)
(* Proofs about Resources, for any number of resources, definitions and    *)
(* voices, any names and any limits up to 127 resources per voice: lock    *)
(* counts are exact and the running engine's resources stay loaded.  The   *)
(* two need each other: a resource is unloaded only at lock count zero, so *)
(* exact counts keep the voice from dangling; and a newly loaded resource  *)
(* may start at zero only because no voice still refers to its address.    *)
(* The linked lists stay sound, a name finds one resource or definition,   *)
(* and nothing changes the voice of an engine that runs.                   *)
(***************************************************************************)
EXTENDS Resources, FiniteSetTheorems, TLAPS

\* A definition names no more resources than fit, so neither does a voice.
Bounded ==
  /\ \A d \in Vdef : Len(vdefRsrcs[d]) <= MaxPerVoice
  /\ Len(InUse) <= MaxPerVoice

\* The application's handles are those of loaded resources.
HandlesLoaded == handles \subseteq Loaded

Inv == TypeOK /\ Bounded /\ HandlesLoaded /\ NoDanglingVoice /\ LocksAreUsers

-----------------------------------------------------------------------------
(* The int8 lock count does not wrap within its range.                      *)
LEMMA I8Range ==
  ASSUME NEW n \in Int
  PROVE  /\ I8(n) \in -128 .. 127
         /\ n \in -128 .. 127 => I8(n) = n
BY DEF I8

(* How often r occurs in s, and whether it does.                            *)
LEMMA CountFacts ==
  ASSUME NEW S, NEW s \in Seq(S), NEW r
  PROVE  /\ Count(r, s) \in Nat
         /\ Count(r, s) <= Len(s)
         /\ Count(r, s) = 0 <=> r \notin Range(s)
<1> DEFINE P == {i \in DOMAIN s : s[i] = r}
<1>1. IsFiniteSet(1 .. Len(s)) /\ Cardinality(1 .. Len(s)) = Len(s)
  <2>1. Len(s) \in Nat /\ Len(s) - 1 + 1 = Len(s)
    OBVIOUS
  <2> QED BY <2>1, FS_Interval, 0 \in Int, 1 \in Int
<1>2. P \subseteq 1 .. Len(s)
  OBVIOUS
<1>3. IsFiniteSet(P) /\ Cardinality(P) <= Len(s)
  BY <1>1, <1>2, FS_Subset
<1>4. Cardinality(P) \in Nat
  BY <1>3, FS_CardinalityType
<1>5. Cardinality(P) = 0 <=> P = {}
  BY <1>3, FS_EmptySet
<1>6. P = {} <=> r \notin Range(s)
  BY DEF Range
<1> QED BY <1>3, <1>4, <1>5, <1>6 DEF Count

(* What a search finds is in the list.                                      *)
LEMMA FindInList ==
  ASSUME NEW S, NEW list \in Seq(S), NEW names, NEW n, Find(list, names, n) # None
  PROVE  Find(list, names, n) \in Range(list)
BY DEF Find, Range

(* Removing the node of x from a list keeps all others and adds none.       *)
LEMMA UnlinkFacts ==
  ASSUME NEW S, NEW list \in Seq(S), NEW x \in Range(list)
  PROVE  /\ Unlink(list, x) \in Seq(S)
         /\ Range(Unlink(list, x)) \subseteq Range(list)
         /\ \A y \in Range(list) : y # x => y \in Range(Unlink(list, x))
<1> DEFINE k == CHOOSE i \in DOMAIN list : list[i] = x
           new == Skip(list, k)
<1>1. k \in DOMAIN list /\ list[k] = x
  BY DEF Range
<1>2. Len(list) \in Nat /\ DOMAIN list = 1 .. Len(list) /\ Len(list) >= 1
  BY <1>1
<1> HIDE DEF k
<1>3. /\ new = [j \in 1 .. Len(list) - 1 |-> IF j < k THEN list[j] ELSE list[j + 1]]
      /\ DOMAIN new = 1 .. Len(list) - 1
  BY DEF Skip
<1> HIDE DEF new
<1>4. \A j \in 1 .. Len(list) - 1 : j \in DOMAIN list /\ j + 1 \in DOMAIN list
  BY <1>2
<1>5. \A j \in 1 .. Len(list) - 1 : new[j] \in Range(list) /\ new[j] \in S
  <2> TAKE j \in 1 .. Len(list) - 1
  <2>1. list[j] \in S /\ list[j + 1] \in S
    BY <1>4
  <2> QED BY <1>3, <1>4, <2>1 DEF Range
<1>6. new \in Seq(S)
  <2>1. new \in [1 .. Len(list) - 1 -> S] /\ Len(list) - 1 \in Nat
    BY <1>2, <1>3, <1>5
  <2> QED BY <2>1
<1>7. Range(new) \subseteq Range(list)
  BY <1>3, <1>5 DEF Range
<1>8. ASSUME NEW y \in Range(list), y # x PROVE y \in Range(new)
  <2>1. PICK i \in DOMAIN list : list[i] = y
    BY DEF Range
  <2>2. i # k
    BY <2>1, <1>8, <1>1
  <2>3. CASE i < k
    <3>1. i \in 1 .. Len(list) - 1
      BY <2>3, <1>1, <1>2
    <3>2. new[i] = y
      BY <3>1, <2>3, <2>1, <1>3
    <3> QED BY <3>1, <3>2, <1>3 DEF Range
  <2>4. CASE i > k
    <3>1. i - 1 \in 1 .. Len(list) - 1 /\ ~(i - 1 < k) /\ i - 1 + 1 = i
      BY <2>4, <1>1, <1>2
    <3>2. new[i - 1] = y
      BY <3>1, <2>1, <1>3
    <3> QED BY <3>1, <3>2, <1>3 DEF Range
  <2> QED BY <2>2, <2>3, <2>4, <1>1, <1>2
<1>9. new = Unlink(list, x)
  BY DEF new, k, Unlink
<1> QED BY <1>6, <1>7, <1>8, <1>9

(* A node added at the head of a list.                                      *)
LEMMA PushFacts ==
  ASSUME NEW S, NEW list \in Seq(S), NEW x \in S
  PROVE  /\ << x >> \o list \in Seq(S)
         /\ Range(<< x >> \o list) = Range(list) \cup {x}
<1>1. << x >> \o list \in Seq(S)
  OBVIOUS
<1>2. Len(<< x >> \o list) = Len(list) + 1
  OBVIOUS
<1>3. (<< x >> \o list)[1] = x /\ \A i \in 1 .. Len(list) : (<< x >> \o list)[i + 1] = list[i]
  OBVIOUS
<1> DEFINE new == << x >> \o list
<1> HIDE DEF new
<1>4. DOMAIN new = 1 .. Len(list) + 1
  BY <1>1, <1>2 DEF new
<1>5. \A i \in DOMAIN new : new[i] \in Range(list) \cup {x}
  <2> TAKE i \in DOMAIN new
  <2>1. i = 1 \/ i - 1 \in 1 .. Len(list)
    BY <1>4
  <2>2. ASSUME i - 1 \in 1 .. Len(list) PROVE new[i] \in Range(list)
    <3>1. new[(i - 1) + 1] = list[i - 1]
      BY <2>2, <1>3 DEF new
    <3>2. (i - 1) + 1 = i
      BY <1>4
    <3>3. list[i - 1] \in Range(list)
      BY <2>2 DEF Range
    <3> QED BY <3>1, <3>2, <3>3
  <2> QED BY <2>1, <2>2, <1>3 DEF new
<1>6. \A i \in 1 .. Len(list) : i + 1 \in DOMAIN new /\ new[i + 1] = list[i]
  BY <1>3, <1>4 DEF new
<1>7. 1 \in DOMAIN new /\ new[1] = x
  BY <1>3, <1>4 DEF new
<1>8. Range(new) = Range(list) \cup {x}
  BY <1>5, <1>6, <1>7 DEF Range
<1> QED BY <1>1, <1>8 DEF new

(* What a voice of definition d refers to, and how often.                   *)
LEMMA VoiceFacts ==
  ASSUME Inv, NEW d, d \in Vdef, CanCreateVoice(d)
  PROVE  /\ VoiceOf(d) \in Seq(Rsrc)
         /\ Len(VoiceOf(d)) <= MaxPerVoice
         /\ Range(VoiceOf(d)) \subseteq Loaded
<1>1. vdefRsrcs[d] \in Seq(RName) /\ Len(vdefRsrcs[d]) \in Nat
  BY DEF Inv, TypeOK
<1>2. resources \in Seq(Rsrc)
  BY DEF Inv, TypeOK
<1>3. \A i \in 1 .. Len(vdefRsrcs[d]) :
        Find(resources, name, vdefRsrcs[d][i]) \in Range(resources)
  BY <1>1, <1>2, FindInList DEF CanCreateVoice, IsLoaded
<1>4. Range(resources) \subseteq Rsrc
  BY <1>2 DEF Range
<1>5. VoiceOf(d) \in [1 .. Len(vdefRsrcs[d]) -> Rsrc]
  BY <1>3, <1>4 DEF VoiceOf
<1>6. VoiceOf(d) \in Seq(Rsrc) /\ Len(VoiceOf(d)) = Len(vdefRsrcs[d])
  BY <1>1, <1>5
<1>7. Range(VoiceOf(d)) \subseteq Loaded
  BY <1>3 DEF VoiceOf, Range, Loaded
<1> QED BY <1>6, <1>7 DEF Inv, Bounded

(* Counting up and down by c, as often as a voice can refer to a resource.  *)
LEMMA CountUpAndDown ==
  ASSUME NEW c \in Nat, NEW n \in Nat, c <= n, n <= MaxPerVoice, NEW l \in -128 .. 127
  PROVE  /\ I8(l + c) \in -128 .. 127 /\ I8(l - c) \in -128 .. 127
         /\ l = 0 => I8(l + c) = c
         /\ l = c => I8(l - c) = 0
<1>1. c \in 0 .. 127
  BY LimitsAssumption
<1>2. l + c \in Int /\ l - c \in Int
  OBVIOUS
<1>3. I8(l + c) \in -128 .. 127 /\ I8(l - c) \in -128 .. 127
  BY <1>2, I8Range
<1>4. l = 0 => I8(l + c) = c
  BY <1>1 DEF I8
<1>5. l = c => I8(l - c) = 0
  BY <1>1 DEF I8
<1> QED BY <1>3, <1>4, <1>5

(* Locking the resources of a voice, and unlocking them again.              *)
LEMMA LockFacts ==
  ASSUME NEW lc \in [Rsrc -> -128 .. 127], NEW s \in Seq(Rsrc), Len(s) <= MaxPerVoice
  PROVE  /\ Locked(lc, s) \in [Rsrc -> -128 .. 127]
         /\ Unlocked(lc, s) \in [Rsrc -> -128 .. 127]
         /\ \A r \in Rsrc : lc[r] = 0 =>
              /\ Locked(lc, s)[r] = Count(r, s)
              /\ Unlocked(Locked(lc, s), s)[r] = 0
         /\ \A r \in Rsrc : lc[r] = Count(r, s) => Unlocked(lc, s)[r] = 0
<1>1. \A r \in Rsrc : Count(r, s) \in Nat /\ Count(r, s) <= Len(s) /\ Len(s) \in Nat
  BY CountFacts
<1>2. \A r \in Rsrc : /\ I8(lc[r] + Count(r, s)) \in -128 .. 127
                      /\ I8(lc[r] - Count(r, s)) \in -128 .. 127
  BY <1>1, CountUpAndDown
<1>3. \A r \in Rsrc : lc[r] = 0 => I8(lc[r] + Count(r, s)) = Count(r, s)
  BY <1>1, CountUpAndDown
<1>4. \A r \in Rsrc : lc[r] = Count(r, s) => I8(lc[r] - Count(r, s)) = 0
  BY <1>1, CountUpAndDown
<1>5. /\ Locked(lc, s) \in [Rsrc -> -128 .. 127]
      /\ Unlocked(lc, s) \in [Rsrc -> -128 .. 127]
  BY <1>2 DEF Locked, Unlocked
<1>6. \A r \in Rsrc : lc[r] = 0 => Locked(lc, s)[r] = Count(r, s)
  BY <1>3 DEF Locked
<1>7. \A r \in Rsrc : lc[r] = 0 => Unlocked(Locked(lc, s), s)[r] = 0
  <2> TAKE r \in Rsrc
  <2> HAVE lc[r] = 0
  <2>1. Locked(lc, s)[r] = Count(r, s) /\ Locked(lc, s)[r] \in -128 .. 127
    BY <1>5, <1>6
  <2> DEFINE l == Locked(lc, s)[r]
             c == Count(r, s)
  <2>2. c \in Nat /\ c <= Len(s) /\ Len(s) \in Nat /\ l = c /\ l \in -128 .. 127
    BY <1>1, <2>1
  <2> HIDE DEF l, c
  <2>3. l - c = 0
    BY <2>2
  <2>4. I8(0) = 0
    BY DEF I8
  <2> QED BY <2>3, <2>4 DEF Unlocked, l, c
<1>8. \A r \in Rsrc : lc[r] = Count(r, s) => Unlocked(lc, s)[r] = 0
  BY <1>4 DEF Unlocked
<1> QED BY <1>5, <1>6, <1>7, <1>8

(* A resource that no voice refers to counts zero.                          *)
LEMMA EmptyCount ==
  ASSUME NEW r
  PROVE  Count(r, << >>) = 0
<1>1. {i \in DOMAIN << >> : << >>[i] = r} = {}
  OBVIOUS
<1> QED BY <1>1, FS_EmptySet DEF Count

-----------------------------------------------------------------------------
(* The type invariant, call by call.                                        *)
LEMMA InitTypes == Init => TypeOK
<1> SUFFICES ASSUME NEW b \in BOOLEAN, NEW d \in Rsrc, InitWith(b, d) PROVE TypeOK
  BY DEF Init
<1>1. resources \in Seq(Rsrc) /\ numResources \in Int
  BY DEF InitWith
<1>2. name \in [Rsrc -> RName \cup {None}]
  BY NamesAssumption DEF InitWith
<1>3. lockCount \in [Rsrc -> -128 .. 127]
  BY DEF InitWith
<1>4. /\ vdefs \in Seq(Vdef) /\ freeVdefs \in Seq(Vdef) /\ numVdefs \in Int
      /\ vdefRsrcs \in [Vdef -> Seq(RName)] /\ voiceRsrcs \in [Voice -> Seq(Rsrc)]
      /\ freeVoices \in Seq(Voice) /\ numVoices \in Int
  BY DEF InitWith
<1> QED BY <1>1, <1>2, <1>3, <1>4 DEF InitWith, TypeOK

LEMMA LoadTypes ==
  ASSUME Inv, NEW n, LoadResource(n)
  PROVE  TypeOK'
<1>1. CASE LoadRefused
  BY <1>1 DEF LoadResource, LoadRefused, Inv, TypeOK, rsrcVars, vdefVars, voiceVars
<1>2. CASE LoadDropped(n)
  BY <1>2 DEF LoadResource, LoadDropped, Inv, TypeOK, vdefVars, voiceVars
<1>3. ASSUME NEW r \in Rsrc, LoadDone(n, r) PROVE TypeOK'
  <2>1. resources' \in Seq(Rsrc)
    BY <1>3, PushFacts DEF LoadDone, Inv, TypeOK
  <2>2. numResources' \in Int
    BY <1>3 DEF LoadDone, Inv, TypeOK
  <2>3. lockCount' \in [Rsrc -> -128 .. 127]
    BY <1>3 DEF LoadDone, Inv, TypeOK
  <2> QED BY <1>3, <2>1, <2>2, <2>3 DEF LoadDone, Inv, TypeOK, vdefVars
<1> QED BY <1>1, <1>2, <1>3 DEF LoadResource

LEMMA UnloadTypes ==
  ASSUME Inv, NEW r \in Rsrc, UnloadResource(r)
  PROVE  TypeOK'
<1>1. CASE UnloadRefused(r)
  BY <1>1 DEF UnloadRefused, UnloadResource, Inv, TypeOK, rsrcVars, vdefVars, voiceVars
<1>2. CASE UnloadDone(r)
  <2>1. r \in Range(resources)
    BY DEF UnloadResource, Inv, HandlesLoaded, Loaded
  <2>2. resources' \in Seq(Rsrc)
    BY <1>2, <2>1, UnlinkFacts DEF UnloadDone, Inv, TypeOK
  <2>3. numResources' \in Int
    BY <1>2 DEF UnloadDone, Inv, TypeOK
  <2> QED BY <1>2, <2>2, <2>3
             DEF UnloadDone, UnloadResource, Inv, TypeOK, vdefVars, voiceVars
<1> QED BY <1>1, <1>2 DEF UnloadResource

LEMMA AddTypes ==
  ASSUME Inv, NEW vn, NEW rn \in RName \cup LongRName, AddResource(vn, rn)
  PROVE  TypeOK'
<1> DEFINE d == Find(vdefs, vdefName, vn)
<1>1. /\ UNCHANGED << up, rsrcVars, voiceVars >>
      /\ UNCHANGED << vdefs, freeVdefs, numVdefs, vdefName, lostVdefs >>
  BY DEF AddResource
<1>2. vdefRsrcs' \in [Vdef -> Seq(RName)]
  <2>1. EntryFor(rn) \in RName
    BY NamesAssumption DEF EntryFor
  <2>2. \A e \in Vdef : Append(vdefRsrcs[e], EntryFor(rn)) \in Seq(RName)
    BY <2>1 DEF Inv, TypeOK
  <2>3. vdefRsrcs' = vdefRsrcs \/ vdefRsrcs' = [vdefRsrcs EXCEPT ![d] = Append(@, EntryFor(rn))]
    BY DEF AddResource
  <2>4. vdefRsrcs \in [Vdef -> Seq(RName)]
    BY DEF Inv, TypeOK
  <2> DEFINE t == EntryFor(rn)
  <2> HIDE DEF d, t
  <2>5. ASSUME vdefRsrcs' = [vdefRsrcs EXCEPT ![d] = Append(@, t)]
        PROVE  vdefRsrcs' \in [Vdef -> Seq(RName)]
    <3>1. vdefRsrcs' = [e \in Vdef |-> IF e = d THEN Append(vdefRsrcs[e], t) ELSE vdefRsrcs[e]]
      BY <2>4, <2>5
    <3> QED BY <3>1, <2>2, <2>4 DEF t
  <2> QED BY <2>3, <2>4, <2>5 DEF t
<1>3. mapped' \in [Vdef -> SUBSET RName]
  <2>1. mapped' = mapped \/ (rn \in RName /\ mapped' = [mapped EXCEPT ![d] = @ \cup {rn}])
    BY DEF AddResource
  <2>2. mapped \in [Vdef -> SUBSET RName]
    BY DEF Inv, TypeOK
  <2> HIDE DEF d
  <2>3. ASSUME rn \in RName, mapped' = [mapped EXCEPT ![d] = @ \cup {rn}]
        PROVE  mapped' \in [Vdef -> SUBSET RName]
    <3>1. mapped' = [e \in Vdef |-> IF e = d THEN mapped[e] \cup {rn} ELSE mapped[e]]
      BY <2>2, <2>3
    <3> QED BY <3>1, <2>2, <2>3
  <2> QED BY <2>1, <2>2, <2>3
<1> HIDE DEF d
<1> QED BY <1>1, <1>2, <1>3 DEF Inv, TypeOK, rsrcVars, voiceVars

LEMMA CreateTypes ==
  ASSUME Inv, NEW vn \in VName \cup LongVName, CreateVoiceDefinition(vn)
  PROVE  TypeOK'
<1>1. CASE CreateVdefRefused(vn)
  BY <1>1 DEF CreateVoiceDefinition, CreateVdefRefused, Inv, TypeOK,
              rsrcVars, vdefVars, voiceVars
<1>2. ASSUME NEW d \in Vdef, CreateVdefDone(vn, d) PROVE TypeOK'
  <2>1. freeVdefs' \in Seq(Vdef)
    <3>1. freeVdefs \in Seq(Vdef)
      BY DEF Inv, TypeOK
    <3>2. freeVdefs' = freeVdefs \/ (freeVdefs # << >> /\ freeVdefs' = Tail(freeVdefs))
      BY <1>2 DEF CreateVdefDone, TakeVdef
    <3> QED BY <3>1, <3>2
  <2>2. vdefs' \in Seq(Vdef)
    <3>1. vdefs \in Seq(Vdef)
      BY DEF Inv, TypeOK
    <3>2. vdefs' = vdefs \/ vdefs' = << d >> \o vdefs
      BY <1>2 DEF CreateVdefDone
    <3> QED BY <3>1, <3>2, PushFacts
  <2>3. numVdefs' \in Int
    BY <1>2 DEF CreateVdefDone, Inv, TypeOK
  <2>4. vdefRsrcs' \in [Vdef -> Seq(RName)]
    <3>1. << DefaultName >> \in Seq(RName)
      BY NamesAssumption
    <3>2. vdefRsrcs \in [Vdef -> Seq(RName)]
      BY DEF Inv, TypeOK
    <3>3. \/ vdefRsrcs' = vdefRsrcs
          \/ vdefRsrcs' = [vdefRsrcs EXCEPT ![d] = << DefaultName >>]
      BY <1>2 DEF CreateVdefDone
    <3> QED BY <3>1, <3>2, <3>3
  <2>5. mapped' \in [Vdef -> SUBSET RName]
    <3>1. mapped \in [Vdef -> SUBSET RName]
      BY DEF Inv, TypeOK
    <3>2. mapped' = mapped \/ mapped' = [mapped EXCEPT ![d] = {DefaultName}]
      BY <1>2 DEF CreateVdefDone
    <3>3. {DefaultName} \in SUBSET RName
      BY NamesAssumption
    <3> QED BY <3>1, <3>2, <3>3
  <2>6. vdefName' \in [Vdef -> VName \cup {None}] /\ lostVdefs' \subseteq Vdef
    <3>1. vdefName \in [Vdef -> VName \cup {None}] /\ lostVdefs \subseteq Vdef
      BY DEF Inv, TypeOK
    <3>2. \/ vdefName' = vdefName /\ lostVdefs' = lostVdefs \cup {d}
          \/ /\ vn \in VName /\ vdefName' = [vdefName EXCEPT ![d] = vn]
             /\ lostVdefs' = lostVdefs
      BY <1>2 DEF CreateVdefDone
    <3> QED BY <3>1, <3>2
  <2> QED BY <2>1, <2>2, <2>3, <2>4, <2>5, <2>6
             DEF CreateVoiceDefinition, Inv, TypeOK, rsrcVars, voiceVars
<1> QED BY <1>1, <1>2 DEF CreateVoiceDefinition

LEMMA ReleaseTypes ==
  ASSUME Inv, NEW vn, ReleaseVoiceDefinition(vn)
  PROVE  TypeOK'
<1> DEFINE d == Find(vdefs, vdefName, vn)
<1>1. CASE UNCHANGED vdefVars
  BY <1>1 DEF ReleaseVoiceDefinition, Inv, TypeOK, rsrcVars, vdefVars, voiceVars
<1>2. CASE /\ d # None
           /\ vdefs' = Unlink(vdefs, d) /\ freeVdefs' = << d >> \o freeVdefs
           /\ numVdefs' = numVdefs - 1
           /\ vdefName' = [vdefName EXCEPT ![d] = None]
           /\ vdefRsrcs' = [vdefRsrcs EXCEPT ![d] = << >>]
           /\ mapped' = [mapped EXCEPT ![d] = {}]
           /\ UNCHANGED lostVdefs
  <2>1. d \in Range(vdefs)
    BY <1>2, FindInList DEF Inv, TypeOK
  <2>2. d \in Vdef
    BY <2>1 DEF Range, Inv, TypeOK
  <2> HIDE DEF d
  <2>3. vdefs' \in Seq(Vdef)
    BY <1>2, <2>1, UnlinkFacts DEF Inv, TypeOK
  <2>4. freeVdefs' \in Seq(Vdef)
    BY <1>2, <2>2, PushFacts DEF Inv, TypeOK
  <2>5. numVdefs' \in Int
    BY <1>2 DEF Inv, TypeOK
  <2>6. vdefRsrcs' \in [Vdef -> Seq(RName)] /\ mapped' \in [Vdef -> SUBSET RName]
    <3>1. << >> \in Seq(RName)
      OBVIOUS
    <3> QED BY <3>1, <1>2 DEF Inv, TypeOK
  <2>7. vdefName' \in [Vdef -> VName \cup {None}]
    BY <1>2 DEF Inv, TypeOK
  <2> QED BY <1>2, <2>3, <2>4, <2>5, <2>6, <2>7
             DEF ReleaseVoiceDefinition, Inv, TypeOK, rsrcVars, voiceVars
<1> QED BY <1>1, <1>2 DEF ReleaseVoiceDefinition

(* Voices come and go.                                                      *)
LEMMA NewEngineTypes ==
  ASSUME Inv, NEW vn, NewEngine(vn)
  PROVE  TypeOK'
<1> DEFINE d == Find(vdefs, vdefName, vn)
<1>1. /\ UNCHANGED << up, rsrcVars, vdefVars >>
      /\ NewEngineRefused(d) \/ \E v \in Voice : NewEngineUndone(d, v) \/ NewEngineDone(d, v)
  BY DEF NewEngine
<1>2. CanCreateVoice(d) => d \in Vdef
  <2>1. d # None => d \in Range(vdefs)
    BY FindInList DEF Inv, TypeOK
  <2>2. Range(vdefs) \subseteq Vdef
    BY DEF Range, Inv, TypeOK
  <2> QED BY <2>1, <2>2 DEF CanCreateVoice
<1> HIDE DEF d
<1>3. CASE NewEngineRefused(d)
  BY <1>1, <1>3 DEF NewEngineRefused, Inv, TypeOK, rsrcVars, vdefVars, voiceVars
<1>4. ASSUME NEW v \in Voice, NewEngineUndone(d, v) PROVE TypeOK'
  <2>1. lockCount' \in [Rsrc -> -128 .. 127]
    <3>1. VoiceOf(d) \in Seq(Rsrc) /\ Len(VoiceOf(d)) <= MaxPerVoice
      BY <1>2, <1>4, VoiceFacts DEF NewEngineUndone
    <3>2. lockCount \in [Rsrc -> -128 .. 127]
      BY DEF Inv, TypeOK
    <3>3. Locked(lockCount, VoiceOf(d)) \in [Rsrc -> -128 .. 127]
      BY <3>1, <3>2, LockFacts
    <3> QED BY <1>4, <3>1, <3>3, LockFacts DEF NewEngineUndone
  <2>2. freeVoices' \in Seq(Voice)
    <3>1. VoicesLeft \in Seq(Voice)
      BY DEF VoicesLeft, Inv, TypeOK
    <3> QED BY <3>1, <1>4, PushFacts DEF NewEngineUndone
  <2> QED BY <1>1, <1>4, <2>1, <2>2 DEF NewEngineUndone, Inv, TypeOK, rsrcVars, vdefVars
<1>5. ASSUME NEW v \in Voice, NewEngineDone(d, v) PROVE TypeOK'
  <2>1. VoiceOf(d) \in Seq(Rsrc) /\ Len(VoiceOf(d)) <= MaxPerVoice
    BY <1>2, <1>5, VoiceFacts DEF NewEngineDone
  <2>2. lockCount' \in [Rsrc -> -128 .. 127]
    <3>1. lockCount \in [Rsrc -> -128 .. 127]
      BY DEF Inv, TypeOK
    <3> QED BY <1>5, <2>1, <3>1, LockFacts DEF NewEngineDone
  <2>3. freeVoices' \in Seq(Voice)
    BY <1>5 DEF NewEngineDone, VoicesLeft, Inv, TypeOK
  <2>4. voiceRsrcs' \in [Voice -> Seq(Rsrc)] /\ engine' \in Voice /\ numVoices' \in Int
    BY <1>5, <2>1 DEF NewEngineDone, Inv, TypeOK
  <2> QED BY <1>1, <2>2, <2>3, <2>4 DEF Inv, TypeOK, rsrcVars, vdefVars
<1> QED BY <1>1, <1>3, <1>4, <1>5

LEMMA VoiceReleased ==
  ASSUME Inv, engine # None, ReleaseVoice
  PROVE  /\ lockCount' \in [Rsrc -> -128 .. 127]
         /\ freeVoices' \in Seq(Voice) /\ numVoices' \in Int
         /\ voiceRsrcs' \in [Voice -> Seq(Rsrc)] /\ engine' = None
<1>1. engine \in Voice
  BY DEF Inv, TypeOK
<1>2. voiceRsrcs[engine] \in Seq(Rsrc) /\ Len(voiceRsrcs[engine]) <= MaxPerVoice
  BY <1>1 DEF Inv, TypeOK, Bounded, InUse
<1>3. lockCount' \in [Rsrc -> -128 .. 127]
  <2>1. lockCount \in [Rsrc -> -128 .. 127]
    BY DEF Inv, TypeOK
  <2> QED BY <1>2, <2>1, LockFacts DEF ReleaseVoice
<1>4. freeVoices' \in Seq(Voice)
  BY <1>1, PushFacts DEF ReleaseVoice, Inv, TypeOK
<1>5. voiceRsrcs' \in [Voice -> Seq(Rsrc)]
  <2>1. << >> \in Seq(Rsrc) /\ voiceRsrcs \in [Voice -> Seq(Rsrc)]
    BY DEF Inv, TypeOK
  <2>2. voiceRsrcs' = [voiceRsrcs EXCEPT ![engine] = << >>]
    BY DEF ReleaseVoice
  <2> QED BY <2>1, <2>2
<1> QED BY <1>3, <1>4, <1>5 DEF ReleaseVoice, Inv, TypeOK

-----------------------------------------------------------------------------
(* The rest of the invariant, call by call.  Calls that leave voices and    *)
(* resources alone keep it trivially.                                       *)
Rest == Bounded /\ HandlesLoaded /\ NoDanglingVoice /\ LocksAreUsers

LEMMA LoadedTyped ==
  ASSUME Inv
  PROVE  lockCount \in [Rsrc -> -128 .. 127] /\ Loaded \subseteq Rsrc
<1>1. lockCount \in [Rsrc -> -128 .. 127] /\ resources \in Seq(Rsrc)
  BY DEF Inv, TypeOK
<1>2. \A i \in DOMAIN resources : resources[i] \in Rsrc
  BY <1>1
<1>3. Loaded \subseteq Rsrc
  BY <1>2 DEF Loaded, Range
<1> QED BY <1>1, <1>3

LEMMA ApartFromVoices ==
  ASSUME Inv, UNCHANGED << resources, handles, voiceVars, up >>,
         \A d \in Vdef : Len(vdefRsrcs'[d]) <= MaxPerVoice
  PROVE  Rest'
BY DEF Inv, Rest, Bounded, HandlesLoaded, NoDanglingVoice, LocksAreUsers, InUse, Loaded,
       voiceVars

LEMMA InitRest == Init => Rest
<1> SUFFICES ASSUME NEW b \in BOOLEAN, NEW d \in Rsrc, InitWith(b, d) PROVE Rest
  BY DEF Init
<1>1. InUse = << >>
  BY DEF InitWith, InUse
<1>2. \A r \in Loaded : lockCount[r] = 0
  BY DEF InitWith, Loaded, Range
<1>3. LocksAreUsers /\ NoDanglingVoice
  BY <1>1, <1>2, EmptyCount DEF LocksAreUsers, NoDanglingVoice, Range
<1>4. Bounded /\ HandlesLoaded
  BY <1>1, LimitsAssumption DEF Bounded, HandlesLoaded, InitWith
<1> QED BY <1>3, <1>4 DEF Rest

LEMMA LoadRest ==
  ASSUME Inv, NEW n, LoadResource(n)
  PROVE  Rest'
<1>1. CASE LoadRefused \/ LoadDropped(n)
  <2>1. UNCHANGED << resources, handles, voiceVars, up, vdefRsrcs >>
    BY <1>1 DEF LoadRefused, LoadDropped, rsrcVars, vdefVars
  <2> QED BY <2>1, ApartFromVoices DEF Inv, Bounded
<1>2. ASSUME NEW r \in Rsrc, LoadDone(n, r) PROVE Rest'
  <2>1. /\ InUse' = InUse /\ vdefRsrcs' = vdefRsrcs /\ up' = up
        /\ lockCount' = [lockCount EXCEPT ![r] = 0] /\ handles' = handles \cup {r}
        /\ r \notin Loaded
    BY <1>2 DEF LoadDone, InUse, vdefVars
  <2>2. Loaded' = Loaded \cup {r}
    BY <1>2, PushFacts DEF LoadDone, Loaded, Inv, TypeOK
  <2>3. Bounded' /\ HandlesLoaded' /\ NoDanglingVoice'
    BY <2>1, <2>2 DEF Inv, Bounded, HandlesLoaded, NoDanglingVoice
  <2>4. InUse \in Seq(Rsrc)
    <3>1. << >> \in Seq(Rsrc)
      OBVIOUS
    <3> QED BY <3>1 DEF InUse, Inv, TypeOK
  <2>5. Count(r, InUse) = 0
    <3>1. r \notin Range(InUse)
      BY <2>1 DEF Inv, NoDanglingVoice
    <3>2. Count(r, InUse) = 0 <=> r \notin Range(InUse)
      BY <2>4, CountFacts
    <3> QED BY <3>1, <3>2
  <2>6. LocksAreUsers'
    <3>1. lockCount \in [Rsrc -> -128 .. 127] /\ Loaded \subseteq Rsrc
      BY LoadedTyped
    <3>2. up => \A q \in Loaded : lockCount[q] = Count(q, InUse)
      BY DEF Inv, LocksAreUsers
    <3>3. up' => \A q \in Loaded' : lockCount'[q] = Count(q, InUse')
      BY <2>1, <2>2, <2>5, <3>1, <3>2
    <3> QED BY <3>3 DEF LocksAreUsers
  <2> QED BY <2>3, <2>6 DEF Rest
<1> QED BY <1>1, <1>2 DEF LoadResource

(* A resource is unloaded only at lock count zero: the voice has none of it. *)
LEMMA UnloadRest ==
  ASSUME Inv, NEW r \in Rsrc, UnloadResource(r)
  PROVE  Rest'
<1>1. CASE UnloadRefused(r)
  <2>1. UNCHANGED << resources, handles, voiceVars, up, vdefRsrcs >>
    BY <1>1 DEF UnloadRefused, UnloadResource, rsrcVars, vdefVars
  <2> QED BY <2>1, ApartFromVoices DEF Inv, Bounded
<1>2. CASE UnloadDone(r) /\ ~Busy(r)
  <2>1. /\ r \in Loaded /\ InUse' = InUse /\ up /\ up' /\ lockCount' = lockCount
        /\ vdefRsrcs' = vdefRsrcs
    BY DEF UnloadResource, Inv, HandlesLoaded, InUse, vdefVars, voiceVars
  <2>2. Loaded' \subseteq Loaded /\ \A q \in Loaded : q # r => q \in Loaded'
    BY <1>2, <2>1, UnlinkFacts DEF UnloadDone, Loaded, Inv, TypeOK
  <2>3. r \notin Range(InUse)
    <3>1. InUse \in Seq(Rsrc)
      <4>1. << >> \in Seq(Rsrc)
        OBVIOUS
      <4> QED BY <4>1 DEF InUse, Inv, TypeOK
    <3> DEFINE c == Count(r, InUse)
    <3>2. c \in Nat /\ (c = 0 <=> r \notin Range(InUse))
      BY <3>1, CountFacts
    <3>3. c <= 0
      <4>1. c = lockCount[r] /\ lockCount[r] \in -128 .. 127
        BY <2>1, LoadedTyped DEF Inv, LocksAreUsers
      <4> QED BY <4>1, <1>2 DEF Busy
    <3> HIDE DEF c
    <3>4. c = 0
      BY <3>2, <3>3
    <3> QED BY <3>2, <3>4
  <2>4. NoDanglingVoice'
    BY <2>1, <2>2, <2>3 DEF Inv, NoDanglingVoice
  <2>5. Bounded' /\ HandlesLoaded' /\ LocksAreUsers'
    BY <1>2, <2>1, <2>2 DEF UnloadDone, Inv, Bounded, HandlesLoaded, LocksAreUsers
  <2> QED BY <2>4, <2>5 DEF Rest
<1> QED BY <1>1, <1>2 DEF UnloadResource

LEMMA AddRest ==
  ASSUME Inv, NEW vn, NEW rn \in RName \cup LongRName, AddResource(vn, rn)
  PROVE  Rest'
<1> DEFINE d == Find(vdefs, vdefName, vn)
           t == EntryFor(rn)
<1>1. UNCHANGED << resources, handles, voiceVars, up >>
  BY DEF AddResource, rsrcVars
<1>2. vdefRsrcs \in [Vdef -> Seq(RName)] /\ \A e \in Vdef : Len(vdefRsrcs[e]) <= MaxPerVoice
  BY DEF Inv, TypeOK, Bounded
<1>3. \/ vdefRsrcs' = vdefRsrcs
      \/ Len(vdefRsrcs[d]) < MaxPerVoice /\ vdefRsrcs' = [vdefRsrcs EXCEPT ![d] = Append(@, t)]
  BY DEF AddResource
<1> HIDE DEF d, t
<1>4. ASSUME Len(vdefRsrcs[d]) < MaxPerVoice,
             vdefRsrcs' = [vdefRsrcs EXCEPT ![d] = Append(@, t)], NEW e \in Vdef
      PROVE  Len(vdefRsrcs'[e]) <= MaxPerVoice
  <2>1. CASE e = d
    <3>1. vdefRsrcs[e] \in Seq(RName) /\ vdefRsrcs'[e] = Append(vdefRsrcs[e], t)
      BY <1>2, <1>4, <2>1
    <3>2. Len(vdefRsrcs'[e]) = Len(vdefRsrcs[e]) + 1 /\ Len(vdefRsrcs[e]) \in Nat
      BY <3>1
    <3> QED BY <3>2, <1>4, <2>1, LimitsAssumption
  <2>2. CASE e # d
    BY <1>2, <1>4, <2>2
  <2> QED BY <2>1, <2>2
<1> QED BY <1>1, <1>2, <1>3, <1>4, ApartFromVoices

LEMMA CreateRest ==
  ASSUME Inv, NEW vn, CreateVoiceDefinition(vn)
  PROVE  Rest'
<1>1. UNCHANGED << resources, handles, voiceVars, up >>
  BY DEF CreateVoiceDefinition, rsrcVars
<1>2. vdefRsrcs \in [Vdef -> Seq(RName)] /\ \A e \in Vdef : Len(vdefRsrcs[e]) <= MaxPerVoice
  BY DEF Inv, TypeOK, Bounded
<1>3. \/ vdefRsrcs' = vdefRsrcs
      \/ \E d \in Vdef : vdefRsrcs' = [vdefRsrcs EXCEPT ![d] = << DefaultName >>]
  BY DEF CreateVoiceDefinition, CreateVdefRefused, CreateVdefDone, vdefVars
<1>4. Len(<< DefaultName >>) = 1 /\ 1 <= MaxPerVoice
  BY LimitsAssumption
<1>5. \A e \in Vdef : Len(vdefRsrcs'[e]) <= MaxPerVoice
  <2>1. ASSUME NEW d \in Vdef, vdefRsrcs' = [vdefRsrcs EXCEPT ![d] = << DefaultName >>],
               NEW e \in Vdef
        PROVE  Len(vdefRsrcs'[e]) <= MaxPerVoice
    <3>1. vdefRsrcs'[e] = << DefaultName >> \/ vdefRsrcs'[e] = vdefRsrcs[e]
      BY <1>2, <2>1
    <3> QED BY <3>1, <1>2, <1>4
  <2> QED BY <1>2, <1>3, <2>1
<1> QED BY <1>1, <1>5, ApartFromVoices

LEMMA ReleaseRest ==
  ASSUME Inv, NEW vn, ReleaseVoiceDefinition(vn)
  PROVE  Rest'
<1> DEFINE d == Find(vdefs, vdefName, vn)
<1>1. UNCHANGED << resources, handles, voiceVars, up >>
  BY DEF ReleaseVoiceDefinition, rsrcVars
<1>2. vdefRsrcs \in [Vdef -> Seq(RName)] /\ \A e \in Vdef : Len(vdefRsrcs[e]) <= MaxPerVoice
  BY DEF Inv, TypeOK, Bounded
<1>3. vdefRsrcs' = vdefRsrcs \/ vdefRsrcs' = [vdefRsrcs EXCEPT ![d] = << >>]
  BY DEF ReleaseVoiceDefinition, vdefVars
<1> HIDE DEF d
<1>4. Len(<< >>) = 0 /\ 0 <= MaxPerVoice
  BY LimitsAssumption
<1>5. ASSUME NEW e \in Vdef PROVE Len(vdefRsrcs'[e]) <= MaxPerVoice
  <2>1. vdefRsrcs'[e] = << >> \/ vdefRsrcs'[e] = vdefRsrcs[e]
    BY <1>2, <1>3
  <2> QED BY <2>1, <1>2, <1>4
<1> QED BY <1>1, <1>5, ApartFromVoices

(* A new engine counts each of its resources from zero, and on failure      *)
(* counts them down to zero again.                                          *)
LEMMA NewEngineRest ==
  ASSUME Inv, NEW vn, NewEngine(vn)
  PROVE  Rest'
<1> DEFINE d == Find(vdefs, vdefName, vn)
<1>1. /\ UNCHANGED << up, resources, handles, vdefRsrcs >>
      /\ NewEngineRefused(d) \/ \E v \in Voice : NewEngineUndone(d, v) \/ NewEngineDone(d, v)
      /\ up
  BY DEF NewEngine, rsrcVars, vdefVars
<1>2. CanCreateVoice(d) => d \in Vdef
  <2>1. d # None => d \in Range(vdefs)
    BY FindInList DEF Inv, TypeOK
  <2>2. Range(vdefs) \subseteq Vdef
    BY DEF Range, Inv, TypeOK
  <2> QED BY <2>1, <2>2 DEF CanCreateVoice
<1> HIDE DEF d
<1>3. CASE NewEngineRefused(d)
  BY <1>1, <1>3, ApartFromVoices DEF NewEngineRefused, Inv, Bounded
<1>4. /\ lockCount \in [Rsrc -> -128 .. 127] /\ Loaded \subseteq Rsrc
      /\ engine = None => \A r \in Loaded : lockCount[r] = 0
  <2>1. lockCount \in [Rsrc -> -128 .. 127] /\ Loaded \subseteq Rsrc
    BY LoadedTyped
  <2> QED BY <1>1, <2>1, EmptyCount DEF Inv, LocksAreUsers, InUse
<1>5. ASSUME NEW v \in Voice, NewEngineUndone(d, v) PROVE Rest'
  <2>1. /\ VoiceOf(d) \in Seq(Rsrc) /\ Len(VoiceOf(d)) <= MaxPerVoice
        /\ engine = None /\ InUse' = InUse /\ InUse = << >>
        /\ lockCount' = Unlocked(Locked(lockCount, VoiceOf(d)), VoiceOf(d))
    BY <1>2, <1>5, VoiceFacts DEF NewEngineUndone, InUse
  <2>2. \A r \in Loaded : lockCount'[r] = 0
    BY <1>4, <2>1, LockFacts
  <2>3. LocksAreUsers'
    BY <1>1, <2>1, <2>2, EmptyCount DEF LocksAreUsers, Loaded
  <2> QED BY <1>1, <2>1, <2>3 DEF Inv, Rest, Bounded, HandlesLoaded, NoDanglingVoice, Loaded
<1>6. ASSUME NEW v \in Voice, NewEngineDone(d, v) PROVE Rest'
  <2>1. /\ VoiceOf(d) \in Seq(Rsrc) /\ Len(VoiceOf(d)) <= MaxPerVoice
        /\ Range(VoiceOf(d)) \subseteq Loaded
        /\ engine = None /\ lockCount' = Locked(lockCount, VoiceOf(d))
    BY <1>2, <1>6, VoiceFacts DEF NewEngineDone
  <2>2. InUse' = VoiceOf(d)
    <3>1. engine' = v /\ v # None /\ voiceRsrcs' = [voiceRsrcs EXCEPT ![v] = VoiceOf(d)]
      BY <1>6, NoneAssumption DEF NewEngineDone
    <3> QED BY <3>1 DEF InUse, Inv, TypeOK
  <2>3. \A r \in Loaded : lockCount'[r] = Count(r, VoiceOf(d))
    BY <1>4, <2>1, LockFacts
  <2>4. LocksAreUsers'
    BY <1>1, <2>2, <2>3 DEF LocksAreUsers, Loaded
  <2>5. NoDanglingVoice'
    BY <1>1, <2>1, <2>2 DEF NoDanglingVoice, Loaded
  <2> QED BY <1>1, <2>1, <2>2, <2>4, <2>5 DEF Inv, Rest, Bounded, HandlesLoaded, Loaded
<1> QED BY <1>1, <1>3, <1>5, <1>6

LEMMA VoiceGone ==
  ASSUME Inv, engine # None, ReleaseVoice,
         UNCHANGED << resources, vdefRsrcs >>, handles' \subseteq handles, up
  PROVE  Rest'
<1>1. engine \in Voice /\ InUse = voiceRsrcs[engine] /\ InUse \in Seq(Rsrc) /\ InUse' = << >>
  BY DEF ReleaseVoice, Inv, TypeOK, InUse
<1>2. \A r \in Loaded : lockCount'[r] = 0
  <2>1. lockCount \in [Rsrc -> -128 .. 127] /\ Loaded \subseteq Rsrc
    BY LoadedTyped
  <2>2. Len(InUse) <= MaxPerVoice /\ lockCount' = Unlocked(lockCount, InUse)
    BY <1>1 DEF Inv, Bounded, ReleaseVoice
  <2>3. \A r \in Loaded : lockCount[r] = Count(r, InUse)
    BY DEF Inv, LocksAreUsers
  <2> QED BY <1>1, <2>1, <2>2, <2>3, LockFacts
<1>3. LocksAreUsers'
  BY <1>1, <1>2, EmptyCount DEF LocksAreUsers, Loaded
<1>4. NoDanglingVoice' /\ HandlesLoaded'
  BY <1>1 DEF NoDanglingVoice, Range, HandlesLoaded, Inv, Loaded
<1>5. Bounded'
  <2>1. Len(<< >>) = 0 /\ 0 <= MaxPerVoice
    BY LimitsAssumption
  <2> QED BY <1>1, <2>1 DEF Bounded, Inv
<1> QED BY <1>3, <1>4, <1>5 DEF Rest

-----------------------------------------------------------------------------
LEMMA DisposeKeeps == Inv /\ DisposeEngine => TypeOK' /\ Rest'
<1> SUFFICES ASSUME Inv, DisposeEngine PROVE TypeOK' /\ Rest'
  OBVIOUS
<1>1. ReleaseVoice /\ engine # None /\ up /\ UNCHANGED << up, rsrcVars, vdefVars >>
  BY DEF DisposeEngine
<1>2. TypeOK'
  BY <1>1, VoiceReleased DEF Inv, TypeOK, rsrcVars, vdefVars
<1>3. Rest'
  BY <1>1, VoiceGone DEF rsrcVars, vdefVars
<1> QED BY <1>2, <1>3

LEMMA TerminateKeeps == Inv /\ Terminate => TypeOK' /\ Rest'
<1> SUFFICES ASSUME Inv, Terminate PROVE TypeOK' /\ Rest'
  OBVIOUS
<1>1. /\ IF engine # None THEN ReleaseVoice ELSE UNCHANGED voiceVars
      /\ up /\ ~up' /\ up' \in BOOLEAN /\ handles' = {}
      /\ UNCHANGED << resources, numResources, name, openFiles, orphanFile, vdefVars >>
  BY DEF Terminate
<1>2. CASE engine # None
  <2>1. TypeOK'
    BY <1>1, <1>2, VoiceReleased DEF Inv, TypeOK, vdefVars
  <2>2. Rest'
    BY <1>1, <1>2, VoiceGone DEF vdefVars
  <2> QED BY <2>1, <2>2
<1>3. CASE engine = None
  <2>1. TypeOK'
    BY <1>1, <1>3 DEF Inv, TypeOK, vdefVars, voiceVars
  <2>2. Rest'
    BY <1>1, <1>3 DEF Inv, Rest, Bounded, HandlesLoaded, NoDanglingVoice, LocksAreUsers,
                      InUse, Loaded, voiceVars, vdefVars
  <2> QED BY <2>1, <2>2
<1> QED BY <1>2, <1>3

LEMMA NextKeeps == Inv /\ [Next]_rmVars => Inv'
<1> SUFFICES ASSUME Inv, [Next]_rmVars PROVE TypeOK' /\ Rest'
  BY DEF Inv, Rest
<1>1. ASSUME NEW n \in RName \cup LongRName, LoadResource(n) PROVE TypeOK' /\ Rest'
  BY <1>1, LoadTypes, LoadRest
<1>2. ASSUME NEW r \in Rsrc, UnloadResource(r) PROVE TypeOK' /\ Rest'
  BY <1>2, UnloadTypes, UnloadRest
<1>3. ASSUME NEW vn \in VName \cup LongVName, CreateVoiceDefinition(vn)
      PROVE  TypeOK' /\ Rest'
  BY <1>3, CreateTypes, CreateRest
<1>4. ASSUME NEW vn \in VName, NEW rn \in RName \cup LongRName, AddResource(vn, rn)
      PROVE  TypeOK' /\ Rest'
  BY <1>4, AddTypes, AddRest
<1>5. ASSUME NEW vn \in VName, ReleaseVoiceDefinition(vn) PROVE TypeOK' /\ Rest'
  BY <1>5, ReleaseTypes, ReleaseRest
<1>6. ASSUME NEW vn \in VName, NewEngine(vn) PROVE TypeOK' /\ Rest'
  BY <1>6, NewEngineTypes, NewEngineRest
<1>7. CASE UNCHANGED rmVars
  <2>1. TypeOK'
    BY <1>7 DEF Inv, TypeOK, rmVars, rsrcVars, vdefVars, voiceVars
  <2>2. UNCHANGED << resources, handles, voiceVars, up, vdefRsrcs >>
    BY <1>7 DEF rmVars, rsrcVars, vdefVars
  <2>3. Rest'
    BY <2>2, ApartFromVoices DEF Inv, Bounded
  <2> QED BY <2>1, <2>3
<1> QED BY <1>1, <1>2, <1>3, <1>4, <1>5, <1>6, <1>7, DisposeKeeps, TerminateKeeps DEF Next

LEMMA Invariance == Spec => []Inv
<1>1. Init => Inv
  BY InitTypes, InitRest DEF Inv, Rest
<1> QED BY <1>1, NextKeeps, PTL DEF Spec

(* Every call leaves the manager's state well typed: in particular a lock   *)
(* count stays within its signed byte.                                      *)
THEOREM ManagerTypes == Spec => []TypeOK
<1>1. Inv => TypeOK
  BY DEF Inv
<1> QED BY <1>1, Invariance, PTL

(* Whatever is loaded, unloaded, mapped, created or refused in whatever     *)
(* order, the running engine refers to loaded resources only.               *)
THEOREM VoiceNeverDangles == Spec => []NoDanglingVoice
<1>1. Inv => NoDanglingVoice
  BY DEF Inv
<1> QED BY <1>1, Invariance, PTL

(* lockCount counts the entries of the running engine's voice, also after a *)
(* newEngine that failed halfway.                                           *)
THEOREM LocksExact == Spec => []LocksAreUsers
<1>1. Inv => LocksAreUsers
  BY DEF Inv
<1> QED BY <1>1, Invariance, PTL

-----------------------------------------------------------------------------
(* The lists themselves.  ListsSound speaks of vdefs \o freeVdefs; what a   *)
(* call keeps is that both lists are without repetition and have no node in *)
(* common.                                                                  *)
ResourceList == IsInjective(resources) /\ numResources = Len(resources)

VdefLists ==
  /\ IsInjective(vdefs) /\ IsInjective(freeVdefs) /\ numVdefs = Len(vdefs)
  /\ Range(vdefs) \cap Range(freeVdefs) = {}
  /\ (Range(vdefs) \cup Range(freeVdefs)) \cap lostVdefs = {}

VoiceList ==
  /\ IsInjective(freeVoices) /\ engine \notin Range(freeVoices)
  /\ numVoices = IF engine = None THEN 0 ELSE 1

Lists == ResourceList /\ VdefLists /\ VoiceList /\ NamesUnique

LEMMA EmptyList == IsInjective(<< >>) /\ Range(<< >>) = {} /\ Len(<< >>) = 0
BY DEF IsInjective, Range

(* A new node at the head.                                                  *)
LEMMA PushInjective ==
  ASSUME NEW S, NEW list \in Seq(S), NEW x \in S, IsInjective(list), x \notin Range(list)
  PROVE  IsInjective(<< x >> \o list) /\ Len(<< x >> \o list) = Len(list) + 1
<1> DEFINE new == << x >> \o list
<1>1. Len(new) = Len(list) + 1 /\ DOMAIN new = 1 .. Len(list) + 1 /\ Len(list) \in Nat
  OBVIOUS
<1>2. new[1] = x /\ \A i \in 1 .. Len(list) : new[i + 1] = list[i]
  OBVIOUS
<1> HIDE DEF new
<1>3. \A i \in DOMAIN new : i # 1 => i - 1 \in 1 .. Len(list) /\ new[i] = list[i - 1]
  <2> SUFFICES ASSUME NEW i \in DOMAIN new, i # 1
               PROVE  i - 1 \in 1 .. Len(list) /\ new[i] = list[i - 1]
    OBVIOUS
  <2>1. i - 1 \in 1 .. Len(list) /\ (i - 1) + 1 = i
    BY <1>1
  <2> QED BY <2>1, <1>2
<1>4. \A i \in 1 .. Len(list) : list[i] # x
  BY DEF Range
<1>5. ASSUME NEW i \in DOMAIN new, NEW j \in DOMAIN new, new[i] = new[j] PROVE i = j
  <2>1. CASE i = 1 \/ j = 1
    BY <2>1, <1>2, <1>3, <1>4, <1>5
  <2>2. CASE i # 1 /\ j # 1
    <3>1. i - 1 \in DOMAIN list /\ j - 1 \in DOMAIN list /\ list[i - 1] = list[j - 1]
      BY <2>2, <1>3, <1>5
    <3>2. i - 1 = j - 1
      BY <3>1 DEF IsInjective
    <3> QED BY <3>2, <1>1
  <2> QED BY <2>1, <2>2
<1>6. IsInjective(new)
  BY <1>5 DEF IsInjective
<1> QED BY <1>1, <1>6 DEF new

(* A list without its head.                                                 *)
LEMMA TailInjective ==
  ASSUME NEW S, NEW list \in Seq(S), list # << >>, IsInjective(list)
  PROVE  /\ Tail(list) \in Seq(S) /\ IsInjective(Tail(list))
         /\ Head(list) \in Range(list) /\ Head(list) \notin Range(Tail(list))
         /\ Range(Tail(list)) \subseteq Range(list)
<1> DEFINE t == Tail(list)
<1>1. t \in Seq(S) /\ DOMAIN t = 1 .. Len(list) - 1 /\ Len(list) \in Nat /\ Len(list) >= 1
  OBVIOUS
<1>2. \A i \in 1 .. Len(list) - 1 : t[i] = list[i + 1]
  OBVIOUS
<1>3. Head(list) = list[1] /\ 1 \in DOMAIN list
  BY <1>1
<1> HIDE DEF t
<1>4. \A i \in DOMAIN t : i + 1 \in DOMAIN list /\ t[i] = list[i + 1] /\ i + 1 # 1
  BY <1>1, <1>2
<1>5. \A i, j \in DOMAIN t : t[i] = t[j] => i = j
  <2> SUFFICES ASSUME NEW i \in DOMAIN t, NEW j \in DOMAIN t, t[i] = t[j] PROVE i = j
    OBVIOUS
  <2>1. i + 1 = j + 1
    BY <1>4 DEF IsInjective
  <2> QED BY <2>1, <1>1
<1>6. \A i \in DOMAIN t : t[i] # list[1]
  BY <1>3, <1>4 DEF IsInjective
<1>7. Range(t) \subseteq Range(list) /\ list[1] \notin Range(t) /\ list[1] \in Range(list)
  BY <1>3, <1>4, <1>6 DEF Range
<1> QED BY <1>1, <1>3, <1>5, <1>7 DEF IsInjective, t

(* A list without the node of x.                                            *)
LEMMA UnlinkInjective ==
  ASSUME NEW S, NEW list \in Seq(S), NEW x \in Range(list), IsInjective(list)
  PROVE  /\ IsInjective(Unlink(list, x)) /\ x \notin Range(Unlink(list, x))
         /\ Len(Unlink(list, x)) = Len(list) - 1
<1> DEFINE k == CHOOSE i \in DOMAIN list : list[i] = x
           new == Skip(list, k)
           At(j) == IF j < k THEN j ELSE j + 1
<1>1. k \in DOMAIN list /\ list[k] = x
  BY DEF Range
<1>2. Len(list) \in Nat /\ DOMAIN list = 1 .. Len(list) /\ Len(list) >= 1
  BY <1>1
<1> HIDE DEF k
<1>3. new = [j \in 1 .. Len(list) - 1 |-> IF j < k THEN list[j] ELSE list[j + 1]]
  BY DEF Skip
<1>4. DOMAIN new = 1 .. Len(list) - 1 /\ \A j \in 1 .. Len(list) - 1 : new[j] = list[At(j)]
  BY <1>3
<1>4a. DOMAIN new = 1 .. Len(list) - 1
  BY <1>4
<1> HIDE DEF new
<1>5. \A j \in 1 .. Len(list) - 1 : At(j) \in DOMAIN list /\ At(j) # k
  BY <1>1, <1>2
<1>6. \A i, j \in 1 .. Len(list) - 1 : At(i) = At(j) => i = j
  BY <1>1, <1>2
<1> HIDE DEF At
<1>7. \A i, j \in DOMAIN new : new[i] = new[j] => i = j
  BY <1>4, <1>5, <1>6 DEF IsInjective
<1>8. \A j \in DOMAIN new : new[j] # x
  BY <1>1, <1>4, <1>5 DEF IsInjective
<1>9. Len(new) = Len(list) - 1
  <2>1. Unlink(list, x) \in Seq(S) /\ new = Unlink(list, x)
    BY UnlinkFacts DEF Unlink, new, k
  <2>2. DOMAIN new = 1 .. Len(new) /\ Len(new) \in Nat
    BY <2>1
  <2> DEFINE a == Len(new)
             b == Len(list) - 1
  <2>3. a \in Nat /\ b \in Nat /\ 1 .. a = 1 .. b
    <3>1. b \in Nat
      BY <1>2
    <3>2. a \in Nat /\ DOMAIN new = 1 .. a
      BY <2>2
    <3> QED BY <3>1, <3>2, <1>4a
  <2> HIDE DEF a, b
  <2>4. a = b
    <3>1. a \in 1 .. a \/ a = 0
      BY <2>3
    <3>2. b \in 1 .. b \/ b = 0
      BY <2>3
    <3>3. a <= b /\ b <= a
      BY <2>3, <3>1, <3>2
    <3> QED BY <2>3, <3>3
  <2> QED BY <2>4 DEF a, b
<1> QED BY <1>7, <1>8, <1>9 DEF IsInjective, Range, Unlink, new, k

(* Two lists in a row.                                                      *)
LEMMA TwoLists ==
  ASSUME NEW S, NEW s \in Seq(S), NEW t \in Seq(S),
         IsInjective(s), IsInjective(t), Range(s) \cap Range(t) = {}
  PROVE  IsInjective(s \o t) /\ Range(s \o t) = Range(s) \cup Range(t)
<1> DEFINE st == s \o t
           m == Len(s)
           n == Len(t)
<1>1. m \in Nat /\ n \in Nat /\ DOMAIN s = 1 .. m /\ DOMAIN t = 1 .. n /\ DOMAIN st = 1 .. m + n
  OBVIOUS
<1>2. /\ \A i \in 1 .. m : st[i] = s[i]
      /\ \A i \in 1 .. n : st[m + i] = t[i]
  OBVIOUS
<1> HIDE DEF st, m, n
<1>3. \A i \in 1 .. m + n : i > m => i - m \in 1 .. n /\ st[i] = t[i - m]
  <2> SUFFICES ASSUME NEW i \in 1 .. m + n, i > m PROVE i - m \in 1 .. n /\ st[i] = t[i - m]
    OBVIOUS
  <2>1. i - m \in 1 .. n /\ m + (i - m) = i
    BY <1>1
  <2> QED BY <2>1, <1>2
<1>4. \A i \in 1 .. m, j \in 1 .. n : s[i] # t[j]
  BY <1>1 DEF Range
<1>5. ASSUME NEW i \in 1 .. m + n, NEW j \in 1 .. m + n, st[i] = st[j] PROVE i = j
  <2>1. CASE i \in 1 .. m /\ j \in 1 .. m
    BY <2>1, <1>1, <1>2, <1>5 DEF IsInjective
  <2>2. CASE i > m /\ j > m
    <3>1. i - m = j - m
      BY <2>2, <1>1, <1>3, <1>5 DEF IsInjective
    <3> QED BY <3>1, <1>1
  <2>3. CASE (i \in 1 .. m /\ j > m) \/ (j \in 1 .. m /\ i > m)
    BY <2>3, <1>2, <1>3, <1>4, <1>5
  <2> QED BY <2>1, <2>2, <2>3, <1>1
<1>6. \A i \in 1 .. m : i \in 1 .. m + n
  BY <1>1
<1>7. \A i \in 1 .. n : m + i \in 1 .. m + n
  BY <1>1
<1>8. \A i \in 1 .. m + n : i \in 1 .. m \/ i > m
  BY <1>1
<1>9. Range(st) = Range(s) \cup Range(t)
  BY <1>1, <1>2, <1>3, <1>6, <1>7, <1>8 DEF Range
<1> QED BY <1>1, <1>5, <1>9 DEF IsInjective, st

(* A search that finds nothing: no node has that name.                      *)
LEMMA NotFound ==
  ASSUME NEW S, NEW list \in Seq(S), None \notin S, NEW names, NEW n,
         Find(list, names, n) = None
  PROVE  \A i \in DOMAIN list : names[list[i]] # n
<1> SUFFICES ASSUME NEW i \in DOMAIN list, names[list[i]] = n PROVE FALSE
  OBVIOUS
<1> DEFINE k == CHOOSE j \in DOMAIN list : names[list[j]] = n
<1>1. k \in DOMAIN list
  OBVIOUS
<1>2. list[k] \in S
  BY <1>1
<1>3. Find(list, names, n) = list[k]
  BY DEF Find
<1> QED BY <1>2, <1>3

(* Names stay unique when a node with a new name is added, and when a node  *)
(* is removed whose name is then forgotten.                                 *)
Distinct(list, names) ==
  \A i, j \in DOMAIN list : names[list[i]] = names[list[j]] => i = j

LEMMA DistinctByNode ==
  ASSUME NEW S, NEW list \in Seq(S), NEW names, IsInjective(list)
  PROVE  Distinct(list, names) <=>
           \A x, y \in Range(list) : names[x] = names[y] => x = y
BY DEF Distinct, Range, IsInjective

LEMMA DistinctPush ==
  ASSUME NEW S, NEW list \in Seq(S), NEW names, IsInjective(list), Distinct(list, names),
         NEW x \in S, x \notin Range(list), NEW n, \A i \in DOMAIN list : names[list[i]] # n,
         NEW T, names \in [S -> T]
  PROVE  Distinct(<< x >> \o list, [names EXCEPT ![x] = n])
<1> DEFINE new == << x >> \o list
           nn == [names EXCEPT ![x] = n]
<1>1. new \in Seq(S) /\ IsInjective(new) /\ Range(new) = Range(list) \cup {x}
  BY PushFacts, PushInjective
<1>2. Range(list) \subseteq S
  BY DEF Range
<1>3. nn[x] = n /\ \A y \in Range(list) : nn[y] = names[y] /\ names[y] # n
  BY <1>2 DEF Range
<1>4. \A y, z \in Range(list) : names[y] = names[z] => y = z
  BY DistinctByNode
<1> HIDE DEF new, nn
<1>5. \A y, z \in Range(new) : nn[y] = nn[z] => y = z
  BY <1>1, <1>3, <1>4
<1> QED BY <1>1, <1>5, DistinctByNode DEF new, nn

LEMMA DistinctUnlink ==
  ASSUME NEW S, NEW list \in Seq(S), NEW names, IsInjective(list), Distinct(list, names),
         NEW x \in Range(list), NEW n, NEW T, names \in [S -> T]
  PROVE  Distinct(Unlink(list, x), [names EXCEPT ![x] = n])
<1> DEFINE new == Unlink(list, x)
           nn == [names EXCEPT ![x] = n]
<1>1. new \in Seq(S) /\ IsInjective(new) /\ Range(new) \subseteq Range(list) /\ x \notin Range(new)
  BY UnlinkFacts, UnlinkInjective
<1>2. Range(list) \subseteq S
  BY DEF Range
<1>3. \A y \in Range(new) : nn[y] = names[y]
  BY <1>1, <1>2
<1>4. \A y, z \in Range(list) : names[y] = names[z] => y = z
  BY DistinctByNode
<1> HIDE DEF new, nn
<1>5. \A y, z \in Range(new) : nn[y] = nn[z] => y = z
  BY <1>1, <1>3, <1>4
<1> QED BY <1>1, <1>5, DistinctByNode DEF new, nn

-----------------------------------------------------------------------------
(* The lists, call by call.                                                 *)
LEMMA ListTypes ==
  ASSUME TypeOK
  PROVE  /\ resources \in Seq(Rsrc) /\ Loaded \subseteq Rsrc
         /\ vdefs \in Seq(Vdef) /\ Range(vdefs) \subseteq Vdef
         /\ freeVdefs \in Seq(Vdef) /\ Range(freeVdefs) \subseteq Vdef
         /\ freeVoices \in Seq(Voice) /\ Range(freeVoices) \subseteq Voice
         /\ name \in [Rsrc -> RName \cup {None}] /\ vdefName \in [Vdef -> VName \cup {None}]
         /\ None \notin Rsrc /\ None \notin Vdef /\ None \notin Voice
BY NoneAssumption DEF TypeOK, Loaded, Range

LEMMA NamesByList ==
  NamesUnique <=> Distinct(resources, name) /\ Distinct(vdefs, vdefName)
BY DEF NamesUnique, Distinct

LEMMA InitLists == Init => Lists
<1> SUFFICES ASSUME NEW b \in BOOLEAN, NEW d \in Rsrc, InitWith(b, d) PROVE Lists
  BY DEF Init
<1>1. resources = << >> \/ resources = << d >>
  BY DEF InitWith
<1>2. IsInjective(<< d >>) /\ \A i, j \in DOMAIN << d >> : i = j
  BY DEF IsInjective
<1>3. ResourceList
  BY <1>1, <1>2, EmptyList DEF InitWith, ResourceList
<1>4. VdefLists
  BY EmptyList DEF InitWith, VdefLists
<1>5. VoiceList
  BY EmptyList DEF InitWith, VoiceList
<1>6. NamesUnique
  BY <1>1, <1>2 DEF InitWith, NamesUnique
<1> QED BY <1>3, <1>4, <1>5, <1>6 DEF Lists

LEMMA LoadLists ==
  ASSUME Inv, Lists, NEW n, LoadResource(n)
  PROVE  Lists'
<1>1. CASE LoadRefused \/ LoadDropped(n)
  BY <1>1 DEF LoadRefused, LoadDropped, Lists, ResourceList, VdefLists, VoiceList, NamesUnique,
              rsrcVars, vdefVars, voiceVars
<1>2. ASSUME NEW r \in Rsrc, LoadDone(n, r) PROVE Lists'
  <2>1. /\ resources' = << r >> \o resources /\ numResources' = numResources + 1
        /\ name' = [name EXCEPT ![r] = n] /\ r \notin Range(resources)
        /\ Find(resources, name, n) = None
        /\ UNCHANGED << vdefVars, freeVoices, numVoices, engine >>
    BY <1>2 DEF LoadDone, Loaded, IsLoaded
  <2>2. /\ resources \in Seq(Rsrc) /\ name \in [Rsrc -> RName \cup {None}] /\ None \notin Rsrc
    BY ListTypes DEF Inv
  <2>3. ResourceList'
    BY <2>1, <2>2, PushInjective DEF Lists, ResourceList
  <2>4. VdefLists' /\ VoiceList'
    BY <2>1 DEF Lists, VdefLists, VoiceList, vdefVars
  <2>5. Distinct(resources, name) /\ Distinct(vdefs, vdefName) /\ IsInjective(resources)
    BY NamesByList DEF Lists, ResourceList
  <2>6. \A i \in DOMAIN resources : name[resources[i]] # n
    BY <2>1, <2>2, NotFound
  <2>7. Distinct(<< r >> \o resources, [name EXCEPT ![r] = n])
    BY <2>1, <2>2, <2>5, <2>6, DistinctPush
  <2>8. NamesUnique'
    BY <2>1, <2>5, <2>7 DEF NamesUnique, Distinct, vdefVars
  <2> QED BY <2>3, <2>4, <2>8 DEF Lists
<1> QED BY <1>1, <1>2 DEF LoadResource

LEMMA UnloadLists ==
  ASSUME Inv, Lists, NEW r \in Rsrc, UnloadResource(r)
  PROVE  Lists'
<1>1. CASE UnloadRefused(r)
  BY <1>1 DEF UnloadRefused, UnloadResource, Lists, ResourceList, VdefLists, VoiceList,
              NamesUnique, rsrcVars, vdefVars, voiceVars
<1>2. CASE UnloadDone(r)
  <2>1. /\ resources' = Unlink(resources, r) /\ numResources' = numResources - 1
        /\ name' = [name EXCEPT ![r] = None] /\ r \in Range(resources)
        /\ UNCHANGED << vdefVars, freeVoices, numVoices, engine >>
    BY <1>2 DEF UnloadDone, UnloadResource, Inv, HandlesLoaded, Loaded, voiceVars
  <2>2. resources \in Seq(Rsrc) /\ name \in [Rsrc -> RName \cup {None}]
    BY ListTypes DEF Inv
  <2>3. ResourceList'
    BY <2>1, <2>2, UnlinkInjective DEF Lists, ResourceList
  <2>4. VdefLists' /\ VoiceList'
    BY <2>1 DEF Lists, VdefLists, VoiceList, vdefVars
  <2>5. Distinct(resources, name) /\ Distinct(vdefs, vdefName) /\ IsInjective(resources)
    BY NamesByList DEF Lists, ResourceList
  <2>6. Distinct(Unlink(resources, r), [name EXCEPT ![r] = None])
    BY <2>1, <2>2, <2>5, DistinctUnlink
  <2>7. NamesUnique'
    BY <2>1, <2>5, <2>6 DEF NamesUnique, Distinct, vdefVars
  <2> QED BY <2>3, <2>4, <2>7 DEF Lists
<1> QED BY <1>1, <1>2 DEF UnloadResource

(* A definition's node: it comes from the head of the free list, or it is   *)
(* new, and goes to the list or is lost.                                    *)
LEMMA CreateLists ==
  ASSUME Inv, Lists, NEW vn, CreateVoiceDefinition(vn)
  PROVE  Lists'
<1>1. CASE CreateVdefRefused(vn)
  BY <1>1 DEF CreateVoiceDefinition, CreateVdefRefused, Lists, ResourceList, VdefLists,
              VoiceList, NamesUnique, rsrcVars, vdefVars, voiceVars
<1>2. ASSUME NEW d \in Vdef, CreateVdefDone(vn, d) PROVE Lists'
  <2>1. ResourceList' /\ VoiceList'
    BY DEF CreateVoiceDefinition, Lists, ResourceList, VoiceList, rsrcVars, voiceVars
  <2>2. /\ vdefs \in Seq(Vdef) /\ freeVdefs \in Seq(Vdef) /\ None \notin Vdef
        /\ vdefName \in [Vdef -> VName \cup {None}]
    BY ListTypes DEF Inv
  <2>3. VdefLists /\ Distinct(resources, name) /\ Distinct(vdefs, vdefName)
    BY NamesByList DEF Lists
  <2>4. /\ IsInjective(freeVdefs') /\ d \notin Range(freeVdefs')
        /\ Range(freeVdefs') \subseteq Range(freeVdefs)
        /\ d \notin Range(vdefs) /\ d \notin lostVdefs
    <3>1. CASE freeVdefs # << >> /\ d = Head(freeVdefs) /\ freeVdefs' = Tail(freeVdefs)
      <4>1. /\ IsInjective(Tail(freeVdefs)) /\ d \in Range(freeVdefs)
            /\ d \notin Range(Tail(freeVdefs)) /\ Range(Tail(freeVdefs)) \subseteq Range(freeVdefs)
        BY <3>1, <2>2, <2>3, TailInjective DEF VdefLists
      <4> QED BY <3>1, <4>1, <2>3 DEF VdefLists
    <3>2. CASE freeVdefs = << >> /\ d \notin Range(vdefs) \cup lostVdefs /\ UNCHANGED freeVdefs
      BY <3>2, EmptyList
    <3> QED BY <3>1, <3>2, <1>2 DEF CreateVdefDone, TakeVdef
  <2>5. CASE /\ vdefs' = << d >> \o vdefs /\ numVdefs' = numVdefs + 1
             /\ vdefName' = [vdefName EXCEPT ![d] = vn] /\ UNCHANGED lostVdefs
    <3>1. /\ IsInjective(vdefs') /\ Len(vdefs') = Len(vdefs) + 1
          /\ Range(vdefs') = Range(vdefs) \cup {d}
      BY <2>2, <2>3, <2>4, <2>5, PushFacts, PushInjective DEF VdefLists
    <3>2. VdefLists'
      BY <3>1, <2>3, <2>4, <2>5 DEF VdefLists
    <3>3. \A i \in DOMAIN vdefs : vdefName[vdefs[i]] # vn
      BY <1>2, <2>2, NotFound DEF CreateVdefDone
    <3>4. Distinct(<< d >> \o vdefs, [vdefName EXCEPT ![d] = vn])
      BY <2>2, <2>3, <2>4, <3>3, DistinctPush DEF VdefLists
    <3>5. NamesUnique'
      BY <2>3, <2>5, <3>4 DEF NamesUnique, Distinct, CreateVoiceDefinition, rsrcVars
    <3> QED BY <2>1, <3>2, <3>5 DEF Lists
  <2>6. CASE lostVdefs' = lostVdefs \cup {d} /\ UNCHANGED << vdefs, numVdefs, vdefName >>
    <3>1. VdefLists'
      BY <2>3, <2>4, <2>6 DEF VdefLists
    <3>2. NamesUnique'
      BY <2>3, <2>6 DEF NamesUnique, Distinct, CreateVoiceDefinition, rsrcVars
    <3> QED BY <2>1, <3>1, <3>2 DEF Lists
  <2> QED BY <1>2, <2>5, <2>6 DEF CreateVdefDone
<1> QED BY <1>1, <1>2 DEF CreateVoiceDefinition

LEMMA ReleaseLists ==
  ASSUME Inv, Lists, NEW vn, ReleaseVoiceDefinition(vn)
  PROVE  Lists'
<1> DEFINE d == Find(vdefs, vdefName, vn)
<1>1. ResourceList' /\ VoiceList' /\ UNCHANGED << resources, name >>
  BY DEF ReleaseVoiceDefinition, Lists, ResourceList, VoiceList, rsrcVars, voiceVars
<1>2. CASE UNCHANGED vdefVars
  BY <1>1, <1>2 DEF Lists, VdefLists, NamesUnique, vdefVars
<1>3. CASE /\ d # None
           /\ vdefs' = Unlink(vdefs, d) /\ freeVdefs' = << d >> \o freeVdefs
           /\ numVdefs' = numVdefs - 1
           /\ vdefName' = [vdefName EXCEPT ![d] = None]
           /\ UNCHANGED lostVdefs
  <2>1. /\ vdefs \in Seq(Vdef) /\ freeVdefs \in Seq(Vdef)
        /\ Range(vdefs) \subseteq Vdef /\ vdefName \in [Vdef -> VName \cup {None}]
    BY ListTypes DEF Inv
  <2>2. d \in Range(vdefs)
    BY <1>3, <2>1, FindInList
  <2> HIDE DEF d
  <2>3. VdefLists /\ Distinct(resources, name) /\ Distinct(vdefs, vdefName)
    BY NamesByList DEF Lists
  <2>4. /\ IsInjective(vdefs') /\ d \notin Range(vdefs') /\ Len(vdefs') = Len(vdefs) - 1
        /\ Range(vdefs') \subseteq Range(vdefs)
    BY <1>3, <2>1, <2>2, <2>3, UnlinkFacts, UnlinkInjective DEF VdefLists
  <2>5. d \notin Range(freeVdefs) /\ d \in Vdef /\ d \notin lostVdefs
    BY <2>1, <2>2, <2>3 DEF VdefLists
  <2>6. IsInjective(freeVdefs') /\ Range(freeVdefs') = Range(freeVdefs) \cup {d}
    BY <1>3, <2>1, <2>3, <2>5, PushFacts, PushInjective DEF VdefLists
  <2>7. VdefLists'
    BY <1>3, <2>3, <2>4, <2>5, <2>6 DEF VdefLists
  <2>8. Distinct(Unlink(vdefs, d), [vdefName EXCEPT ![d] = None])
    BY <2>1, <2>2, <2>3, DistinctUnlink DEF VdefLists
  <2>9. NamesUnique'
    BY <1>1, <1>3, <2>3, <2>8 DEF NamesUnique, Distinct
  <2> QED BY <1>1, <2>7, <2>9 DEF Lists
<1> QED BY <1>2, <1>3 DEF ReleaseVoiceDefinition

LEMMA AddLists ==
  ASSUME Lists, NEW vn, NEW rn, AddResource(vn, rn)
  PROVE  Lists'
BY DEF AddResource, Lists, ResourceList, VdefLists, VoiceList, NamesUnique, rsrcVars, voiceVars

(* A voice is in use or in the free list, never both.                       *)
LEMMA NewEngineLists ==
  ASSUME Inv, Lists, NEW vn, NewEngine(vn)
  PROVE  Lists'
<1> DEFINE d == Find(vdefs, vdefName, vn)
<1>1. /\ UNCHANGED << up, rsrcVars, vdefVars >>
      /\ NewEngineRefused(d) \/ \E v \in Voice : NewEngineUndone(d, v) \/ NewEngineDone(d, v)
  BY DEF NewEngine
<1> HIDE DEF d
<1>2. ResourceList' /\ VdefLists' /\ NamesUnique'
  BY <1>1 DEF Lists, ResourceList, VdefLists, NamesUnique, rsrcVars, vdefVars
<1>3. VoiceList /\ freeVoices \in Seq(Voice) /\ None \notin Voice
  BY ListTypes DEF Lists, Inv
<1>4. ASSUME NEW v \in Voice, TakesVoice(v)
      PROVE  /\ VoicesLeft \in Seq(Voice) /\ IsInjective(VoicesLeft) /\ v \notin Range(VoicesLeft)
             /\ Range(VoicesLeft) \subseteq Range(freeVoices)
  <2>1. CASE freeVoices # << >> /\ v = Head(freeVoices)
    BY <2>1, <1>3, TailInjective DEF VoicesLeft, VoiceList
  <2>2. CASE freeVoices = << >>
    BY <2>2, EmptyList DEF VoicesLeft
  <2> QED BY <1>4, <2>1, <2>2 DEF TakesVoice
<1>5. CASE NewEngineRefused(d)
  BY <1>2, <1>3, <1>5 DEF NewEngineRefused, voiceVars, VoiceList, Lists
<1>6. ASSUME NEW v \in Voice, NewEngineUndone(d, v) PROVE Lists'
  <2>1. /\ TakesVoice(v) /\ freeVoices' = << v >> \o VoicesLeft
        /\ UNCHANGED << numVoices, engine >> /\ engine = None
    BY <1>6 DEF NewEngineUndone
  <2>2. IsInjective(freeVoices') /\ Range(freeVoices') \subseteq Range(freeVoices) \cup {v}
    BY <1>4, <2>1, PushFacts, PushInjective
  <2>3. VoiceList'
    BY <1>3, <2>1, <2>2 DEF VoiceList
  <2> QED BY <1>2, <2>3 DEF Lists
<1>7. ASSUME NEW v \in Voice, NewEngineDone(d, v) PROVE Lists'
  <2>1. /\ TakesVoice(v) /\ freeVoices' = VoicesLeft /\ numVoices' = numVoices + 1
        /\ engine' = v /\ engine = None
    BY <1>7 DEF NewEngineDone
  <2>2. VoiceList'
    BY <1>3, <1>4, <2>1 DEF VoiceList
  <2> QED BY <1>2, <2>2 DEF Lists
<1> QED BY <1>1, <1>5, <1>6, <1>7

LEMMA ReleasedLists ==
  ASSUME Inv, Lists, engine # None, ReleaseVoice
  PROVE  VoiceList'
<1>1. VoiceList /\ freeVoices \in Seq(Voice) /\ engine \in Voice /\ None \notin Voice
  BY ListTypes DEF Lists, Inv, TypeOK
<1>2. /\ freeVoices' = << engine >> \o freeVoices /\ numVoices' = numVoices - 1
      /\ engine' = None
  BY DEF ReleaseVoice
<1>3. IsInjective(freeVoices') /\ Range(freeVoices') = Range(freeVoices) \cup {engine}
  BY <1>1, <1>2, PushFacts, PushInjective DEF VoiceList
<1>4. None \notin Range(freeVoices)
  BY <1>1, ListTypes DEF Inv
<1> QED BY <1>1, <1>2, <1>3, <1>4 DEF VoiceList

LEMMA NextKeepsLists == Inv /\ Lists /\ [Next]_rmVars => Lists'
<1> SUFFICES ASSUME Inv, Lists, [Next]_rmVars PROVE Lists'
  OBVIOUS
<1>1. ASSUME NEW n, LoadResource(n) PROVE Lists'
  BY <1>1, LoadLists
<1>2. ASSUME NEW r \in Rsrc, UnloadResource(r) PROVE Lists'
  BY <1>2, UnloadLists
<1>3. ASSUME NEW vn, CreateVoiceDefinition(vn) PROVE Lists'
  BY <1>3, CreateLists
<1>4. ASSUME NEW vn, NEW rn, AddResource(vn, rn) PROVE Lists'
  BY <1>4, AddLists
<1>5. ASSUME NEW vn, ReleaseVoiceDefinition(vn) PROVE Lists'
  BY <1>5, ReleaseLists
<1>6. ASSUME NEW vn, NewEngine(vn) PROVE Lists'
  BY <1>6, NewEngineLists
<1>7. CASE DisposeEngine
  <2>1. engine # None /\ ReleaseVoice /\ UNCHANGED << rsrcVars, vdefVars >>
    BY <1>7 DEF DisposeEngine
  <2>2. VoiceList'
    BY <2>1, ReleasedLists
  <2> QED BY <2>1, <2>2 DEF Lists, ResourceList, VdefLists, NamesUnique, rsrcVars, vdefVars
<1>8. CASE Terminate
  <2>1. /\ IF engine # None THEN ReleaseVoice ELSE UNCHANGED voiceVars
        /\ UNCHANGED << resources, numResources, name, vdefVars >>
    BY <1>8 DEF Terminate
  <2>2. VoiceList'
    <3>1. CASE engine # None
      BY <2>1, <3>1, ReleasedLists
    <3>2. CASE engine = None
      BY <2>1, <3>2 DEF Lists, VoiceList, voiceVars
    <3> QED BY <3>1, <3>2
  <2> QED BY <2>1, <2>2 DEF Lists, ResourceList, VdefLists, NamesUnique, vdefVars
<1>9. CASE UNCHANGED rmVars
  BY <1>9 DEF Lists, ResourceList, VdefLists, VoiceList, NamesUnique, rmVars, rsrcVars, vdefVars,
              voiceVars
<1> QED BY <1>1, <1>2, <1>3, <1>4, <1>5, <1>6, <1>7, <1>8, <1>9 DEF Next

LEMMA ListsInvariant == Spec => [](Inv /\ Lists)
<1>1. Init => Inv /\ Lists
  BY InitTypes, InitRest, InitLists DEF Inv, Rest
<1>2. Inv /\ Lists /\ [Next]_rmVars => (Inv /\ Lists)'
  BY NextKeeps, NextKeepsLists
<1> QED BY <1>1, <1>2, PTL DEF Spec

(* Whatever calls fail in between, the manager's lists stay lists without   *)
(* repetition that their counters count, and no definition or voice is both *)
(* in use and free.                                                         *)
THEOREM ListsStaySound == Spec => []ListsSound
<1>1. Inv /\ Lists => ListsSound
  <2> SUFFICES ASSUME Inv, Lists PROVE ListsSound
    OBVIOUS
  <2>1. vdefs \in Seq(Vdef) /\ freeVdefs \in Seq(Vdef)
    BY ListTypes DEF Inv
  <2>2. ResourceList /\ VdefLists /\ VoiceList
    BY DEF Lists
  <2>3. /\ IsInjective(vdefs \o freeVdefs)
        /\ Range(vdefs \o freeVdefs) = Range(vdefs) \cup Range(freeVdefs)
    BY <2>1, <2>2, TwoLists DEF VdefLists
  <2> QED BY <2>2, <2>3 DEF ListsSound, ResourceList, VdefLists, VoiceList
<1> QED BY <1>1, ListsInvariant, PTL

(* A name finds at most one resource and at most one definition, in any     *)
(* order of calls: what the search finds first is all there is.             *)
THEOREM NamesFindOne == Spec => []NamesUnique
<1>1. Inv /\ Lists => NamesUnique
  BY DEF Lists
<1> QED BY <1>1, ListsInvariant, PTL

-----------------------------------------------------------------------------
(* What a step may do to a running engine.  Its voice is written only when  *)
(* the engine is made or disposed of; a resource's name is written when it  *)
(* is loaded, and then no voice refers to it yet, or unloaded, and then its *)
(* lock count is zero.                                                      *)
LEMMA EngineKept ==
  ASSUME Inv, [Next]_rmVars, engine # None, engine' = engine
  PROVE  voiceRsrcs' = voiceRsrcs
<1>1. \A n : LoadResource(n) => voiceRsrcs' = voiceRsrcs
  BY DEF LoadResource, LoadRefused, LoadDropped, LoadDone, voiceVars
<1>2. \A r : UnloadResource(r) => voiceRsrcs' = voiceRsrcs
  BY DEF UnloadResource, voiceVars
<1>2a. UNCHANGED voiceVars => voiceRsrcs' = voiceRsrcs
  BY DEF voiceVars
<1>3. \A vn : CreateVoiceDefinition(vn) => voiceRsrcs' = voiceRsrcs
  BY <1>2a DEF CreateVoiceDefinition
<1>4. \A vn, rn : AddResource(vn, rn) => voiceRsrcs' = voiceRsrcs
  BY <1>2a DEF AddResource
<1>5. \A vn : ReleaseVoiceDefinition(vn) => voiceRsrcs' = voiceRsrcs
  BY <1>2a DEF ReleaseVoiceDefinition
<1>6. \A vn : NewEngine(vn) => voiceRsrcs' = voiceRsrcs
  BY <1>2a DEF NewEngine, NewEngineRefused, NewEngineUndone, NewEngineDone
<1>7. ~DisposeEngine
  BY DEF DisposeEngine, ReleaseVoice
<1>8. ~Terminate
  BY DEF Terminate, ReleaseVoice
<1>9. UNCHANGED rmVars => voiceRsrcs' = voiceRsrcs
  BY DEF rmVars, voiceVars
<1> QED BY <1>1, <1>2, <1>3, <1>4, <1>5, <1>6, <1>7, <1>8, <1>9 DEF Next

LEMMA NamesKept ==
  ASSUME Inv, [Next]_rmVars, NEW q \in Range(InUse)
  PROVE  name'[q] = name[q]
<1>1. /\ q \in Loaded /\ Loaded \subseteq Rsrc /\ InUse \in Seq(Rsrc)
      /\ name \in [Rsrc -> RName \cup {None}]
  <2>1. << >> \in Seq(Rsrc)
    OBVIOUS
  <2> QED BY <2>1, ListTypes DEF Inv, NoDanglingVoice, InUse, TypeOK
<1>2. ASSUME NEW n, LoadResource(n) PROVE name'[q] = name[q]
  <2>1. name' = name \/ \E r \in Rsrc : r \notin Loaded /\ name' = [name EXCEPT ![r] = n]
    BY <1>2 DEF LoadResource, LoadRefused, LoadDropped, LoadDone, rsrcVars
  <2> QED BY <1>1, <2>1
<1>3. ASSUME NEW r \in Rsrc, UnloadResource(r) PROVE name'[q] = name[q]
  <2>1. CASE Busy(r)
    BY <1>3, <2>1 DEF UnloadResource, UnloadRefused, rsrcVars
  <2>2. CASE ~Busy(r)
    <3>1. r \in Loaded /\ up /\ name' = [name EXCEPT ![r] = None]
      BY <1>3, <2>2 DEF UnloadResource, UnloadDone, Inv, HandlesLoaded
    <3> DEFINE c == Count(q, InUse)
               l == lockCount[q]
    <3>2. c \in Nat /\ c # 0
      BY <1>1, CountFacts
    <3>3. l = c
      BY <1>1, <3>1 DEF Inv, LocksAreUsers
    <3> HIDE DEF c, l
    <3>4. l > 0
      BY <3>2, <3>3
    <3>5. q # r
      BY <3>4, <2>2 DEF Busy, l
    <3> QED BY <1>1, <3>1, <3>5
  <2> QED BY <2>1, <2>2
<1>4. rsrcVars' = rsrcVars => name' = name
  BY DEF rsrcVars
<1>5. \A vn : CreateVoiceDefinition(vn) => name' = name
  BY <1>4 DEF CreateVoiceDefinition
<1>6. \A vn, rn : AddResource(vn, rn) => name' = name
  BY <1>4 DEF AddResource
<1>7. \A vn : ReleaseVoiceDefinition(vn) => name' = name
  BY <1>4 DEF ReleaseVoiceDefinition
<1>8. \A vn : NewEngine(vn) => name' = name
  BY <1>4 DEF NewEngine
<1>9. (DisposeEngine \/ Terminate \/ UNCHANGED rmVars) => name' = name
  BY <1>4 DEF DisposeEngine, Terminate, rmVars
<1> QED BY <1>2, <1>3, <1>5, <1>6, <1>7, <1>8, <1>9 DEF Next

(* A running engine keeps its voice, and each resource of it keeps its name *)
(* and with it its content, whatever is loaded, unloaded or defined.        *)
THEOREM EngineUntouched == Spec => RunningEngineUntouched
<1>1. Inv /\ [Next]_rmVars =>
        [engine # None /\ engine' = engine
           => \A r \in Range(InUse) : InUse' = InUse /\ name'[r] = name[r]]_rmVars
  <2> SUFFICES ASSUME Inv, [Next]_rmVars, engine # None, engine' = engine, NEW r \in Range(InUse)
               PROVE  InUse' = InUse /\ name'[r] = name[r]
    OBVIOUS
  <2>1. InUse' = InUse
    BY EngineKept DEF InUse
  <2> QED BY <2>1, NamesKept
<1> QED BY <1>1, Invariance, PTL DEF Spec, RunningEngineUntouched
=============================================================================
