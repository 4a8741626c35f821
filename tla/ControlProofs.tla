--------------------------- MODULE ControlProofs ----------------------------
(***************************************************************************)
(* Proofs about Control: for every number of units, every buffer size and  *)
(* every behaviour of the units that follows the contract PUStep, the      *)
(* answer PICO_STEP_IDLE is never given while data is left in the pipeline.*)
(*                                                                         *)
(* The inductive invariant is Inv.  ctrlStep's own rule (units below the   *)
(* current one are idle, but the next may be busy) cannot serve: a reset   *)
(* breaks it.  What survives a reset is the implication from the status to *)
(* the data: an idle unit is quiet, and work below is marked.              *)
(***************************************************************************)
EXTENDS Control, TLAPS

Inv == TypeOK /\ IdleIsQuiet /\ WorkBelowIsMarked /\ IdleMeansDone /\ CalledWhenDrained

(* The constants, as the proofs use them.                                   *)
LEMMA Indices ==
  /\ NumPU \in Nat /\ NumPU > 0
  /\ 0 \in PU /\ NumPU \in CB /\ NumPU \notin PU
  /\ PU \subseteq CB /\ PU \subseteq Nat
  /\ \A p \in PU : p + 1 \in CB
BY NumPUAssumption DEF PU, CB

(* Prefixes and suffixes of sequences stay sequences over the same set.     *)
LEMMA SubSeqLen ==
  ASSUME NEW s \in Seq(BOOLEAN), NEW a \in Nat, NEW b \in Nat, a >= 1, b <= Len(s)
  PROVE  /\ SubSeq(s, a, b) \in Seq(BOOLEAN)
         /\ Len(SubSeq(s, a, b)) = IF a <= b THEN b - a + 1 ELSE 0
<1>1. \A i \in a .. b : s[i] \in BOOLEAN
  <2>1. a .. b \subseteq 1 .. Len(s)
    OBVIOUS
  <2> QED BY <2>1
<1> QED BY <1>1

(* One step of unit p, in the terms the invariant needs: the types of what  *)
(* it leaves behind, and that an idle unit is left quiet.                   *)
LEMMA UnitStep ==
  ASSUME TypeOK,
         NEW p \in PU, NEW k, NEW r, NEW m, NEW st \in Status,
         PUStep(p, k, r, m, st)
  PROVE  /\ HeldAfter(p, k, m) \in Seq(BOOLEAN)
         /\ r - m \in Nat
         /\ r - m <= Len(HeldAfter(p, k, m))
         /\ CbAfter(p, k, m) \in [CB -> Seq(BOOLEAN)]
         /\ \A q \in PU \ {p, p + 1} : CbAfter(p, k, m)[q] = cb[q]
         /\ m = 0 => (p + 1 \in PU => CbAfter(p, k, m)[p + 1] = cb[p + 1])
         /\ m \in Nat
         /\ st = "IDLE" => /\ CbAfter(p, k, m)[p] = << >>
                           /\ r - m = 0
                           /\ ~HasFlush(HeldAfter(p, k, m))
<1> USE Indices
<1> DEFINE T == Taken(p, k)
<1>1. /\ cb[p] \in Seq(BOOLEAN) /\ cb[p + 1] \in Seq(BOOLEAN)
      /\ held[p] \in Seq(BOOLEAN) /\ ready[p] \in Nat
  BY DEF TypeOK
<1>2. k \in Nat /\ k <= Len(cb[p])
  BY <1>1 DEF PUStep
<1>3. T \in Seq(BOOLEAN) /\ Len(T) \in Nat
  <2>1. SubSeq(cb[p], 1, k) \in Seq(BOOLEAN)
    BY <1>1, <1>2, SubSeqLen
  <2> QED BY <2>1, <1>1 DEF Taken
<1>4. r \in Nat /\ m \in Nat /\ m <= r /\ r <= Len(T)
  <2> HIDE DEF T
  <2>1. r \in ready[p] .. Len(T) /\ m \in 0 .. r
    BY DEF PUStep, T
  <2> QED BY <2>1, <1>1, <1>3
<1>5. HeldAfter(p, k, m) \in Seq(BOOLEAN) /\ Len(HeldAfter(p, k, m)) = Len(T) - m
  <2> HIDE DEF T
  <2>1. HeldAfter(p, k, m) = SubSeq(T, m + 1, Len(T))
    BY DEF HeldAfter, T
  <2> QED BY <2>1, <1>3, <1>4, SubSeqLen
<1>6. r - m \in Nat /\ r - m <= Len(HeldAfter(p, k, m))
  <2> HIDE DEF T
  <2> QED BY <1>3, <1>4, <1>5
<1>7. /\ SubSeq(cb[p], k + 1, Len(cb[p])) \in Seq(BOOLEAN)
      /\ k = Len(cb[p]) => SubSeq(cb[p], k + 1, Len(cb[p])) = << >>
  <2>1. Len(SubSeq(cb[p], k + 1, Len(cb[p]))) = IF k + 1 <= Len(cb[p]) THEN Len(cb[p]) - (k + 1) + 1 ELSE 0
    BY <1>1, <1>2, SubSeqLen
  <2> QED BY <2>1, <1>1, <1>2, SubSeqLen
<1>8. /\ SubSeq(T, 1, m) \in Seq(BOOLEAN)
      /\ m = 0 => SubSeq(T, 1, m) = << >>
  <2> HIDE DEF T
  <2> QED BY <1>3, <1>4, SubSeqLen
<1>9. CbAfter(p, k, m) =
        [cb EXCEPT ![p] = SubSeq(cb[p], k + 1, Len(cb[p])),
                   ![p + 1] = cb[p + 1] \o SubSeq(T, 1, m)]
  BY <1>1 DEF CbAfter, TypeOK
<1> HIDE DEF T
<1>10. cb[p + 1] \o SubSeq(T, 1, m) \in Seq(BOOLEAN)
  BY <1>1, <1>8
<1>11. CbAfter(p, k, m) \in [CB -> Seq(BOOLEAN)]
  BY <1>7, <1>9, <1>10 DEF TypeOK
<1>12. \A q \in PU \ {p, p + 1} : CbAfter(p, k, m)[q] = cb[q]
  BY <1>9 DEF TypeOK
<1>13. m = 0 => CbAfter(p, k, m)[p + 1] = cb[p + 1]
  <2> SUFFICES ASSUME m = 0 PROVE CbAfter(p, k, m)[p + 1] = cb[p + 1]
    OBVIOUS
  <2>1. CbAfter(p, k, m)[p + 1] = cb[p + 1] \o << >>
    BY <1>8, <1>9 DEF TypeOK
  <2> QED BY <2>1, <1>1
<1>14. ASSUME st = "IDLE"
       PROVE  /\ CbAfter(p, k, m)[p] = << >>
              /\ r - m = 0
              /\ ~HasFlush(HeldAfter(p, k, m))
  <2>1. k = Len(cb[p]) /\ m = r /\ ~HasFlush(HeldAfter(p, k, m))
    BY <1>14 DEF PUStep, PUMay
  <2>2. p + 1 # p
    OBVIOUS
  <2>3. CbAfter(p, k, m)[p] = << >>
    BY <2>1, <2>2, <1>7, <1>9 DEF TypeOK
  <2> QED BY <2>1, <2>3, <1>4
<1> QED BY <1>4, <1>5, <1>6, <1>11, <1>12, <1>13, <1>14

-----------------------------------------------------------------------------
(* ctrlStep's choice of the next unit, over the status S and the data left  *)
(* by the step of the current unit.  Q is the set of units that are quiet   *)
(* after that step.                                                         *)
LEMMA ScheduleKeeps ==
  ASSUME TypeOK, NEW S \in [PU -> Status], NEW st \in Status, NEW result \in Status,
         NEW Q \in SUBSET PU,
         S[curPU] = st,
         Schedule(S, st, result),
         \A p \in PU \ {0} : S[p] = "IDLE" => p \in Q,
         \A p \in PU : /\ p > curPU + 1 => p \in Q
                       /\ p = curPU + 1 /\ p \notin Q => S[p] = "BUSY"
  PROVE  /\ curPU' \in PU /\ procStatus' \in [PU -> Status]
         /\ \A p \in PU \ {0} : procStatus'[p] = "IDLE" => p \in Q
         /\ \A p \in PU : /\ p > curPU' + 1 => p \in Q
                          /\ p = curPU' + 1 /\ p \notin Q => procStatus'[p] = "BUSY"
         /\ curPU' + 1 \in PU \ Q => procStatus'[curPU'] \in {"ATOMIC", "ERROR"}
         /\ result = "IDLE" => st = "IDLE" /\ curPU = 0 /\ \A p \in PU \ {0} : p \in Q
<1> USE Indices
<1>0. curPU \in PU /\ "BUSY" \in Status
  BY DEF TypeOK, Status
<1>1. CASE Stay(S)
  <2>1. curPU' = curPU /\ procStatus' = S
    BY <1>1 DEF Stay
  <2>2. ASSUME result = "IDLE"
        PROVE  st = "IDLE" /\ curPU = 0 /\ \A p \in PU \ {0} : p \in Q
    <3>1. st = "IDLE" /\ ~BelowIsBusy(S) /\ curPU = 0
      BY <2>2 DEF Schedule
    <3>2. ~(1 \in PU /\ S[1] = "BUSY")
      BY <3>1 DEF BelowIsBusy, PU
    <3>3. \A p \in PU \ {0} : p = 1 \/ p > 1
      OBVIOUS
    <3> QED BY <3>1, <3>2, <3>3
  <2>3. ASSUME curPU + 1 \in PU \ Q
        PROVE  st \in {"ATOMIC", "ERROR"}
    <3>1. S[curPU + 1] = "BUSY" /\ curPU + 1 < NumPU
      BY <2>3, <1>0 DEF PU
    <3>2. BelowIsBusy(S)
      BY <3>1 DEF BelowIsBusy
    <3>3. ~Descend(S) /\ ~(curPU + 1 = NumPU)
      BY <2>1, <3>1, <1>0 DEF Descend, PU
    <3> QED BY <3>2, <3>3 DEF Schedule
  <2> QED BY <1>0, <2>1, <2>2, <2>3
<1>2. CASE Descend(S) /\ curPU + 1 < NumPU /\ result # "IDLE"
  <2>1. curPU' = curPU + 1 /\ procStatus' = [S EXCEPT ![curPU + 1] = "BUSY"]
    BY <1>2 DEF Descend
  <2>2. curPU + 1 \in PU
    BY <1>0, <1>2 DEF PU
  <2>3. /\ procStatus' \in [PU -> Status]
        /\ \A p \in PU : procStatus'[p] = "IDLE" => S[p] = "IDLE"
    BY <1>0, <2>1, <2>2
  <2>4. \A p \in PU : p >= curPU' + 1 => p > curPU + 1
    BY <1>0, <2>1
  <2> QED BY <1>0, <1>2, <2>1, <2>2, <2>3, <2>4
<1>3. CASE Climb(S) /\ ~BelowIsBusy(S) /\ result # "IDLE"
  <2>1. PICK j \in 0 .. curPU - 1 :
          /\ \A i \in j + 1 .. curPU : S[i] = "IDLE"
          /\ curPU' = j
          /\ procStatus' = [S EXCEPT ![j] = "BUSY"]
    BY <1>3 DEF Climb
  <2>2. j \in PU
    BY <1>0, <2>1 DEF PU
  <2>3. /\ procStatus' \in [PU -> Status]
        /\ \A p \in PU : procStatus'[p] = "IDLE" => S[p] = "IDLE"
    BY <1>0, <2>1, <2>2
  <2>4. \A p \in PU : p > j => p \in Q
    <3> TAKE p \in PU
    <3> HAVE p > j
    <3>1. CASE p <= curPU
      <4>1. p \in j + 1 .. curPU /\ p # 0
        BY <1>0, <2>2, <3>1
      <4> QED BY <2>1, <4>1
    <3>2. CASE p = curPU + 1
      <4>1. S[p] # "BUSY"
        BY <1>3, <3>2 DEF BelowIsBusy, PU
      <4> QED BY <3>2, <4>1
    <3>3. CASE p > curPU + 1
      BY <3>3
    <3> QED BY <1>0, <3>1, <3>2, <3>3
  <2>5. \A p \in PU : p >= curPU' + 1 => p > j
    BY <2>1, <2>2
  <2> QED BY <1>3, <2>1, <2>2, <2>3, <2>4, <2>5
<1>4. \/ Stay(S)
      \/ Descend(S) /\ curPU + 1 < NumPU /\ result # "IDLE"
      \/ Climb(S) /\ ~BelowIsBusy(S) /\ result # "IDLE"
  BY DEF Schedule, BelowIsBusy
<1> QED BY <1>1, <1>2, <1>3, <1>4

-----------------------------------------------------------------------------
(* The step of the current unit leaves the others as they are, but marks    *)
(* the unit below busy when it has put something into its buffer.           *)
LEMMA FetchKeeps ==
  ASSUME Inv, NEW k, NEW r, NEW m, NEW st \in Status, NEW result \in Status,
         NEW roomy \in BOOLEAN,
         FetchWith(k, r, m, st, result, roomy)
  PROVE  Inv'
<1> USE Indices
<1>0. /\ PUStep(curPU, k, r, m, st)
      /\ held' = [held EXCEPT ![curPU] = HeldAfter(curPU, k, m)]
      /\ ready' = [ready EXCEPT ![curPU] = r - m]
      /\ Schedule(StatusAfter(m, st), st, result)
      /\ stepResult' = result
      /\ toil' = IF Progress(curPU, k, r, m) THEN 0
                 ELSE toil + IF st \in {"BUSY", "ATOMIC"} THEN 1 ELSE 0
      /\ Deliver(CbAfter(curPU, k, m), result, roomy)
      /\ UNCHANGED << fed, resets >>
  BY DEF FetchWith
<1> DEFINE S == StatusAfter(m, st)
           C == CbAfter(curPU, k, m)
           Q == {q \in PU : C[q] = << >> /\ ready'[q] = 0 /\ ~HasFlush(held'[q])}
<1>1. TypeOK /\ curPU \in PU /\ "BUSY" \in Status
  BY DEF Inv, TypeOK, Status
<1>2. /\ HeldAfter(curPU, k, m) \in Seq(BOOLEAN)
      /\ r - m \in Nat
      /\ r - m <= Len(HeldAfter(curPU, k, m))
      /\ C \in [CB -> Seq(BOOLEAN)]
      /\ \A q \in PU \ {curPU, curPU + 1} : C[q] = cb[q]
      /\ m = 0 => (curPU + 1 \in PU => C[curPU + 1] = cb[curPU + 1])
      /\ m \in Nat
      /\ st = "IDLE" => /\ C[curPU] = << >>
                        /\ r - m = 0
                        /\ ~HasFlush(HeldAfter(curPU, k, m))
  <2>1. PUStep(curPU, k, r, m, st)
    BY <1>0
  <2> QED BY <1>1, <2>1, UnitStep
<1> HIDE DEF C
<1>3. /\ held' \in [PU -> Seq(BOOLEAN)] /\ ready' \in [PU -> Nat]
      /\ held'[curPU] = HeldAfter(curPU, k, m) /\ ready'[curPU] = r - m
      /\ \A q \in PU \ {curPU} : held'[q] = held[q] /\ ready'[q] = ready[q]
  BY <1>0, <1>1, <1>2 DEF TypeOK
<1>4. \A q \in PU : ready'[q] <= Len(held'[q])
  BY <1>1, <1>2, <1>3 DEF TypeOK
<1>5. /\ S \in [PU -> Status] /\ S[curPU] = st
      /\ \A q \in PU \ {curPU, curPU + 1} : S[q] = procStatus[q]
      /\ curPU + 1 \in PU => S[curPU + 1] = IF m > 0 THEN "BUSY" ELSE procStatus[curPU + 1]
  <2>1. procStatus \in [PU -> Status] /\ curPU + 1 # curPU
    BY <1>1 DEF TypeOK
  <2> QED BY <1>1, <2>1 DEF StatusAfter
<1> HIDE DEF S
(* Quietness of the units other than the current one.                       *)
<1>6. /\ \A q \in PU \ {curPU, curPU + 1} : Quiet(q) => q \in Q
      /\ curPU + 1 \in PU /\ m = 0 /\ Quiet(curPU + 1) => curPU + 1 \in Q
      /\ st = "IDLE" => curPU \in Q
  <2>1. curPU + 1 # curPU
    BY <1>1
  <2> QED BY <1>1, <1>2, <1>3, <2>1 DEF Quiet
<1>7. \A p \in PU \ {0} : S[p] = "IDLE" => p \in Q
  <2> TAKE p \in PU \ {0}
  <2> HAVE S[p] = "IDLE"
  <2>1. CASE p = curPU
    BY <2>1, <1>5, <1>6
  <2>2. CASE p = curPU + 1
    <3>1. ~(m > 0) /\ procStatus[p] = "IDLE"
      BY <2>2, <1>5
    <3>2. m = 0 /\ Quiet(p)
      <4>1. m \in Nat
        BY <1>2
      <4>2. m = 0
        BY <4>1, <3>1
      <4>3. Quiet(p)
        BY <3>1 DEF Inv, IdleIsQuiet
      <4> QED BY <4>2, <4>3
    <3> QED BY <3>2, <2>2, <1>6
  <2>3. CASE p \notin {curPU, curPU + 1}
    BY <2>3, <1>5, <1>6 DEF Inv, IdleIsQuiet
  <2> QED BY <2>1, <2>2, <2>3
<1>8. \A p \in PU : /\ p > curPU + 1 => p \in Q
                    /\ p = curPU + 1 /\ p \notin Q => S[p] = "BUSY"
  <2> TAKE p \in PU
  <2>1. ASSUME p > curPU + 1 PROVE p \in Q
    <3>1. p \notin {curPU, curPU + 1}
      BY <1>1, <2>1
    <3>2. Quiet(p)
      BY <2>1 DEF Inv, WorkBelowIsMarked
    <3> QED BY <3>1, <3>2, <1>6
  <2>2. ASSUME p = curPU + 1, p \notin Q PROVE S[p] = "BUSY"
    <3>1. CASE m > 0
      BY <3>1, <2>2, <1>5
    <3>2. CASE m = 0
      <4>1. ~Quiet(p)
        BY <3>2, <2>2, <1>6
      <4>2. procStatus[p] = "BUSY"
        BY <4>1, <2>2 DEF Inv, WorkBelowIsMarked
      <4> QED BY <4>2, <3>2, <2>2, <1>5
    <3> QED BY <3>1, <3>2, <1>2
  <2> QED BY <2>1, <2>2
<1> HIDE DEF Q
<1>9. /\ curPU' \in PU /\ procStatus' \in [PU -> Status]
      /\ \A p \in PU \ {0} : procStatus'[p] = "IDLE" => p \in Q
      /\ \A p \in PU : /\ p > curPU' + 1 => p \in Q
                       /\ p = curPU' + 1 /\ p \notin Q => procStatus'[p] = "BUSY"
      /\ curPU' + 1 \in PU \ Q => procStatus'[curPU'] \in {"ATOMIC", "ERROR"}
      /\ result = "IDLE" => st = "IDLE" /\ curPU = 0 /\ \A p \in PU \ {0} : p \in Q
  <2>1. Schedule(S, st, result)
    BY <1>0 DEF S
  <2>2. Q \in SUBSET PU
    BY DEF Q
  <2>3. TypeOK /\ S \in [PU -> Status] /\ S[curPU] = st
    BY <1>1, <1>5
  <2> QED BY <1>7, <1>8, <2>1, <2>2, <2>3, ScheduleKeeps
             DEF Schedule, Stay, Descend, Climb, BelowIsBusy
(* The application takes from the output buffer only.                       *)
<1>10. /\ cb' \in [CB -> Seq(BOOLEAN)]
       /\ \A q \in PU : cb'[q] = C[q]
       /\ answer' \in {"OK", "STEP_IDLE", "STEP_BUSY", "STEP_ERROR"}
       /\ answer' = "STEP_IDLE" => result = "IDLE" /\ cb'[NumPU] = << >>
  <2>1. Deliver(C, result, roomy)
    BY <1>0 DEF C
  <2>2. C[NumPU] \in Seq(BOOLEAN)
    <3>1. C \in [CB -> Seq(BOOLEAN)]
      BY <1>2
    <3> QED BY <3>1
  <2>3. C[NumPU] # << >> => Tail(C[NumPU]) \in Seq(BOOLEAN)
    <3> DEFINE s == C[NumPU]
    <3> HIDE DEF s
    <3>1. s \in Seq(BOOLEAN) /\ s # << >> => Tail(s) \in Seq(BOOLEAN)
      OBVIOUS
    <3> QED BY <2>2, <3>1 DEF s
  <2> QED BY <1>2, <2>1, <2>3 DEF Deliver
<1>11. \A q \in PU : q \in Q => Quiet(q)'
  BY <1>10 DEF Q, Quiet
<1>12. TypeOK'
  <2>1. toil' \in Nat /\ fed' \in Nat /\ resets' \in Nat /\ stepResult' \in Status
    BY <1>0, <1>1 DEF TypeOK
  <2> QED BY <2>1, <1>3, <1>4, <1>9, <1>10 DEF TypeOK
<1>13. IdleIsQuiet'
  BY <1>9, <1>11 DEF IdleIsQuiet
<1>14. WorkBelowIsMarked'
  BY <1>9, <1>11 DEF WorkBelowIsMarked
<1>15. IdleMeansDone'
  <2> SUFFICES ASSUME answer' = "STEP_IDLE"
               PROVE  cb'[NumPU] = << >> /\ \A p \in PU : Quiet(p)'
    BY DEF IdleMeansDone
  <2>1. result = "IDLE" /\ cb'[NumPU] = << >>
    BY <1>10
  <2>2. st = "IDLE" /\ curPU = 0 /\ \A p \in PU \ {0} : p \in Q
    BY <2>1, <1>9
  <2>3. 0 \in Q
    BY <2>2, <1>6
  <2> QED BY <2>1, <2>2, <2>3, <1>11
<1>16. CalledWhenDrained'
  <2> SUFFICES ASSUME curPU' + 1 < NumPU, cb'[curPU' + 1] # << >>
               PROVE  procStatus'[curPU'] \in {"ATOMIC", "ERROR"}
    BY DEF CalledWhenDrained
  <2>1. curPU' + 1 \in PU
    BY <1>9 DEF PU
  <2>2. curPU' + 1 \notin Q
    BY <2>1, <1>10 DEF Q
  <2> QED BY <2>1, <2>2, <1>9
<1> QED BY <1>12, <1>13, <1>14, <1>15, <1>16 DEF Inv

-----------------------------------------------------------------------------
LEMMA InitInv == Init => Inv
<1> USE Indices
<1> SUFFICES ASSUME Init PROVE Inv
  OBVIOUS
<1>1. << >> \in Seq(BOOLEAN) /\ Len(<< >>) = 0 /\ ~HasFlush(<< >>)
  BY DEF HasFlush
<1>2. TypeOK
  BY <1>1 DEF Init, TypeOK, Status
<1>3. \A p \in PU : Quiet(p)
  BY <1>1 DEF Init, Quiet
<1>4. CalledWhenDrained
  BY DEF CalledWhenDrained, Init, CB
<1> QED BY <1>2, <1>3, <1>4 DEF Inv, IdleIsQuiet, WorkBelowIsMarked, IdleMeansDone, Init

(* The application feeds the top unit, which is above every unit the        *)
(* invariant speaks of.                                                     *)
LEMMA FeedKeeps ==
  ASSUME Inv, NEW flush \in BOOLEAN, Feed(flush)
  PROVE  Inv'
<1> USE Indices
<1>1. TypeOK /\ 0 \in CB
  BY DEF Inv
<1>2. Append(cb[0], flush) \in Seq(BOOLEAN)
  BY <1>1 DEF TypeOK
<1>3. cb' \in [CB -> Seq(BOOLEAN)] /\ \A i \in CB \ {0} : cb'[i] = cb[i]
  BY <1>1, <1>2 DEF Feed, TypeOK
<1>4. \A p \in PU \ {0} : Quiet(p)' = Quiet(p)
  BY <1>3 DEF Feed, Quiet
<1>5. TypeOK'
  <2>1. /\ fed' \in Nat /\ answer' = "OK"
        /\ UNCHANGED << curPU, procStatus, held, ready, stepResult, toil, resets >>
    BY <1>1 DEF Feed, TypeOK
  <2> QED BY <1>1, <1>3, <2>1 DEF TypeOK
<1>6. IdleIsQuiet'
  BY <1>4 DEF Inv, IdleIsQuiet, Feed
<1>7. WorkBelowIsMarked'
  <2>1. \A p \in PU : p > curPU + 1 \/ p = curPU + 1 => p # 0
    BY <1>1 DEF TypeOK
  <2> QED BY <1>4, <2>1 DEF Inv, WorkBelowIsMarked, Feed
<1>8. IdleMeansDone'
  BY DEF IdleMeansDone, Feed
<1>9. CalledWhenDrained'
  <2>1. curPU + 1 < NumPU => curPU + 1 \in CB \ {0}
    BY <1>1 DEF TypeOK, PU, CB
  <2> QED BY <1>1, <1>3, <2>1 DEF Inv, CalledWhenDrained, Feed
<1> QED BY <1>5, <1>6, <1>7, <1>8, <1>9 DEF Inv

(* A reset leaves the status as it was, and every unit quiet.               *)
LEMMA ResetKeeps ==
  ASSUME Inv, Reset
  PROVE  Inv'
<1> USE Indices
<1>1. << >> \in Seq(BOOLEAN) /\ Len(<< >>) = 0 /\ ~HasFlush(<< >>)
  BY DEF HasFlush
<1>2. TypeOK'
  BY <1>1 DEF Inv, TypeOK, Reset, DropHeld
<1>3. \A p \in PU : Quiet(p)'
  BY <1>1 DEF Reset, DropHeld, Quiet
<1>4. CalledWhenDrained'
  BY DEF CalledWhenDrained, Reset, CB
<1> QED BY <1>2, <1>3, <1>4 DEF Inv, IdleIsQuiet, WorkBelowIsMarked, IdleMeansDone, Reset, DropHeld

LEMMA NextKeeps == Inv /\ [Next]_ctrlVars => Inv'
<1> SUFFICES ASSUME Inv, [Next]_ctrlVars PROVE Inv'
  OBVIOUS
<1>1. ASSUME NEW flush \in BOOLEAN, Feed(flush) PROVE Inv'
  BY <1>1, FeedKeeps
<1>2. ASSUME NEW roomy \in BOOLEAN, Fetch(roomy) PROVE Inv'
  <2>1. PICK k, r, m, st, result :
          st \in Status /\ result \in Status /\ FetchWith(k, r, m, st, result, roomy)
    BY <1>2 DEF Fetch
  <2> QED BY <2>1, FetchKeeps
<1>3. CASE Reset
  BY <1>3, ResetKeeps
<1>4. CASE UNCHANGED ctrlVars
  BY <1>4 DEF ctrlVars, Inv, TypeOK, IdleIsQuiet, WorkBelowIsMarked, IdleMeansDone,
                  CalledWhenDrained, Quiet
<1> QED BY <1>1, <1>2, <1>3, <1>4 DEF Next

LEMMA Invariance == Spec => []Inv
BY InitInv, NextKeeps, PTL DEF Spec

(* Type correctness of the control unit and the pipeline.                   *)
THEOREM ControlTypes == Spec => []TypeOK
<1>1. Inv => TypeOK
  BY DEF Inv
<1> QED BY <1>1, Invariance, PTL

(* A unit that ctrlStep passes by as idle has neither input nor output left.*)
THEOREM PassedByIsQuiet == Spec => []IdleIsQuiet
<1>1. Inv => IdleIsQuiet
  BY DEF Inv
<1> QED BY <1>1, Invariance, PTL

(* Work below the current unit is in the next unit only, and marked busy:   *)
(* ctrlStep does not climb past it.                                         *)
THEOREM NothingLeftBelow == Spec => []WorkBelowIsMarked
<1>1. Inv => WorkBelowIsMarked
  BY DEF Inv
<1> QED BY <1>1, Invariance, PTL

(* PICO_STEP_IDLE (pico_getData, picoctrl_engFetchOutputItemBytes) is       *)
(* answered only when everything fed was processed and returned.            *)
THEOREM StepIdleIsTrue == Spec => []IdleMeansDone
<1>1. Inv => IdleMeansDone
  BY DEF Inv
<1> QED BY <1>1, Invariance, PTL

(* A unit is called again only when the unit below has taken its output,    *)
(* unless its last step was atomic or failed (ctrlStep).                    *)
THEOREM UnitCalledWhenDrained == Spec => []CalledWhenDrained
<1>1. Inv => CalledWhenDrained
  BY DEF Inv
<1> QED BY <1>1, Invariance, PTL
=============================================================================
