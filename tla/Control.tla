------------------------------ MODULE Control -------------------------------
(***************************************************************************)
(* The engine (picoctrl.c): a control unit that schedules a pipeline of    *)
(* processing units, one unit per call, and the API calls that feed text   *)
(* (engFeedText), fetch speech (engFetchOutputItemBytes) and reset         *)
(* (engReset).                                                             *)
(*                                                                         *)
(* Unit p reads cb[p] and writes cb[p + 1]: cb[0] is the engine's cbIn,    *)
(* cb[NumPU] its cbOut.  What one step of a unit may do is the contract    *)
(* PUStep below, which the step functions of the units follow; the modules *)
(* of the single units say how.                                            *)
(*                                                                         *)
(* A datum is TRUE or FALSE: whether it is a sentence end or a flush,      *)
(* which lets no unit go on waiting for more input.                        *)
(***************************************************************************)
EXTENDS Integers, Sequences

CONSTANTS
  NumPU,       \* number of processing units (9 in picoctrl_newControl)
  Cap,         \* Cap[i]: how many data fit into cb[i]
  MaxFeed,     \* bound: how many data the application feeds
  MaxReset,    \* bound: how many times the application resets
  MaxToil,     \* bound: steps in a row in which units compute and move nothing
  MayFail      \* may a step of a unit return PICODATA_PU_ERROR?

PU == 0 .. NumPU - 1
CB == 0 .. NumPU
Status == {"IDLE", "BUSY", "ATOMIC", "OUT_FULL", "ERROR"}

ASSUME NumPUAssumption == NumPU \in Nat \ {0}
ASSUME CapAssumption == Cap \in [CB -> Nat \ {0}]
ASSUME BoundsAssumption == MaxFeed \in Nat /\ MaxReset \in Nat /\ MaxToil \in Nat
                           /\ MayFail \in BOOLEAN

VARIABLES
  curPU,       \* ctrl->curPU, the unit that takes the next step
  procStatus,  \* ctrl->procStatus[], what each unit's last step returned
  cb,          \* contents of the char buffers
  held,        \* data a unit has taken from its input and not yet put
  ready,       \* how many of them, oldest first, it could put now
  stepResult,  \* what the last control step returned
  answer,      \* what the last API call answered
  toil,        \* steps since data last moved or became ready
  fed,         \* number of data fed so far
  resets       \* number of resets so far

ctrlVars == << curPU, procStatus, cb, held, ready, stepResult, answer, toil, fed, resets >>

HasFlush(s) == \E i \in 1 .. Len(s) : s[i]

\* Unit p has nothing to do: no input, nothing ready for output, and nothing
\* held that it may not go on waiting with.
Quiet(p) == cb[p] = << >> /\ ready[p] = 0 /\ ~HasFlush(held[p])

-----------------------------------------------------------------------------
Init ==
  /\ curPU = 0
  /\ procStatus = [p \in PU |-> "IDLE"]
  /\ cb = [i \in CB |-> << >>]
  /\ held = [p \in PU |-> << >>]
  /\ ready = [p \in PU |-> 0]
  /\ stepResult = "IDLE"
  /\ answer = "OK"
  /\ toil = 0
  /\ fed = 0
  /\ resets = 0

\* picoctrl_engFeedText, one character: it is accepted while cbIn has room.
Feed(flush) ==
  /\ fed < MaxFeed
  /\ Len(cb[0]) < Cap[0]
  /\ cb' = [cb EXCEPT ![0] = Append(@, flush)]
  /\ fed' = fed + 1
  /\ answer' = "OK"
  /\ UNCHANGED << curPU, procStatus, held, ready, stepResult, toil, resets >>

-----------------------------------------------------------------------------
(* What a step of unit p does: it takes the first k data from its input,    *)
(* makes r data ready for output in all, puts the first m of those, and     *)
(* returns st.  The step results are those of picodata.h and the rule of    *)
(* ctrlStep: idle iff cbIn is empty and nothing is ready for output.        *)
Taken(p, k) == held[p] \o SubSeq(cb[p], 1, k)

HeldAfter(p, k, m) == SubSeq(Taken(p, k), m + 1, Len(Taken(p, k)))

Progress(p, k, r, m) == k > 0 \/ r > ready[p] \/ m > 0

PUMay(p, k, r, m, st) ==
  \/ /\ st = "IDLE"                                 \* needs more input
     /\ k = Len(cb[p]) /\ m = r
     /\ ~HasFlush(HeldAfter(p, k, m))
  \/ /\ st = "OUT_FULL"                             \* the next datum does not fit
     /\ m < r /\ Len(cb[p + 1]) + m = Cap[p + 1]
  \/ /\ st \in {"BUSY", "ATOMIC"}
     /\ Progress(p, k, r, m) \/ toil < MaxToil
  \/ st = "ERROR" /\ MayFail

PUStep(p, k, r, m, st) ==
  /\ k \in 0 .. Len(cb[p])
  /\ r \in ready[p] .. Len(Taken(p, k))
  /\ m \in 0 .. r
  /\ Len(cb[p + 1]) + m <= Cap[p + 1]
  /\ PUMay(p, k, r, m, st)

\* The buffers after that step.
CbAfter(p, k, m) ==
  [cb EXCEPT ![p] = SubSeq(@, k + 1, Len(@)),
             ![p + 1] = @ \o SubSeq(Taken(p, k), 1, m)]

-----------------------------------------------------------------------------
(* ctrlStep.  S is procStatus after the step of the current unit: its own   *)
(* status is st, and the unit below is set busy if output was produced.     *)
\* Mutant: the unit below is always marked.
StatusAlwaysMarked(m, st) ==
  [p \in PU |-> IF p = curPU THEN st ELSE IF p = curPU + 1 THEN "BUSY" ELSE procStatus[p]]

StatusAfter(m, st) ==
  [p \in PU |-> IF p = curPU THEN st
                ELSE IF p = curPU + 1 /\ m > 0 THEN "BUSY"
                ELSE procStatus[p]]

\* Mutant: nobody looks at the unit below.
BelowIsForgotten(S) == FALSE

BelowIsBusy(S) == curPU + 1 < NumPU /\ S[curPU + 1] = "BUSY"

\* Stay, hand over to the unit below, or (after idle) look for a unit above
\* that is not idle; the top unit is chosen when all of them are.
Stay(S) == curPU' = curPU /\ procStatus' = S
Descend(S) == curPU' = curPU + 1 /\ procStatus' = [S EXCEPT ![curPU + 1] = "BUSY"]
Climb(S) ==
  \E j \in 0 .. curPU - 1 :
    /\ j = 0 \/ S[j] # "IDLE"
    /\ \A i \in j + 1 .. curPU : S[i] = "IDLE"
    /\ curPU' = j
    /\ procStatus' = [S EXCEPT ![j] = "BUSY"]

Schedule(S, st, result) ==
  \/ /\ st = "ATOMIC"
     /\ Stay(S) /\ result = "ATOMIC"
  \/ /\ st = "BUSY"
     /\ IF BelowIsBusy(S) THEN Descend(S) ELSE Stay(S)
     /\ result = "BUSY"
  \/ /\ st = "IDLE"
     /\ \/ BelowIsBusy(S) /\ Descend(S) /\ result = "BUSY"
        \/ ~BelowIsBusy(S) /\ curPU = 0 /\ Stay(S) /\ result = "IDLE"
        \/ ~BelowIsBusy(S) /\ curPU # 0 /\ Climb(S) /\ result = "BUSY"
  \/ /\ st = "OUT_FULL"
     /\ \/ curPU + 1 < NumPU /\ Descend(S) /\ result = "BUSY"
        \/ curPU + 1 = NumPU /\ Stay(S) /\ result = "OUT_FULL"
  \/ /\ st = "ERROR"
     /\ Stay(S) /\ result = "ERROR"

(* picoctrl_engFetchOutputItemBytes: one control step, then one item from   *)
(* cbOut unless the step failed.  roomy says whether the caller's buffer is *)
(* large enough for that item (cbGetSpeechData refuses otherwise, and the   *)
(* item stays).                                                             *)
\* Mutant: an idle control unit is reported even while speech is delivered.
DeliverIdleEarly(C, result, roomy) ==
  \/ result = "ERROR" /\ cb' = C /\ answer' = "STEP_ERROR"
  \/ /\ result # "ERROR"
     /\ cb' = IF roomy /\ C[NumPU] # << >> THEN [C EXCEPT ![NumPU] = Tail(@)] ELSE C
     /\ answer' = IF result = "IDLE" THEN "STEP_IDLE" ELSE "STEP_BUSY"

Deliver(C, result, roomy) ==
  \/ /\ result = "ERROR"
     /\ cb' = C /\ answer' = "STEP_ERROR"
  \/ /\ result # "ERROR" /\ C[NumPU] = << >>
     /\ cb' = C
     /\ answer' = IF result = "IDLE" THEN "STEP_IDLE" ELSE "STEP_BUSY"
  \/ /\ result # "ERROR" /\ C[NumPU] # << >>
     /\ IF roomy
        THEN cb' = [C EXCEPT ![NumPU] = Tail(@)] /\ answer' = "STEP_BUSY"
        ELSE cb' = C /\ answer' = "STEP_ERROR"

FetchWith(k, r, m, st, result, roomy) ==
  /\ PUStep(curPU, k, r, m, st)
  /\ held' = [held EXCEPT ![curPU] = HeldAfter(curPU, k, m)]
  /\ ready' = [ready EXCEPT ![curPU] = r - m]
  /\ Schedule(StatusAfter(m, st), st, result)
  /\ stepResult' = result
  /\ toil' = IF Progress(curPU, k, r, m) THEN 0
             ELSE toil + IF st \in {"BUSY", "ATOMIC"} THEN 1 ELSE 0
  /\ Deliver(CbAfter(curPU, k, m), result, roomy)
  /\ UNCHANGED << fed, resets >>

Fetch(roomy) ==
  \E k \in 0 .. Len(cb[curPU]) :
  \E r \in ready[curPU] .. Len(Taken(curPU, k)) :
  \E m \in 0 .. r, st \in Status, result \in Status :
    FetchWith(k, r, m, st, result, roomy)

-----------------------------------------------------------------------------
(* ctrlTerminate and ctrlInitialize: a unit drops what it holds.            *)

DropHeld == held' = [p \in PU |-> << >>] /\ ready' = [p \in PU |-> 0]

(* picoctrl_engReset: every unit is terminated and initialised, and every   *)
(* buffer emptied.  procStatus is not touched.                              *)
Reset ==
  /\ resets < MaxReset
  /\ resets' = resets + 1
  /\ curPU' = 0
  /\ DropHeld
  /\ cb' = [i \in CB |-> << >>]
  /\ answer' = "OK"
  /\ toil' = 0
  /\ UNCHANGED << procStatus, stepResult, fed >>

Next ==
  \/ \E flush \in BOOLEAN : Feed(flush)
  \/ \E roomy \in BOOLEAN : Fetch(roomy)
  \/ Reset

Spec == Init /\ [][Next]_ctrlVars

(* The application goes on fetching, with a buffer that is large enough.    *)
(* Nothing is assumed of a unit but that a step which can do its work does  *)
(* not fail for ever; that it fails is answered STEP_ERROR.                 *)
FairSpec == Spec /\ WF_ctrlVars(Fetch(TRUE) /\ answer' # "STEP_ERROR")

-----------------------------------------------------------------------------
TypeOK ==
  /\ curPU \in PU
  /\ procStatus \in [PU -> Status]
  /\ cb \in [CB -> Seq(BOOLEAN)]
  /\ held \in [PU -> Seq(BOOLEAN)]
  /\ ready \in [PU -> Nat]
  /\ \A p \in PU : ready[p] <= Len(held[p])
  /\ stepResult \in Status
  /\ answer \in {"OK", "STEP_IDLE", "STEP_BUSY", "STEP_ERROR"}
  /\ toil \in Nat /\ fed \in Nat /\ resets \in Nat

(* A unit whose last step was idle has nothing to do: the control unit may  *)
(* pass it by when it looks for work.  The top unit is fed by the           *)
(* application behind the control unit's back.                              *)
IdleIsQuiet ==
  \A p \in PU \ {0} : procStatus[p] = "IDLE" => Quiet(p)

(* Work below the current unit sits in the very next unit, and that one is  *)
(* marked busy: nothing is ever left behind in the lower pipeline.          *)
WorkBelowIsMarked ==
  \A p \in PU :
    /\ p > curPU + 1 => Quiet(p)
    /\ p = curPU + 1 /\ ~Quiet(p) => procStatus[p] = "BUSY"

(* The answer PICO_STEP_IDLE, on which applications stop fetching, means    *)
(* that all text fed so far was processed and all its speech returned       *)
(* (picoapi.h, pico_getData).                                               *)
IdleMeansDone ==
  answer = "STEP_IDLE" => cb[NumPU] = << >> /\ \A p \in PU : Quiet(p)

(* A unit that takes a step finds the output of its last one taken by the   *)
(* unit below, unless that step was atomic or failed: units that start their*)
(* output anew after PICODATA_PU_OUT_FULL rely on it (AccPhr, Call).        *)
CalledWhenDrained ==
  curPU + 1 < NumPU /\ cb[curPU + 1] # << >> => procStatus[curPU] \in {"ATOMIC", "ERROR"}

(* Everything fed up to a sentence end or flush is eventually returned to   *)
(* the application, or dropped by a reset, however the units divide the     *)
(* work: no schedule of ctrlStep starves a unit that has data.  Only        *)
(* PICO_STEP_ERROR ends the promise.                                        *)
FlushPending ==
  \/ \E i \in CB : HasFlush(cb[i])
  \/ \E p \in PU : HasFlush(held[p])

FlushIsDelivered == FlushPending ~> (~FlushPending \/ answer = "STEP_ERROR")

(* The engine comes to rest: an application that goes on fetching without   *)
(* feeding is told STEP_IDLE again and again (or that a unit fails), never  *)
(* kept in STEP_BUSY.                                                       *)
RestsIdle == []<>(answer \in {"STEP_IDLE", "STEP_ERROR"})
=============================================================================
