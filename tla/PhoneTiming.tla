---------------------------- MODULE PhoneTiming -----------------------------
(***************************************************************************)
(* How long the states of a phone last, in frames of 4 ms: the durations of*)
(* the lingware made faster or slower (picopam.c), and those of pauses     *)
(* moved between limits (picodata.c).  A number of frames is an 8-bit one. *)
(*                                                                         *)
(* The factor by which the speed command stretches durations (dMod) and    *)
(* what is carried from one state to the next (dRest) are floating-point   *)
(* numbers in the code; here they count units of 1 / ModUnit.              *)
(***************************************************************************)
EXTENDS Integers, Sequences, SequencesExt

CONSTANT ModUnit       \* dMod 1.0

NumStates == 5         \* PICOPAM_NRSTPF, states of a phone
FrameMs == 4

\* A sweep: a fold from the left, written so that TLC evaluates what it has so
\* far once for each element.
Run(op(_, _), start, s) ==
  FoldLeft(LAMBDA a, x : CHOOSE r \in {op(b, x) : b \in {a}} : TRUE, start, s)

Byte8(n) == n % 256
Total(frames) == FoldLeft(LAMBDA n, f : n + f, 0, frames)

\* C division truncates towards zero.
DivC(a, b) == IF a >= 0 THEN a \div b ELSE -((-a) \div b)

\* pam_get_duration. A value that does not fit into 8 bits is undefined by C;
\* the low byte is what compilers for x86 produce.
Stretched(frames, dMod, dRest) ==
  Run(LAMBDA a, n :
             LET v == a.rest + n * dMod
                 out == Byte8(v \div ModUnit)
             IN [frames |-> Append(a.frames, out), rest |-> v - out * ModUnit],
           [frames |-> << >>, rest |-> dRest], frames)

-----------------------------------------------------------------------------
(* picodata_transformDurations: frames to be changed so that they last      *)
(* target ms.  Factors have ten fractional bits (PICODATA_PRECISION); what  *)
(* a state cannot take is carried to the next one.                          *)
Fine == 1024
Scaled(ms) == ms * (Fine \div FrameMs)

Weighted(frames, weights) == [j \in DOMAIN frames |-> frames[j] * weights[j]]

\* transDurUniform
Uniform(frames, target) ==
  LET fact == DivC(Scaled(target), Total(frames) * FrameMs)
  IN Run(LAMBDA a, n :
                LET rest == a.rest + fact * n
                    out == Byte8(rest \div Fine)
                IN [frames |-> Append(a.frames, out), rest |-> rest - out * Fine],
              [frames |-> << >>, rest |-> 0], frames).frames

\* transDurWeighted
ByWeight(frames, weights, target) ==
  LET sum == Total(Weighted(frames, weights))
      fact == DivC(Scaled(target - Total(frames) * FrameMs), sum)
  IN IF sum = 0 THEN Uniform(frames, target)
     ELSE Run(LAMBDA a, j :
                     LET rest == a.rest + fact * frames[j] * weights[j]
                         moved == frames[j] + (rest \div Fine)
                         out == IF moved < 0 THEN 0 ELSE moved
                     IN [frames |-> Append(a.frames, Byte8(out)), rest |-> rest - (out - frames[j]) * Fine],
                   [frames |-> << >>, rest |-> 0], [j \in DOMAIN frames |-> j]).frames

\* With no factor, as it is called here: the pause is moved between its limits.
InLimits(frames, weights, limits) ==
  LET input == Total(frames) * FrameMs
  IN CASE input < limits[1] -> ByWeight(frames, weights, limits[1])
       [] limits[2] < input -> ByWeight(frames, weights, limits[2])
       [] OTHER             -> frames
=============================================================================
