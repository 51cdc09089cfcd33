----------------------------- MODULE FusionMonitor -----------------------------
(***************************************************************************)
(* PID_Piper::recoveryMonitor, called once per control frame by            *)
(* AC_AttitudeControl::input_euler_angle_roll_pitch_yaw: it selects, per   *)
(* strategy mode, which attitude command reaches the vehicle.              *)
(*                                                                         *)
(* Data abstraction.  The command of an axis is represented by the share   *)
(* of the ML command in it, in steps of 1/Full: 0 is y_PID, Full is y_ML,  *)
(* and NaN or Inf is a command that is not a number or infinite (y_PID is  *)
(* finite: it is converted from the controller's bounded target angles).   *)
(* |y_ML - y_PID| is a natural number of residual units, NaN or Inf.       *)
(***************************************************************************)
EXTENDS GateBuffer

CONSTANTS
    PiperModes,    \* values of the PIPER_MODE parameter (an AP_Int8)
    Residuals,     \* what |y_ML - y_PID| may be in a frame, axis by axis
    threshold,     \* alarm level of each axis (18, 18.09, 18.6 in the code)
    SwitchBack,    \* the 0.1 of checkSwitchControl
    Full,          \* resolution of the gate's alpha
    NaN, Inf,
    MaxFrames      \* bound: number of frames of a behaviour

\* 1, 2, 3 are roll, pitch, yaw: the order in which the code visits them.
Axes == 1 .. 3

ASSUME FusionAssumption ==
    /\ PiperModes \subseteq -128 .. 127
    /\ Residuals \subseteq [Axes -> Nat \cup {NaN, Inf}]
    /\ threshold \in [Axes -> Nat]
    /\ SwitchBack \in Nat
    /\ Full \in Nat \ {0}
    /\ NaN \notin Nat /\ Inf \notin Nat /\ NaN # Inf
    /\ MaxFrames \in Nat

VARIABLES
    strategyMode, recoveryMode,
    delta,         \* cusum accumulators
    residual,      \* |y_ML - y_PID| of the frame
    alpha_gate, y_ML, y_fused,
    selected,      \* the returned command (piper_angles)
    buffer,        \* the three mode-4 gate buffers (function-local statics)
    models,        \* <<mode, axis>> of the gate models loaded so far
    frame,         \* number of frames so far
    lastReset,     \* history: last frame that was not in mode 4
    failed,        \* history: a gate failed since lastReset
    fusion_ready   \* the fusion of this frame succeeded (modes 3 and 4)

vars == <<strategyMode, recoveryMode, delta, residual, alpha_gate, y_ML,
          y_fused, selected, buffer, models, frame, lastReset, failed,
          fusion_ready>>

Num == Nat \cup {NaN, Inf}
Command == 0 .. Full \cup {NaN, Inf}

AllAxes(v) == [a \in Axes |-> v]
Finite(v) == v \notin {NaN, Inf}

\* Type correctness: strategy modes stay in 0 .. 4 for every parameter value,
\* the indices of the ring buffers in range, every command is y_PID, y_ML, a
\* mixture, or not finite.
TypeOK ==
    /\ strategyMode \in 0 .. 4
    /\ recoveryMode \in BOOLEAN
    /\ delta \in [Axes -> Num]
    /\ residual \in [Axes -> Num]
    /\ alpha_gate \in [Axes -> 0 .. Full]
    /\ y_ML \in [Axes -> Command]
    /\ y_fused \in [Axes -> Command]
    /\ selected \in [Axes -> Command]
    /\ buffer \in [Axes -> GateSequenceBuffer]
    /\ models \in SUBSET ({3, 4} \X Axes)
    /\ frame \in Nat
    /\ lastReset \in 0 .. frame
    /\ failed \in BOOLEAN
    /\ fusion_ready \in BOOLEAN

-------------------------------------------------------------------------------
(* Floating-point operations on residuals.                                 *)

Add(x, y) == CASE NaN \in {x, y} -> NaN
               [] NaN \notin {x, y} /\ Inf \in {x, y} -> Inf
               [] OTHER -> x + y

Exceeds(x, limit) == x = Inf \/ (x \in Nat /\ x > limit)

-------------------------------------------------------------------------------
(* The pieces of recoveryMonitor.                                          *)

\* static_cast<uint8_t> of the parameter, then the range check.
setStrategyMode(m) == LET mode == m % 256 IN IF mode <= 4 THEN mode ELSE 0

\* checkSwitchControl's condition: every residual is small (NaN is not).
Quiet(r) == \A a \in Axes : r[a] \in Nat /\ r[a] < SwitchBack

\* Mutant: the accumulators restart when the residuals are small.
cusum_RestartOnQuiet(d, r) ==
    [a \in Axes |-> IF Quiet(r) THEN 0 ELSE Add(d[a], r[a])]

\* cusum with b = 0: residuals are absolute values, so the accumulator never
\* takes the branch that resets it.  NaN fails every comparison.
cusum(d, r) == [a \in Axes |-> Add(d[a], r[a])]

Alarm(d) == \E a \in Axes : Exceeds(d[a], threshold[a])

\* Mutants: the detector's verdict is ignored; recovery is not remembered.
Recovery_NoDetector(rec, d, r) == rec /\ ~Quiet(r)
Recovery_NotKept(rec, d, r) == Alarm(d) /\ ~Quiet(r)

\* recoveryMode after cusum (which may raise it) and, if it is on,
\* checkSwitchControl (which may end it in the same frame).
Recovery(rec, d, r) == (rec \/ Alarm(d)) /\ ~Quiet(r)

\* getEulerAngle: the ML command of a frame with residuals ml.
getEulerAngle(ml) == [a \in Axes |-> IF ml[a] \in Nat THEN Full ELSE ml[a]]

\* y_PID + alpha * (y_ML - y_PID); a non-finite y_ML makes it non-finite for
\* every alpha, 0 included.
Fuse(alpha, yml) == [a \in Axes |-> IF Finite(yml[a]) THEN alpha[a] ELSE NaN]

\* A gate evaluation visits the axes in order and ends at the first failure.
\* fail is that axis, or NoFail when none fails; how is "load" when the model
\* file cannot be loaded (before the row is pushed) and "predict" when
\* inference throws or returns a non-finite alpha (after it).
NoFail == 4

Failures == {"load", "predict"}

Reached(fail, how) == {a \in Axes : a < fail \/ (a = fail /\ how = "predict")}

GateRun(mode, fail, how) ==
    /\ fail = NoFail => how = "load"              \* one representative
    /\ fail # NoFail /\ how = "load" => <<mode, fail>> \notin models
    /\ models' = models \cup ({mode} \X Reached(fail, how))

\* alpha_gate after the run: only the axes before the failing one are set.
GateAlpha(alpha, fail) == [a \in Axes |-> IF a < fail THEN alpha[a] ELSE 0]

\* Mutant: the fused command is not checked for finiteness.
FuseOrFallBack_Unchecked(alpha, fail, yml) ==
    LET ok == fail = NoFail
    IN  /\ fusion_ready' = ok
        /\ y_fused' = IF ok THEN Fuse(alpha, yml) ELSE yml
        /\ selected' = y_fused'

\* The end of modes 3 and 4: the fused command, or y_ML on any failure.
FuseOrFallBack(alpha, fail, yml) ==
    LET fused == Fuse(alpha, yml)
        ok    == fail = NoFail /\ \A a \in Axes : Finite(fused[a])
    IN  /\ fusion_ready' = ok
        /\ y_fused' = IF ok THEN fused ELSE yml
        /\ selected' = IF ok THEN fused ELSE yml

\* What every frame outside mode 4 does first.
reset_mode4_gate_buffers ==
    /\ buffer' = [a \in Axes |-> clear(buffer[a])]
    /\ lastReset' = frame + 1
    /\ failed' = FALSE

\* predict_lstm_gate_alpha: push the row of every reached axis; its alpha is 0
\* until the window is full, then what the model answers.
LstmAlpha(raw, buf) == [a \in Axes |-> IF ready(buf[a]) THEN raw[a] ELSE 0]

PushReached(fail, how) ==
    [a \in Axes |-> IF a \in Reached(fail, how) THEN push(buffer[a], frame + 1)
                    ELSE buffer[a]]

-------------------------------------------------------------------------------
(* One action per strategy mode; m is the parameter value of the frame.    *)

StartFrame(m, mode) ==
    /\ frame < MaxFrames
    /\ setStrategyMode(m) = mode
    /\ strategyMode' = mode
    /\ frame' = frame + 1

PurePid(m) ==
    /\ StartFrame(m, 0)
    /\ reset_mode4_gate_buffers
    /\ recoveryMode' = FALSE
    /\ y_ML' = AllAxes(0) /\ y_fused' = AllAxes(0) /\ selected' = AllAxes(0)
    /\ residual' = AllAxes(0)
    /\ alpha_gate' = AllAxes(0)
    /\ fusion_ready' = FALSE
    /\ UNCHANGED <<delta, models>>

OriginalMl(m, ml) ==
    /\ StartFrame(m, 1)
    /\ reset_mode4_gate_buffers
    /\ recoveryMode' = TRUE
    /\ residual' = ml
    /\ y_ML' = getEulerAngle(ml)
    /\ y_fused' = y_ML' /\ selected' = y_ML'
    /\ alpha_gate' = AllAxes(0)
    /\ fusion_ready' = FALSE
    /\ UNCHANGED <<delta, models>>

HardSwitch(m, ml) ==
    /\ StartFrame(m, 2)
    /\ reset_mode4_gate_buffers
    /\ residual' = ml
    /\ y_ML' = getEulerAngle(ml)
    /\ delta' = cusum(delta, ml)
    /\ recoveryMode' = Recovery(recoveryMode, delta', ml)
    /\ selected' = IF recoveryMode' THEN y_ML' ELSE AllAxes(0)
    /\ y_fused' = selected'
    /\ alpha_gate' = AllAxes(0)
    /\ fusion_ready' = FALSE
    /\ UNCHANGED models

GateFusion(m, ml) ==
    /\ StartFrame(m, 3)
    /\ reset_mode4_gate_buffers
    /\ recoveryMode' = TRUE
    /\ residual' = ml
    /\ y_ML' = getEulerAngle(ml)
    /\ \E raw \in [Axes -> 0 .. Full], fail \in 1 .. NoFail, how \in Failures :
        /\ GateRun(3, fail, how)
        /\ alpha_gate' = GateAlpha(raw, fail)
        /\ FuseOrFallBack(alpha_gate', fail, y_ML')
    /\ UNCHANGED delta

LstmGateFusion(m, ml) ==
    /\ StartFrame(m, 4)
    /\ recoveryMode' = TRUE
    /\ residual' = ml
    /\ y_ML' = getEulerAngle(ml)
    /\ \E raw \in [Axes -> 0 .. Full], fail \in 1 .. NoFail, how \in Failures :
        /\ GateRun(4, fail, how)
        /\ buffer' = PushReached(fail, how)
        /\ fail # NoFail /\ how = "predict" => ready(buffer'[fail])
        /\ alpha_gate' = GateAlpha(LstmAlpha(raw, buffer'), fail)
        /\ FuseOrFallBack(alpha_gate', fail, y_ML')
        /\ failed' = (failed \/ fail # NoFail)
    /\ UNCHANGED <<delta, lastReset>>

Init ==
    /\ strategyMode = 0 /\ recoveryMode = FALSE
    /\ delta = AllAxes(0) /\ residual = AllAxes(0)
    /\ alpha_gate = AllAxes(0)
    /\ y_ML = AllAxes(0) /\ y_fused = AllAxes(0) /\ selected = AllAxes(0)
    /\ buffer = AllAxes(NewBuffer)
    /\ models = {}
    /\ frame = 0 /\ lastReset = 0 /\ failed = FALSE /\ fusion_ready = FALSE

Next ==
    \E m \in PiperModes :
        \/ PurePid(m)
        \/ \E ml \in Residuals :
            \/ OriginalMl(m, ml)
            \/ HardSwitch(m, ml)
            \/ GateFusion(m, ml)
            \/ LstmGateFusion(m, ml)

Spec == Init /\ [][Next]_vars

-------------------------------------------------------------------------------
(* Properties.                                                             *)

\* The ring buffers deliver what SlidingWindow promises, across wrap-around,
\* mode switches that clear the indices but not the rows, and gate failures
\* between the pushes of two axes (GateSequenceBuffer, recoveryMonitor).
Windows == INSTANCE SlidingWindow
              WITH window <- [a \in Axes |-> Contents(buffer[a])]
GateWindows == Windows!Spec

\* While no gate has failed since mode 4 was entered, every axis that is ready
\* hands its gate exactly the last SeqLen consecutive control frames, the
\* current one included, and the three axes are ready at the same time
\* (predict_lstm_gate_alpha).
WindowsAligned ==
    strategyMode = 4 /\ ~failed =>
        \A a \in Axes :
            /\ ready(buffer[a]) <=> frame - lastReset >= SeqLen
            /\ ready(buffer[a]) => to_tensor_values(buffer[a]) =
                    [i \in 1 .. SeqLen |-> frame - SeqLen + i]

\* In mode 4 a fused command holds a part of the ML command only if that axis
\* has a full window and none of its rows dates from before the last frame
\* outside mode 4: rows left behind by clear() never reach a gate.
MlShareNeedsFullWindow ==
    strategyMode = 4 /\ fusion_ready =>
        \A a \in Axes : selected[a] # 0 =>
            /\ ready(buffer[a])
            /\ \A i \in Slots : buffer[a].rows[i] > lastReset

\* A fused command is finite on every axis; a frame whose ML command is not
\* finite on some axis is never fused (the isfinite checks of modes 3 and 4).
FusedIsFinite ==
    fusion_ready => \A a \in Axes : Finite(selected[a]) /\ Finite(y_ML[a])

\* In mode 2, once an axis has crossed its threshold, the PID command is only
\* applied in a frame whose three residuals are all small: the crossing is
\* remembered by delta, not by recoveryMode (cusum, checkSwitchControl).
AlarmSelectsMl ==
    strategyMode = 2 /\ Alarm(delta) /\ ~Quiet(residual) => selected = y_ML

\* Recovery ends only in pure PID mode, or in mode 2 in a frame whose three
\* residuals are all small: no other mode and no NaN ends it.
RecoveryEndsQuietly ==
    [][recoveryMode /\ ~recoveryMode' =>
          strategyMode' = 0 \/ (strategyMode' = 2 /\ Quiet(residual'))]_vars

\* x <= y for accumulator values, with NaN above everything.
NotAbove(x, y) ==
    \/ y = NaN
    \/ x # NaN /\ y = Inf
    \/ x \in Nat /\ y \in Nat /\ x <= y

\* No accumulator is ever reset or decreases, below its threshold or above it:
\* a mode change, the end of a recovery or a quiet frame does not restart the
\* detector.  An accumulator becomes NaN only in a mode-2 frame whose residual
\* is NaN, and then it is NaN for good (cusum, delta in recoveryMonitor).
DetectorNeverResets ==
    [][\A a \in Axes :
          /\ NotAbove(delta[a], delta'[a])
          /\ delta'[a] = NaN /\ delta[a] # NaN =>
                strategyMode' = 2 /\ residual'[a] = NaN]_vars
===============================================================================
