-------------------------- MODULE FusionMonitorProofs --------------------------
(***************************************************************************)
(* Proofs about the mode selector, for every window length, threshold,     *)
(* parameter value and number of frames.                                   *)
(***************************************************************************)
EXTENDS FusionMonitor, SequenceTheorems, TLAPS

-------------------------------------------------------------------------------
(* The gate buffer.                                                        *)

\* The index of the slot after the newest row, without the modulo.
LEMMA WrapAround ==
    ASSUME NEW x \in 0 .. 2 * SeqLen - 1
    PROVE  x % SeqLen = IF x < SeqLen THEN x ELSE x - SeqLen
<1>1. CASE x < SeqLen
  BY <1>1, SeqLenAssumption
<1>2. CASE x >= SeqLen
  BY <1>2, SeqLenAssumption
<1>3. QED
  BY <1>1, <1>2, SeqLenAssumption

\* push() keeps a buffer a buffer.
LEMMA PushType ==
    ASSUME NEW b \in GateSequenceBuffer, NEW row \in Nat
    PROVE  push(b, row) \in GateSequenceBuffer
<1>1. (b.next + 1) % SeqLen \in Slots
  <2>1. b.next + 1 \in 0 .. 2 * SeqLen - 1
    BY SeqLenAssumption DEF GateSequenceBuffer, Slots
  <2>2. \A x \in 0 .. 2 * SeqLen - 1 : x % SeqLen \in 0 .. SeqLen - 1
    <3>1. TAKE x \in 0 .. 2 * SeqLen - 1
    <3>2. x % SeqLen = IF x < SeqLen THEN x ELSE x - SeqLen
      BY WrapAround
    <3>3. QED
      BY <3>2, SeqLenAssumption
  <2>3. QED
    BY <2>1, <2>2 DEF Slots
<1>2. QED
  BY <1>1, SeqLenAssumption DEF GateSequenceBuffer, push, Slots

\* clear() keeps a buffer a buffer.
LEMMA ClearType ==
    ASSUME NEW b \in GateSequenceBuffer
    PROVE  clear(b) \in GateSequenceBuffer
  BY SeqLenAssumption DEF GateSequenceBuffer, clear, Slots

-------------------------------------------------------------------------------
(* Type correctness.                                                       *)

\* The stored mode is one of the five the code handles.
LEMMA ModeType ==
    ASSUME NEW m \in PiperModes
    PROVE  setStrategyMode(m) \in 0 .. 4
  BY FusionAssumption DEF setStrategyMode

\* The ML command of a frame is a command.
LEMMA MlType ==
    ASSUME NEW ml \in Residuals
    PROVE  /\ ml \in [Axes -> Num]
           /\ getEulerAngle(ml) \in [Axes -> Command]
<1>1. ml \in [Axes -> Num] /\ \A a \in Axes : ml[a] \in Num
  BY FusionAssumption DEF Num
<1>2. Full \in Command
  BY FusionAssumption DEF Command
<1>3. \A a \in Axes : ml[a] \notin Nat => ml[a] \in Command
  BY <1>1 DEF Num, Command
<1>4. QED
  BY <1>1, <1>2, <1>3 DEF getEulerAngle

\* The pure PID command is a command.
LEMMA ZeroType ==
    /\ AllAxes(0) \in [Axes -> Command]
    /\ AllAxes(0) \in [Axes -> 0 .. Full]
    /\ AllAxes(0) \in [Axes -> Num]
  BY FusionAssumption DEF AllAxes, Command, Num

\* The cusum accumulators stay numbers, NaN or Inf.
LEMMA CusumType ==
    ASSUME NEW d \in [Axes -> Num], NEW r \in [Axes -> Num]
    PROVE  cusum(d, r) \in [Axes -> Num]
<1>1. ASSUME NEW x \in Num, NEW y \in Num
      PROVE  Add(x, y) \in Num
  <2>1. CASE NaN \in {x, y}
    BY <2>1 DEF Add, Num
  <2>2. CASE NaN \notin {x, y} /\ Inf \in {x, y}
    BY <2>2 DEF Add, Num
  <2>3. CASE NaN \notin {x, y} /\ Inf \notin {x, y}
    <3>1. x \in Nat /\ y \in Nat
      BY <2>3 DEF Num
    <3>2. Add(x, y) = x + y
      BY <2>3 DEF Add
    <3>3. QED
      BY <3>1, <3>2 DEF Num
  <2>4. QED
    BY <2>1, <2>2, <2>3
<1>2. QED
  BY <1>1 DEF cusum

\* Clearing or pushing keeps the three buffers well formed.
LEMMA BuffersType ==
    ASSUME buffer \in [Axes -> GateSequenceBuffer], frame \in Nat,
           NEW fail, NEW how
    PROVE  /\ [a \in Axes |-> clear(buffer[a])] \in [Axes -> GateSequenceBuffer]
           /\ PushReached(fail, how) \in [Axes -> GateSequenceBuffer]
<1>1. frame + 1 \in Nat
  OBVIOUS
<1>2. \A a \in Axes : push(buffer[a], frame + 1) \in GateSequenceBuffer
  BY <1>1, PushType
<1>3. \A a \in Axes : clear(buffer[a]) \in GateSequenceBuffer
  BY ClearType
<1>4. QED
  BY <1>2, <1>3 DEF PushReached

\* The end of a fusion frame selects a command, and marks it fused only if
\* every axis of the result and of the ML command is finite.
LEMMA FusionType ==
    ASSUME NEW alpha \in [Axes -> 0 .. Full], NEW fail \in 1 .. NoFail,
           NEW yml \in [Axes -> Command], FuseOrFallBack(alpha, fail, yml)
    PROVE  /\ y_fused' \in [Axes -> Command]
           /\ selected' \in [Axes -> Command]
           /\ fusion_ready' \in BOOLEAN
           /\ fusion_ready' => \A a \in Axes : /\ Finite(selected'[a])
                                              /\ Finite(yml[a])
<1>1. Fuse(alpha, yml) \in [Axes -> Command]
  BY DEF Fuse, Command
<1>2. ASSUME NEW a \in Axes, Finite(Fuse(alpha, yml)[a])
      PROVE  Finite(yml[a])
  BY <1>2 DEF Fuse, Finite
<1>3. QED
  BY <1>1, <1>2 DEF FuseOrFallBack

\* The gate weights of a frame are in range, whatever axis failed.
LEMMA AlphaType ==
    ASSUME NEW raw \in [Axes -> 0 .. Full], NEW fail \in 1 .. NoFail, NEW buf
    PROVE  /\ GateAlpha(raw, fail) \in [Axes -> 0 .. Full]
           /\ GateAlpha(LstmAlpha(raw, buf), fail) \in [Axes -> 0 .. Full]
  BY FusionAssumption DEF GateAlpha, LstmAlpha

\* Invariant of the frame result, proved together with the types: the fused
\* command is finite.
SafeFrame == TypeOK /\ FusedIsFinite

\* Every frame keeps the state well typed and its fused command finite.
LEMMA FrameStep == SafeFrame /\ [Next]_vars => SafeFrame'
<1> SUFFICES ASSUME SafeFrame, [Next]_vars
             PROVE  SafeFrame'
  OBVIOUS
<1> USE DEF SafeFrame
<1>0. /\ frame + 1 \in Nat
      /\ \A f \in Nat : 0 .. f \subseteq Nat
  BY DEF TypeOK
<1>1. CASE UNCHANGED vars
  BY <1>1 DEF TypeOK, FusedIsFinite, vars
<1>2. ASSUME NEW m \in PiperModes, PurePid(m)
      PROVE  SafeFrame'
  <2>1. buffer' \in [Axes -> GateSequenceBuffer]
    BY <1>2, BuffersType DEF TypeOK, PurePid, reset_mode4_gate_buffers
  <2>2. /\ strategyMode' \in 0 .. 4
        /\ frame' \in Nat
        /\ lastReset' \in 0 .. frame'
    BY <1>2, ModeType, <1>0 DEF TypeOK, PurePid, StartFrame,
       reset_mode4_gate_buffers
  <2>3. QED
    BY <1>2, <2>1, <2>2, ZeroType DEF TypeOK, FusedIsFinite, PurePid,
       StartFrame, reset_mode4_gate_buffers
<1>3. ASSUME NEW m \in PiperModes, NEW ml \in Residuals,
             OriginalMl(m, ml)
      PROVE  SafeFrame'
  <2>1. buffer' \in [Axes -> GateSequenceBuffer]
    BY <1>3, BuffersType DEF TypeOK, OriginalMl, reset_mode4_gate_buffers
  <2>2. /\ strategyMode' \in 0 .. 4
        /\ frame' \in Nat
        /\ lastReset' \in 0 .. frame'
    BY <1>3, ModeType, <1>0 DEF TypeOK, OriginalMl, StartFrame,
       reset_mode4_gate_buffers
  <2>3. QED
    BY <1>3, <2>1, <2>2, ZeroType, MlType DEF TypeOK, FusedIsFinite,
       OriginalMl, StartFrame, reset_mode4_gate_buffers
<1>4. ASSUME NEW m \in PiperModes, NEW ml \in Residuals,
             HardSwitch(m, ml)
      PROVE  SafeFrame'
  <2>1. buffer' \in [Axes -> GateSequenceBuffer]
    BY <1>4, BuffersType DEF TypeOK, HardSwitch, reset_mode4_gate_buffers
  <2>2. /\ strategyMode' \in 0 .. 4
        /\ frame' \in Nat
        /\ lastReset' \in 0 .. frame'
    BY <1>4, ModeType, <1>0 DEF TypeOK, HardSwitch, StartFrame,
       reset_mode4_gate_buffers
  <2>3. delta' \in [Axes -> Num]
    BY <1>4, MlType, CusumType DEF TypeOK, HardSwitch
  <2>4. recoveryMode' \in BOOLEAN
    BY <1>4 DEF TypeOK, HardSwitch, Recovery
  <2>5. QED
    BY <1>4, <2>1, <2>2, <2>3, <2>4, ZeroType, MlType DEF TypeOK,
       FusedIsFinite, HardSwitch, StartFrame, reset_mode4_gate_buffers
<1>5. ASSUME NEW m \in PiperModes, NEW ml \in Residuals,
             GateFusion(m, ml)
      PROVE  SafeFrame'
  <2>1. buffer' \in [Axes -> GateSequenceBuffer]
    BY <1>5, BuffersType DEF TypeOK, GateFusion, reset_mode4_gate_buffers
  <2>2. /\ strategyMode' \in 0 .. 4
        /\ frame' \in Nat
        /\ lastReset' \in 0 .. frame'
    BY <1>5, ModeType, <1>0 DEF TypeOK, GateFusion, StartFrame,
       reset_mode4_gate_buffers
  <2>3. PICK raw \in [Axes -> 0 .. Full], fail \in 1 .. NoFail,
             how \in Failures :
               /\ GateRun(3, fail, how)
               /\ alpha_gate' = GateAlpha(raw, fail)
               /\ FuseOrFallBack(alpha_gate', fail, y_ML')
    BY <1>5 DEF GateFusion
  <2>4. alpha_gate' \in [Axes -> 0 .. Full] /\ y_ML' \in [Axes -> Command]
    BY <1>5, <2>3, AlphaType, MlType DEF GateFusion
  <2>5. models' \in SUBSET ({3, 4} \X Axes)
    BY <2>3 DEF TypeOK, GateRun, Reached
  <2>6. /\ y_fused' \in [Axes -> Command]
        /\ selected' \in [Axes -> Command]
        /\ fusion_ready' \in BOOLEAN
        /\ FusedIsFinite'
    BY <2>3, <2>4, FusionType DEF FusedIsFinite
  <2>7. QED
    BY <1>5, <2>1, <2>2, <2>4, <2>5, <2>6, MlType DEF TypeOK, GateFusion,
       StartFrame, reset_mode4_gate_buffers
<1>6. ASSUME NEW m \in PiperModes, NEW ml \in Residuals,
             LstmGateFusion(m, ml)
      PROVE  SafeFrame'
  <2>1. PICK raw \in [Axes -> 0 .. Full], fail \in 1 .. NoFail,
             how \in Failures :
               /\ GateRun(4, fail, how)
               /\ buffer' = PushReached(fail, how)
               /\ alpha_gate' = GateAlpha(LstmAlpha(raw, buffer'), fail)
               /\ FuseOrFallBack(alpha_gate', fail, y_ML')
               /\ failed' = (failed \/ fail # NoFail)
    BY <1>6 DEF LstmGateFusion
  <2>2. buffer' \in [Axes -> GateSequenceBuffer]
    BY <2>1, BuffersType DEF TypeOK
  <2>3. /\ strategyMode' \in 0 .. 4
        /\ frame' \in Nat
        /\ lastReset' \in 0 .. frame'
    BY <1>6, ModeType, <1>0 DEF TypeOK, LstmGateFusion, StartFrame
  <2>4. alpha_gate' \in [Axes -> 0 .. Full] /\ y_ML' \in [Axes -> Command]
    BY <1>6, <2>1, AlphaType, MlType DEF LstmGateFusion
  <2>5. models' \in SUBSET ({3, 4} \X Axes)
    BY <2>1 DEF TypeOK, GateRun, Reached
  <2>6. /\ y_fused' \in [Axes -> Command]
        /\ selected' \in [Axes -> Command]
        /\ fusion_ready' \in BOOLEAN
        /\ FusedIsFinite'
    BY <2>1, <2>4, FusionType DEF FusedIsFinite
  <2>7. QED
    BY <1>6, <2>1, <2>2, <2>3, <2>4, <2>5, <2>6, MlType DEF TypeOK,
       LstmGateFusion, StartFrame
<1>7. QED
  BY <1>1, <1>2, <1>3, <1>4, <1>5, <1>6 DEF Next

\* The initial state is well typed.
LEMMA FrameInit == Init => SafeFrame
<1> SUFFICES ASSUME Init PROVE SafeFrame
  OBVIOUS
<1>1. AllAxes(NewBuffer) \in [Axes -> GateSequenceBuffer]
  BY SeqLenAssumption DEF AllAxes, NewBuffer, GateSequenceBuffer, Slots
<1>2. FusedIsFinite
  BY DEF FusedIsFinite, Init
<1>3. TypeOK
  <2>1. /\ delta \in [Axes -> Num] /\ residual \in [Axes -> Num]
        /\ alpha_gate \in [Axes -> 0 .. Full]
        /\ y_ML \in [Axes -> Command] /\ y_fused \in [Axes -> Command]
        /\ selected \in [Axes -> Command]
    BY ZeroType DEF Init
  <2>2. /\ strategyMode \in 0 .. 4 /\ frame \in Nat /\ lastReset \in 0 .. frame
        /\ models \in SUBSET ({3, 4} \X Axes)
    BY DEF Init
  <2>3. /\ recoveryMode \in BOOLEAN /\ failed \in BOOLEAN
        /\ fusion_ready \in BOOLEAN
    BY DEF Init
  <2>4. buffer \in [Axes -> GateSequenceBuffer]
    BY <1>1 DEF Init
  <2>5. QED
    BY <2>1, <2>2, <2>3, <2>4 DEF TypeOK
<1>4. QED
  BY <1>2, <1>3 DEF SafeFrame

\* The state of the mode selector keeps its type in every frame, for every
\* window length, threshold and parameter value.
THEOREM TypeCorrect == Spec => []TypeOK
<1>1. Spec => []SafeFrame
  BY FrameInit, FrameStep, PTL DEF Spec
<1>2. SafeFrame => TypeOK
  BY DEF SafeFrame
<1>3. QED
  BY <1>1, <1>2, PTL

\* No fused command is ever non-finite, and no frame with a non-finite ML
\* command is fused.
THEOREM FusedFinite == Spec => []FusedIsFinite
<1>1. Spec => []SafeFrame
  BY FrameInit, FrameStep, PTL DEF Spec
<1>2. SafeFrame => FusedIsFinite
  BY DEF SafeFrame
<1>3. QED
  BY <1>1, <1>2, PTL

-------------------------------------------------------------------------------
(* The residual detector of mode 2.                                        *)

\* Recovery ends only in pure PID mode or in a quiet mode-2 frame.
THEOREM RecoveryEnds == Spec => RecoveryEndsQuietly
<1>1. TypeOK /\ [Next]_vars =>
        [recoveryMode /\ ~recoveryMode' =>
            strategyMode' = 0 \/ (strategyMode' = 2 /\ Quiet(residual'))]_vars
  <2> SUFFICES ASSUME TypeOK, [Next]_vars, ~UNCHANGED vars,
                      recoveryMode, ~recoveryMode'
               PROVE  strategyMode' = 0 \/ (strategyMode' = 2 /\ Quiet(residual'))
    OBVIOUS
  <2>1. ASSUME NEW m \in PiperModes, PurePid(m)
        PROVE  strategyMode' = 0
    BY <2>1 DEF PurePid, StartFrame
  <2>2. ASSUME NEW m \in PiperModes, NEW ml \in Residuals,
               OriginalMl(m, ml) \/ GateFusion(m, ml) \/ LstmGateFusion(m, ml)
        PROVE  FALSE
    BY <2>2 DEF OriginalMl, GateFusion, LstmGateFusion
  <2>3. ASSUME NEW m \in PiperModes, NEW ml \in Residuals,
               HardSwitch(m, ml)
        PROVE  strategyMode' = 2 /\ Quiet(residual')
    BY <2>3 DEF HardSwitch, StartFrame, Recovery
  <2>4. QED
    BY <2>1, <2>2, <2>3 DEF Next
<1>2. QED
  BY <1>1, TypeCorrect, PTL DEF Spec, RecoveryEndsQuietly

\* A step does not lower an accumulator, and makes it NaN only in a mode-2
\* frame with a NaN residual.
LEMMA DetectorStep ==
    ASSUME TypeOK, [Next]_vars, NEW a \in Axes
    PROVE  /\ NotAbove(delta[a], delta'[a])
           /\ delta'[a] = NaN /\ delta[a] # NaN =>
                 strategyMode' = 2 /\ residual'[a] = NaN
<1>1. delta[a] \in Num
  BY DEF TypeOK
<1>2. CASE delta' = delta
  BY <1>1, <1>2, FusionAssumption DEF NotAbove, Num
<1>3. ASSUME NEW m \in PiperModes, NEW ml \in Residuals,
             HardSwitch(m, ml)
      PROVE  /\ NotAbove(delta[a], delta'[a])
             /\ delta'[a] = NaN /\ delta[a] # NaN =>
                   strategyMode' = 2 /\ residual'[a] = NaN
  <2>1. /\ delta'[a] = Add(delta[a], ml[a])
        /\ residual'[a] = ml[a] /\ strategyMode' = 2
    BY <1>3 DEF HardSwitch, StartFrame, cusum
  <2>2. ml[a] \in Num
    BY MlType
  <2>3. CASE delta[a] = NaN \/ ml[a] = NaN
    BY <2>1, <2>3 DEF Add, NotAbove
  <2>4. CASE delta[a] # NaN /\ ml[a] # NaN /\ (delta[a] = Inf \/ ml[a] = Inf)
    BY <2>1, <2>4, FusionAssumption DEF Add, NotAbove
  <2>5. CASE delta[a] \in Nat /\ ml[a] \in Nat
    <3>1. delta'[a] = delta[a] + ml[a]
      BY <2>1, <2>5, FusionAssumption DEF Add
    <3>2. QED
      BY <2>5, <3>1, FusionAssumption DEF NotAbove
  <2>6. QED
    BY <1>1, <2>2, <2>3, <2>4, <2>5 DEF Num
<1>4. QED
  BY <1>2, <1>3 DEF Next, PurePid, OriginalMl, GateFusion, LstmGateFusion, vars

\* No mode change, quiet frame or end of a recovery lowers an accumulator of
\* the detector, and only a NaN residual in mode 2 makes one NaN, for good.
THEOREM DetectorLatched == Spec => DetectorNeverResets
<1>1. TypeOK /\ [Next]_vars =>
        [\A a \in Axes :
          /\ NotAbove(delta[a], delta'[a])
          /\ delta'[a] = NaN /\ delta[a] # NaN =>
                strategyMode' = 2 /\ residual'[a] = NaN]_vars
  BY DetectorStep
<1>2. QED
  BY <1>1, TypeCorrect, PTL DEF Spec, DetectorNeverResets

\* In mode 2 a crossed threshold selects the ML command in every frame that
\* is not quiet.
THEOREM AlarmSelects == Spec => []AlarmSelectsMl
<1>1. Init => AlarmSelectsMl
  BY DEF Init, AlarmSelectsMl
<1>2. AlarmSelectsMl /\ [Next]_vars => AlarmSelectsMl'
  <2> SUFFICES ASSUME AlarmSelectsMl, [Next]_vars
               PROVE  AlarmSelectsMl'
    OBVIOUS
  <2>1. CASE UNCHANGED vars
    BY <2>1 DEF AlarmSelectsMl, vars, Alarm, Quiet
  <2>2. ASSUME NEW m \in PiperModes, NEW ml \in Residuals,
               \/ PurePid(m) \/ OriginalMl(m, ml)
               \/ GateFusion(m, ml) \/ LstmGateFusion(m, ml)
        PROVE  strategyMode' # 2
    BY <2>2 DEF PurePid, OriginalMl, GateFusion, LstmGateFusion, StartFrame
  <2>3. ASSUME NEW m \in PiperModes, PurePid(m)
        PROVE  strategyMode' # 2
    BY <2>3 DEF PurePid, StartFrame
  <2>4. ASSUME NEW m \in PiperModes, NEW ml \in Residuals,
               HardSwitch(m, ml)
        PROVE  AlarmSelectsMl'
    <3>1. Alarm(delta)' /\ ~Quiet(residual)' => recoveryMode'
      BY <2>4 DEF HardSwitch, Recovery, Alarm, Quiet
    <3>2. QED
      BY <2>4, <3>1 DEF HardSwitch, AlarmSelectsMl
  <2>5. QED
    BY <2>1, <2>2, <2>3, <2>4 DEF Next, AlarmSelectsMl
<1>3. QED
  BY <1>1, <1>2, PTL DEF Spec

-------------------------------------------------------------------------------
(* The windows of mode 4.  RingInv is the inductive strengthening of       *)
(* WindowsAligned and MlShareNeedsFullWindow: it says which frame every    *)
(* slot holds, without the modulo of the index arithmetic.                 *)

\* While the ring fills, the write index is the row count.
FillsInOrder(b) == b.count < SeqLen => b.next = b.count

\* The rows counted since the last clear are younger than it.
FreshRows(b) == \A i \in Slots : i < b.count => b.rows[i] > lastReset

\* The slots hold consecutive frames that end with the current one.
Consecutive(b) ==
    /\ frame - lastReset < SeqLen =>
          /\ b.count = frame - lastReset
          /\ \A i \in Slots : i < b.count => b.rows[i] = lastReset + 1 + i
    /\ frame - lastReset >= SeqLen =>
          /\ b.count = SeqLen
          /\ \A i \in Slots :
                b.rows[i] = IF i < b.next THEN frame - b.next + 1 + i
                            ELSE frame - SeqLen + 1 + (i - b.next)

RingInv ==
    /\ \A a \in Axes : FillsInOrder(buffer[a]) /\ FreshRows(buffer[a])
    /\ ~failed => \A a \in Axes : Consecutive(buffer[a])
    /\ strategyMode = 4 /\ fusion_ready =>
          \A a \in Axes : selected[a] # 0 => ready(buffer[a])

\* The next index, without the modulo.
LEMMA NextIndex ==
    ASSUME NEW b \in GateSequenceBuffer
    PROVE  (b.next + 1) % SeqLen = IF b.next + 1 = SeqLen THEN 0 ELSE b.next + 1
<1>1. b.next + 1 \in 0 .. 2 * SeqLen - 1 /\ b.next + 1 <= SeqLen
  BY SeqLenAssumption DEF GateSequenceBuffer, Slots
<1>2. QED
  BY <1>1, WrapAround, SeqLenAssumption

\* Pushing the row of the new frame keeps the order, the freshness and, if
\* every axis is reached, the consecutiveness of the rows.
LEMMA PushKeepsRing ==
    ASSUME TypeOK, NEW b \in GateSequenceBuffer, frame' = frame + 1,
           lastReset' = lastReset, FillsInOrder(b), FreshRows(b)
    PROVE  LET c == push(b, frame + 1)
           IN  /\ FillsInOrder(c)
               /\ \A i \in Slots : i < c.count => c.rows[i] > lastReset'
               /\ Consecutive(b) =>
                    /\ frame' - lastReset' < SeqLen =>
                        /\ c.count = frame' - lastReset'
                        /\ \A i \in Slots : i < c.count =>
                              c.rows[i] = lastReset' + 1 + i
                    /\ frame' - lastReset' >= SeqLen =>
                        /\ c.count = SeqLen
                        /\ \A i \in Slots :
                              c.rows[i] = IF i < c.next
                                          THEN frame' - c.next + 1 + i
                                          ELSE frame' - SeqLen + 1 + (i - c.next)
<1> DEFINE c == push(b, frame + 1)
<1>1. /\ frame \in Nat /\ lastReset \in 0 .. frame /\ SeqLen \in Nat \ {0}
      /\ b.count \in 0 .. SeqLen /\ b.next \in Slots /\ b.rows \in [Slots -> Nat]
  BY SeqLenAssumption DEF TypeOK, GateSequenceBuffer
<1>2. /\ \A i \in Slots : c.rows[i] = IF i = b.next THEN frame + 1
                                      ELSE b.rows[i]
      /\ c.count = IF b.count < SeqLen THEN b.count + 1 ELSE b.count
      /\ c.next = IF b.next + 1 = SeqLen THEN 0 ELSE b.next + 1
  BY <1>1, NextIndex DEF push
<1>a. frame' = frame + 1 /\ lastReset' = lastReset
  OBVIOUS
<1> HIDE DEF c
<1>3. FillsInOrder(c)
  BY <1>1, <1>2 DEF FillsInOrder, Slots
<1>4. ASSUME NEW i \in Slots, i < c.count
      PROVE  c.rows[i] > lastReset'
  <2>1. CASE i = b.next
    BY <1>1, <1>2, <1>a, <2>1
  <2>2. CASE i # b.next
    <3>1. i < b.count
      BY <1>1, <1>2, <1>4, <2>2 DEF FillsInOrder, Slots
    <3>2. QED
      BY <1>1, <1>2, <1>a, <2>2, <3>1 DEF FreshRows
  <2>3. QED
    BY <2>1, <2>2
<1>5. ASSUME Consecutive(b), frame' - lastReset' < SeqLen
      PROVE  /\ c.count = frame' - lastReset'
             /\ \A i \in Slots : i < c.count => c.rows[i] = lastReset' + 1 + i
  <2>1. /\ b.count = frame - lastReset /\ b.next = b.count
        /\ \A i \in Slots : i < b.count => b.rows[i] = lastReset + 1 + i
    BY <1>1, <1>a, <1>5 DEF FillsInOrder, Consecutive
  <2>2. c.count = frame' - lastReset'
    BY <1>1, <1>2, <1>a, <1>5, <2>1
  <2>3. ASSUME NEW i \in Slots, i < c.count
        PROVE  c.rows[i] = lastReset' + 1 + i
    <3>1. i \in 0 .. SeqLen - 1 /\ i <= b.next
      BY <1>1, <1>2, <2>1, <2>3 DEF Slots
    <3>2. CASE i = b.next
      BY <1>1, <1>2, <1>a, <2>1, <3>2
    <3>3. CASE i # b.next
      <4>1. b.rows[i] = lastReset + 1 + i
        BY <1>1, <2>1, <3>1, <3>3 DEF Slots
      <4>2. QED
        BY <1>2, <1>a, <3>3, <4>1
    <3>4. QED
      BY <3>2, <3>3
  <2>4. QED
    BY <2>2, <2>3
<1>6. ASSUME Consecutive(b), frame' - lastReset' >= SeqLen
      PROVE  /\ c.count = SeqLen
             /\ \A i \in Slots :
                   c.rows[i] = IF i < c.next THEN frame' - c.next + 1 + i
                               ELSE frame' - SeqLen + 1 + (i - c.next)
  <2>1. CASE frame - lastReset < SeqLen
    <3>1. b.count = SeqLen - 1 /\ b.next = SeqLen - 1
      BY <1>1, <1>a, <1>6, <2>1 DEF FillsInOrder, Consecutive
    <3>2. c.next = 0 /\ c.count = SeqLen
      BY <1>1, <1>2, <3>1
    <3>3. ASSUME NEW i \in Slots
          PROVE  c.rows[i] = lastReset + 1 + i
      <4>1. i \in 0 .. SeqLen - 1
        BY DEF Slots
      <4>2. CASE i = b.next
        BY <1>1, <1>2, <1>a, <1>6, <2>1, <3>1, <4>2
      <4>3. CASE i # b.next
        <5>1. b.rows[i] = lastReset + 1 + i
          BY <1>1, <1>6, <2>1, <3>1, <4>1, <4>3 DEF Consecutive
        <5>2. QED
          BY <1>2, <4>3, <5>1
      <4>4. QED
        BY <4>2, <4>3
    <3>4. frame = lastReset + SeqLen - 1
      BY <1>1, <1>a, <1>6, <2>1
    <3>5. ASSUME NEW i \in Slots
          PROVE  /\ ~(i < c.next)
                 /\ lastReset + 1 + i = frame' - SeqLen + 1 + (i - c.next)
      <4>1. i \in 0 .. SeqLen - 1
        BY DEF Slots
      <4>2. QED
        BY <1>1, <1>a, <3>2, <3>4, <4>1
    <3>6. QED
      BY <3>2, <3>3, <3>5
  <2>2. CASE frame - lastReset >= SeqLen
    <3>1. c.count = SeqLen
      BY <1>1, <1>2, <1>6, <2>2 DEF Consecutive
    <3>2. ASSUME NEW i \in Slots
          PROVE  c.rows[i] = IF i < c.next THEN frame' - c.next + 1 + i
                             ELSE frame' - SeqLen + 1 + (i - c.next)
      <4>1. b.rows[i] = IF i < b.next THEN frame - b.next + 1 + i
                        ELSE frame - SeqLen + 1 + (i - b.next)
        BY <1>6, <2>2 DEF Consecutive
      <4>2. i \in 0 .. SeqLen - 1 /\ b.next \in 0 .. SeqLen - 1
        BY <1>1 DEF Slots
      <4>3. QED
        BY <1>1, <1>2, <1>a, <4>1, <4>2
    <3>3. QED
      BY <3>1, <3>2
  <2>3. QED
    BY <1>1, <2>1, <2>2
<1>7. QED
  BY <1>3, <1>4, <1>5, <1>6 DEF c

\* A frame outside mode 4 empties the rings, which makes RingInv hold again.
LEMMA ResetRestoresRing ==
    ASSUME TypeOK, reset_mode4_gate_buffers, frame' = frame + 1,
           strategyMode' # 4
    PROVE  RingInv'
<1>1. frame \in Nat /\ SeqLen \in Nat \ {0}
  BY SeqLenAssumption DEF TypeOK
<1>2. \A a \in Axes : buffer'[a].count = 0 /\ buffer'[a].next = 0
  BY DEF reset_mode4_gate_buffers, clear
<1>3. frame' = frame + 1 /\ lastReset' = frame + 1
  BY DEF reset_mode4_gate_buffers
<1>4. \A a \in Axes : FillsInOrder(buffer'[a])
  BY <1>2 DEF FillsInOrder
<1>5. \A a \in Axes : \A i \in Slots : ~(i < buffer'[a].count)
  BY <1>1, <1>2 DEF Slots
<1>6. QED
  BY <1>1, <1>2, <1>3, <1>4, <1>5
     DEF RingInv, FreshRows, Consecutive, FillsInOrder

\* Every frame keeps RingInv.
LEMMA RingStep == TypeOK /\ RingInv /\ [Next]_vars => RingInv'
<1> SUFFICES ASSUME TypeOK, RingInv, [Next]_vars
             PROVE  RingInv'
  OBVIOUS
<1>1. CASE UNCHANGED vars
  BY <1>1 DEF RingInv, FillsInOrder, FreshRows, Consecutive, ready, vars
<1>2. ASSUME NEW m \in PiperModes, PurePid(m)
      PROVE  RingInv'
  BY <1>2, ResetRestoresRing DEF PurePid, StartFrame
<1>3. ASSUME NEW m \in PiperModes, NEW ml \in Residuals,
             OriginalMl(m, ml) \/ HardSwitch(m, ml) \/ GateFusion(m, ml)
      PROVE  RingInv'
  BY <1>3, ResetRestoresRing DEF OriginalMl, HardSwitch, GateFusion, StartFrame
<1>4. ASSUME NEW m \in PiperModes, NEW ml \in Residuals,
             LstmGateFusion(m, ml)
      PROVE  RingInv'
  <2>1. PICK raw \in [Axes -> 0 .. Full], fail \in 1 .. NoFail,
             how \in Failures :
               /\ buffer' = PushReached(fail, how)
               /\ alpha_gate' = GateAlpha(LstmAlpha(raw, buffer'), fail)
               /\ FuseOrFallBack(alpha_gate', fail, y_ML')
               /\ failed' = (failed \/ fail # NoFail)
    BY <1>4 DEF LstmGateFusion
  <2>2. frame' = frame + 1 /\ lastReset' = lastReset /\ frame \in Nat
    BY <1>4 DEF LstmGateFusion, StartFrame, TypeOK
  <2>3. ASSUME NEW a \in Axes
        PROVE  buffer[a] \in GateSequenceBuffer
    BY DEF TypeOK
  <2>4. ASSUME NEW a \in Axes
        PROVE  (FillsInOrder(buffer[a]) /\ FreshRows(buffer[a]))'
    <3>1. CASE buffer'[a] = buffer[a]
      BY <2>2, <3>1 DEF RingInv, FillsInOrder, FreshRows
    <3>2. CASE buffer'[a] = push(buffer[a], frame + 1)
      <4>1. FillsInOrder(buffer[a]) /\ FreshRows(buffer[a])
        BY DEF RingInv
      <4>2. /\ FillsInOrder(push(buffer[a], frame + 1))
            /\ \A i \in Slots : i < push(buffer[a], frame + 1).count =>
                  push(buffer[a], frame + 1).rows[i] > lastReset'
        BY <2>2, <2>3, <4>1, PushKeepsRing
      <4>3. QED
        BY <3>2, <4>2 DEF FillsInOrder, FreshRows
    <3>3. QED
      BY <2>1, <3>1, <3>2 DEF PushReached
  <2>5. ASSUME ~failed', NEW a \in Axes
        PROVE  Consecutive(buffer[a])'
    <3>1. buffer'[a] = push(buffer[a], frame + 1)
      <4>1. fail = NoFail
        BY <2>1, <2>5
      <4>2. a \in Reached(fail, how)
        BY <4>1 DEF Reached, Axes, NoFail
      <4>3. QED
        BY <2>1, <4>2 DEF PushReached
    <3>2. /\ FillsInOrder(buffer[a]) /\ FreshRows(buffer[a])
          /\ Consecutive(buffer[a])
      BY <2>1, <2>5 DEF RingInv
    <3>3. QED
      BY <2>2, <2>3, <3>1, <3>2, PushKeepsRing DEF Consecutive
  <2>6. ASSUME fusion_ready', NEW a \in Axes, selected'[a] # 0
        PROVE  ready(buffer'[a])
    <3>1. selected'[a] = Fuse(alpha_gate', y_ML')[a] /\ Finite(selected'[a])
      BY <2>1, <2>6 DEF FuseOrFallBack
    <3>2. selected'[a] = alpha_gate'[a]
      BY <3>1 DEF Fuse, Finite
    <3>3. QED
      BY <2>1, <2>6, <3>2 DEF GateAlpha, LstmAlpha
  <2>7. QED
    BY <2>4, <2>5, <2>6 DEF RingInv, ready
<1>5. QED
  BY <1>1, <1>2, <1>3, <1>4 DEF Next

\* The zero-initialised rings satisfy RingInv.
LEMMA RingInit == Init => RingInv
<1> SUFFICES ASSUME Init PROVE RingInv
  OBVIOUS
<1>1. \A a \in Axes : buffer[a] = NewBuffer
  BY DEF Init, AllAxes
<1>2. frame = 0 /\ lastReset = 0 /\ ~fusion_ready
  BY DEF Init
<1>3. \A i \in Slots : ~(i < 0)
  BY SeqLenAssumption DEF Slots
<1>4. \A a \in Axes : buffer[a].count = 0 /\ buffer[a].next = 0
  BY <1>1 DEF NewBuffer
<1>5. QED
  BY <1>2, <1>3, <1>4, SeqLenAssumption
     DEF RingInv, FillsInOrder, FreshRows, Consecutive

\* RingInv holds in every frame.
LEMMA RingInvariant == Spec => []RingInv
  BY RingInit, RingStep, TypeCorrect, PTL DEF Spec

\* Reading the ring from the oldest row gives consecutive frames.
LEMMA RingIsAligned == TypeOK /\ RingInv => WindowsAligned
<1> SUFFICES ASSUME TypeOK, RingInv, strategyMode = 4, ~failed, NEW a \in Axes
             PROVE  /\ ready(buffer[a]) <=> frame - lastReset >= SeqLen
                    /\ ready(buffer[a]) => to_tensor_values(buffer[a]) =
                          [i \in 1 .. SeqLen |-> frame - SeqLen + i]
  BY DEF WindowsAligned
<1> DEFINE b == buffer[a]
<1>1. /\ frame \in Nat /\ lastReset \in 0 .. frame /\ SeqLen \in Nat \ {0}
      /\ b \in GateSequenceBuffer
      /\ b.count \in 0 .. SeqLen /\ b.next \in 0 .. SeqLen - 1
  BY SeqLenAssumption DEF TypeOK, GateSequenceBuffer, Slots
<1>2. Consecutive(b)
  BY DEF RingInv
<1> HIDE DEF b
<1>3. ready(b) <=> frame - lastReset >= SeqLen
  BY <1>1, <1>2 DEF ready, Consecutive
<1>4. ASSUME ready(b)
      PROVE  to_tensor_values(b) = [i \in 1 .. SeqLen |-> frame - SeqLen + i]
  <2>1. ~(b.count < SeqLen)
    BY <1>1, <1>4 DEF ready
  <2>2. ASSUME NEW i \in 1 .. SeqLen
        PROVE  b.rows[(b.next + i - 1) % SeqLen] = frame - SeqLen + i
    <3>1. b.next + i - 1 \in 0 .. 2 * SeqLen - 1
      BY <1>1
    <3>2. (b.next + i - 1) % SeqLen = IF b.next + i - 1 < SeqLen
            THEN b.next + i - 1 ELSE b.next + i - 1 - SeqLen
      <4>1. \A x \in 0 .. 2 * SeqLen - 1 :
              x % SeqLen = IF x < SeqLen THEN x ELSE x - SeqLen
        BY WrapAround
      <4>2. QED
        BY <1>1, <3>1, <4>1
    <3>3. \A k \in 0 .. SeqLen - 1 :
            b.rows[k] = IF k < b.next THEN frame - b.next + 1 + k
                        ELSE frame - SeqLen + 1 + (k - b.next)
      BY <1>2, <1>3, <1>4 DEF Consecutive, Slots
    <3>4. CASE b.next + i - 1 < SeqLen
      <4>1. b.rows[b.next + i - 1] = frame - SeqLen + 1 + (b.next + i - 1 - b.next)
        BY <1>1, <3>3, <3>4
      <4>2. QED
        BY <1>1, <3>2, <3>4, <4>1
    <3>5. CASE ~(b.next + i - 1 < SeqLen)
      <4>1. /\ b.next + i - 1 - SeqLen \in 0 .. SeqLen - 1
            /\ b.next + i - 1 - SeqLen < b.next
        BY <1>1, <3>5
      <4>2. b.rows[b.next + i - 1 - SeqLen] =
              frame - b.next + 1 + (b.next + i - 1 - SeqLen)
        BY <3>3, <4>1
      <4>3. QED
        BY <1>1, <3>2, <3>5, <4>2
    <3>6. QED
      BY <3>4, <3>5
  <2>3. QED
    BY <2>1, <2>2 DEF to_tensor_values
<1>5. QED
  BY <1>3, <1>4 DEF b

\* Without gate failures each LSTM gate sees exactly the last SeqLen control
\* frames in order, for every window length.
THEOREM GateSeesLastFrames == Spec => []WindowsAligned
  BY RingInvariant, TypeCorrect, RingIsAligned, PTL

\* In mode 4 no part of the ML command is applied on an axis before its
\* window has filled with frames of the current stretch of mode 4.
THEOREM WarmUpIsPid == Spec => []MlShareNeedsFullWindow
<1>1. TypeOK /\ RingInv => MlShareNeedsFullWindow
  <2> SUFFICES ASSUME TypeOK, RingInv, strategyMode = 4, fusion_ready,
                      NEW a \in Axes, selected[a] # 0
               PROVE  /\ ready(buffer[a])
                      /\ \A i \in Slots : buffer[a].rows[i] > lastReset
    BY DEF MlShareNeedsFullWindow
  <2>1. ready(buffer[a]) /\ FreshRows(buffer[a])
    BY DEF RingInv
  <2>2. \A i \in Slots : i < buffer[a].count
    BY <2>1, SeqLenAssumption DEF ready, Slots, TypeOK, GateSequenceBuffer
  <2>3. QED
    BY <2>1, <2>2 DEF FreshRows
<1>2. QED
  BY <1>1, RingInvariant, TypeCorrect, PTL

-------------------------------------------------------------------------------
(* The ring buffers implement SlidingWindow.                               *)

\* The rows of a ring by age, without the modulo.
LEMMA ContentsByAge ==
    ASSUME NEW b \in GateSequenceBuffer, FillsInOrder(b)
    PROVE  /\ Contents(b) \in Seq(Nat) /\ Len(Contents(b)) = b.count
           /\ \A k \in 1 .. b.count :
                 Contents(b)[k] = IF b.count < SeqLen THEN b.rows[k - 1]
                                  ELSE IF b.next + k - 1 < SeqLen
                                       THEN b.rows[b.next + k - 1]
                                       ELSE b.rows[b.next + k - 1 - SeqLen]
<1>1. /\ SeqLen \in Nat \ {0} /\ b.count \in 0 .. SeqLen
      /\ b.next \in 0 .. SeqLen - 1 /\ b.rows \in [0 .. SeqLen - 1 -> Nat]
  BY SeqLenAssumption DEF GateSequenceBuffer, Slots
<1>2. \A x \in 0 .. 2 * SeqLen - 1 :
        x % SeqLen = IF x < SeqLen THEN x ELSE x - SeqLen
  BY WrapAround
<1>3. ASSUME NEW k \in 1 .. b.count
      PROVE  /\ Contents(b)[k] = IF b.count < SeqLen THEN b.rows[k - 1]
                                  ELSE IF b.next + k - 1 < SeqLen
                                       THEN b.rows[b.next + k - 1]
                                       ELSE b.rows[b.next + k - 1 - SeqLen]
             /\ Contents(b)[k] \in Nat
  <2>1. k \in 1 .. SeqLen /\ Contents(b)[k] = to_tensor_values(b)[k]
    BY <1>1 DEF Contents
  <2>2. CASE b.count < SeqLen
    <3>1. (0 + k - 1) % SeqLen = k - 1
      BY <1>1, <1>2, <2>1
    <3>2. to_tensor_values(b)[k] = b.rows[(0 + k - 1) % SeqLen]
      BY <2>1, <2>2 DEF to_tensor_values
    <3>3. QED
      BY <1>1, <2>1, <2>2, <3>1, <3>2
  <2>3. CASE ~(b.count < SeqLen)
    <3>1. (b.next + k - 1) % SeqLen = IF b.next + k - 1 < SeqLen
            THEN b.next + k - 1 ELSE b.next + k - 1 - SeqLen
      <4>1. b.next + k - 1 \in 0 .. 2 * SeqLen - 1
        BY <1>1, <2>1
      <4>2. QED
        BY <1>1, <1>2, <4>1
    <3>2. to_tensor_values(b)[k] = b.rows[(b.next + k - 1) % SeqLen]
      BY <2>1, <2>3 DEF to_tensor_values
    <3>3. CASE b.next + k - 1 < SeqLen
      <4>1. b.next + k - 1 \in 0 .. SeqLen - 1
        BY <1>1, <2>1, <3>3
      <4>2. to_tensor_values(b)[k] = b.rows[b.next + k - 1]
        BY <3>1, <3>2, <3>3
      <4>3. b.rows[b.next + k - 1] \in Nat
        BY <1>1, <4>1
      <4>4. QED
        BY <2>1, <2>3, <3>3, <4>2, <4>3
    <3>4. CASE ~(b.next + k - 1 < SeqLen)
      <4>1. b.next + k - 1 - SeqLen \in 0 .. SeqLen - 1
        BY <1>1, <2>1, <3>4
      <4>2. to_tensor_values(b)[k] = b.rows[b.next + k - 1 - SeqLen]
        BY <3>1, <3>2, <3>4
      <4>3. b.rows[b.next + k - 1 - SeqLen] \in Nat
        BY <1>1, <4>1
      <4>4. QED
        BY <2>1, <2>3, <3>4, <4>2, <4>3
    <3>5. QED
      BY <3>3, <3>4
  <2>4. QED
    BY <2>2, <2>3
<1>4. Contents(b) \in Seq(Nat) /\ Len(Contents(b)) = b.count
  <2>1. Contents(b) \in [1 .. b.count -> Nat]
    <3>1. Contents(b) = [k \in 1 .. b.count |-> Contents(b)[k]]
      BY DEF Contents
    <3>2. QED
      BY <1>3, <3>1
  <2>2. QED
    BY <1>1, <2>1
<1>5. QED
  BY <1>3, <1>4

\* push() slides the abstract window by one row.
LEMMA PushSlides ==
    ASSUME NEW b \in GateSequenceBuffer, FillsInOrder(b), NEW row \in Nat
    PROVE  Contents(push(b, row)) = Windows!Slide(Contents(b), row)
<1> DEFINE c == push(b, row)
           w == Contents(b)
           v == Windows!Slide(w, row)
<1>1. /\ SeqLen \in Nat \ {0} /\ b.count \in 0 .. SeqLen
      /\ b.next \in 0 .. SeqLen - 1 /\ b.rows \in [0 .. SeqLen - 1 -> Nat]
  BY SeqLenAssumption DEF GateSequenceBuffer, Slots
<1>2. /\ \A i \in 0 .. SeqLen - 1 : c.rows[i] = IF i = b.next THEN row
                                               ELSE b.rows[i]
      /\ c.count = IF b.count < SeqLen THEN b.count + 1 ELSE b.count
      /\ c.next = IF b.next + 1 = SeqLen THEN 0 ELSE b.next + 1
  BY <1>1, NextIndex DEF push
<1>3. c \in GateSequenceBuffer /\ FillsInOrder(c)
  <2>1. c \in GateSequenceBuffer
    BY PushType
  <2>2. FillsInOrder(c)
    BY <1>1, <1>2 DEF FillsInOrder
  <2>3. QED
    BY <2>1, <2>2
<1>4. /\ w \in Seq(Nat) /\ Len(w) = b.count
      /\ \A k \in 1 .. b.count :
            w[k] = IF b.count < SeqLen THEN b.rows[k - 1]
                   ELSE IF b.next + k - 1 < SeqLen THEN b.rows[b.next + k - 1]
                        ELSE b.rows[b.next + k - 1 - SeqLen]
  BY ContentsByAge
<1>5. /\ Contents(c) \in Seq(Nat) /\ Len(Contents(c)) = c.count
      /\ \A k \in 1 .. c.count :
            Contents(c)[k] = IF c.count < SeqLen THEN c.rows[k - 1]
                   ELSE IF c.next + k - 1 < SeqLen THEN c.rows[c.next + k - 1]
                        ELSE c.rows[c.next + k - 1 - SeqLen]
  BY <1>3, ContentsByAge
<1>6. FillsInOrder(b)
  OBVIOUS
<1> HIDE DEF c, w
<1>7. CASE b.count < SeqLen
  <2>1. v = Append(w, row) /\ b.next = b.count /\ c.count = b.count + 1
    BY <1>2, <1>4, <1>6, <1>7 DEF Windows!Slide, FillsInOrder
  <2>2. v \in Seq(Nat) /\ Len(v) = b.count + 1
    BY <1>4, <2>1
  <2>3. ASSUME NEW k \in 1 .. b.count + 1
        PROVE  Contents(c)[k] = v[k]
    <3>1. v[k] = IF k = b.count + 1 THEN row ELSE w[k]
      BY <1>1, <1>4, <2>1
    <3>2. CASE k = b.count + 1
      <4>1. CASE c.count < SeqLen
        BY <1>1, <1>2, <1>5, <2>1, <3>1, <3>2, <4>1
      <4>2. CASE ~(c.count < SeqLen)
        <5>1. b.next + 1 = SeqLen /\ k = SeqLen
          BY <1>1, <1>7, <2>1, <3>2, <4>2
        <5>2. c.next = 0 /\ 0 + k - 1 = b.next /\ b.next < SeqLen
          BY <1>1, <1>2, <5>1
        <5>3. c.rows[b.next] = row
          BY <1>1, <1>2
        <5>4. Contents(c)[k] = c.rows[b.next]
          BY <1>1, <1>5, <2>1, <4>2, <5>1, <5>2
        <5>5. QED
          BY <3>1, <3>2, <5>3, <5>4
      <4>3. QED
        BY <4>1, <4>2
    <3>3. CASE k # b.count + 1
      <4>1. k \in 1 .. b.count /\ k - 1 \in 0 .. SeqLen - 1 /\ k - 1 # b.next
        BY <1>1, <1>7, <2>1, <3>3
      <4>2. w[k] = b.rows[k - 1] /\ c.rows[k - 1] = b.rows[k - 1]
        BY <1>2, <1>4, <1>7, <4>1
      <4>3. Contents(c)[k] = c.rows[k - 1]
        <5>1. CASE c.count < SeqLen
          BY <1>5, <2>1, <5>1
        <5>2. CASE ~(c.count < SeqLen)
          <6>0. b.next + 1 = SeqLen
            BY <1>1, <1>7, <2>1, <5>2
          <6>1. c.next = 0 /\ 0 + k - 1 = k - 1 /\ k - 1 < SeqLen
            BY <1>1, <1>2, <4>1, <6>0
          <6>2. QED
            BY <1>5, <2>1, <5>2, <6>1
        <5>3. QED
          BY <5>1, <5>2
      <4>4. QED
        BY <3>1, <3>3, <4>2, <4>3
    <3>4. QED
      BY <3>2, <3>3
  <2>4. QED
    <3>1. Len(Contents(c)) = Len(v) /\ Len(v) = b.count + 1
      BY <1>5, <2>1, <2>2
    <3>2. Contents(c) = v
      BY <1>5, <2>2, <2>3, <3>1, SeqEqual
    <3>3. QED
      BY <3>2 DEF c, w
<1>8. CASE ~(b.count < SeqLen)
  <2>1. v = Append(Tail(w), row) /\ b.count = SeqLen /\ c.count = SeqLen
    BY <1>1, <1>2, <1>4, <1>8 DEF Windows!Slide
  <2>2. Tail(w) \in Seq(Nat) /\ Len(Tail(w)) = SeqLen - 1
    BY <1>1, <1>4, <2>1
  <2>3. v \in Seq(Nat) /\ Len(v) = SeqLen
    BY <1>1, <2>1, <2>2
  <2>4. ASSUME NEW k \in 1 .. SeqLen
        PROVE  Contents(c)[k] = v[k]
    <3>1. v[k] = IF k = SeqLen THEN row ELSE w[k + 1]
      BY <1>1, <1>4, <2>1, <2>2
    <3>2. Contents(c)[k] = IF c.next + k - 1 < SeqLen THEN c.rows[c.next + k - 1]
                           ELSE c.rows[c.next + k - 1 - SeqLen]
      BY <1>1, <1>5, <2>1
    <3>3. k # SeqLen => w[k + 1] = IF b.next + k < SeqLen THEN b.rows[b.next + k]
                                   ELSE b.rows[b.next + k - SeqLen]
      <4> SUFFICES ASSUME k # SeqLen
                   PROVE  w[k + 1] = IF b.next + k < SeqLen
                                     THEN b.rows[b.next + k]
                                     ELSE b.rows[b.next + k - SeqLen]
        OBVIOUS
      <4>1. k + 1 \in 1 .. b.count /\ b.next + (k + 1) - 1 = b.next + k
        BY <1>1, <2>1
      <4>2. QED
        BY <1>4, <1>8, <4>1
    <3>4. CASE k = SeqLen
      <4>1. CASE b.next + 1 = SeqLen
        <5>1. c.next + k - 1 = b.next /\ b.next < SeqLen
          BY <1>1, <1>2, <3>4, <4>1
        <5>2. QED
          BY <1>1, <1>2, <3>1, <3>2, <3>4, <5>1
      <4>2. CASE b.next + 1 # SeqLen
        <5>1. /\ c.next + k - 1 - SeqLen = b.next
              /\ ~(c.next + k - 1 < SeqLen)
          BY <1>1, <1>2, <3>4, <4>2
        <5>2. QED
          BY <1>1, <1>2, <3>1, <3>2, <3>4, <5>1
      <4>3. QED
        BY <4>1, <4>2
    <3>5. CASE k # SeqLen
      <4>1. CASE b.next + 1 = SeqLen
        <5>1. /\ c.next + k - 1 = k - 1 /\ k - 1 < SeqLen /\ k - 1 # b.next
              /\ k - 1 \in 0 .. SeqLen - 1
              /\ b.next + k - SeqLen = k - 1 /\ ~(b.next + k < SeqLen)
          BY <1>1, <1>2, <3>5, <4>1
        <5>2. QED
          BY <1>2, <3>1, <3>2, <3>3, <3>5, <5>1
      <4>2. CASE b.next + 1 # SeqLen
        <5>1. c.next + k - 1 = b.next + k
          BY <1>1, <1>2, <4>2
        <5>2. CASE b.next + k < SeqLen
          <6>1. b.next + k \in 0 .. SeqLen - 1 /\ b.next + k # b.next
            BY <1>1, <5>2
          <6>2. c.rows[b.next + k] = b.rows[b.next + k]
            BY <1>2, <6>1
          <6>3. v[k] = b.rows[b.next + k]
            BY <3>1, <3>3, <3>5, <5>2
          <6>4. Contents(c)[k] = c.rows[b.next + k]
            BY <3>2, <5>1, <5>2
          <6>5. QED
            BY <6>2, <6>3, <6>4
        <5>3. CASE ~(b.next + k < SeqLen)
          <6>1. /\ b.next + k - SeqLen \in 0 .. SeqLen - 1
                /\ b.next + k - SeqLen # b.next
            BY <1>1, <3>5, <5>3
          <6>2. c.rows[b.next + k - SeqLen] = b.rows[b.next + k - SeqLen]
            BY <1>2, <6>1
          <6>3. v[k] = b.rows[b.next + k - SeqLen]
            BY <3>1, <3>3, <3>5, <5>3
          <6>4. Contents(c)[k] = c.rows[b.next + k - SeqLen]
            <7>0. /\ c.next = b.next + 1
                  /\ b.next \in Int /\ k \in Int /\ SeqLen \in Int
              BY <1>1, <1>2, <4>2
            <7>1. c.next + k - 1 - SeqLen = b.next + k - SeqLen
              BY <7>0
            <7>2. ~(c.next + k - 1 < SeqLen)
              BY <5>1, <5>3
            <7>3. Contents(c)[k] = c.rows[c.next + k - 1 - SeqLen]
              BY <3>2, <7>2
            <7>4. QED
              BY <7>1, <7>3
          <6>5. QED
            BY <6>2, <6>3, <6>4
        <5>4. QED
          BY <5>2, <5>3
      <4>3. QED
        BY <4>1, <4>2
    <3>6. QED
      BY <3>4, <3>5
  <2>5. QED
    <3>1. Len(Contents(c)) = Len(v) /\ Len(v) = SeqLen
      BY <1>5, <2>1, <2>3
    <3>2. Contents(c) = v
      BY <1>5, <2>3, <2>4, <3>1, SeqEqual
    <3>3. QED
      BY <3>2 DEF c, w
<1>9. QED
  BY <1>7, <1>8

\* clear() empties the abstract window.
LEMMA ClearEmpties ==
    ASSUME NEW b \in GateSequenceBuffer
    PROVE  Contents(clear(b)) = << >>
<1>1. clear(b).count = 0
  BY DEF clear
<1>2. QED
  BY <1>1 DEF Contents

\* One frame of the mode selector is one step of SlidingWindow.
LEMMA WindowStep ==
    ASSUME TypeOK, RingInv, Next
    PROVE  Windows!Next
<1>1. \A a \in Axes : buffer[a] \in GateSequenceBuffer /\ FillsInOrder(buffer[a])
  BY DEF TypeOK, RingInv
<1>2. ASSUME reset_mode4_gate_buffers
      PROVE  Windows!Empty
  <2>1. \A a \in Axes : Contents(buffer'[a]) = << >>
    BY <1>1, <1>2, ClearEmpties DEF reset_mode4_gate_buffers
  <2>2. QED
    BY <2>1 DEF Windows!Empty
<1>3. ASSUME NEW m \in PiperModes, NEW ml \in Residuals,
             LstmGateFusion(m, ml)
      PROVE  Windows!Enter
  <2>1. PICK fail \in 1 .. NoFail, how \in Failures :
               buffer' = PushReached(fail, how)
    BY <1>3 DEF LstmGateFusion
  <2>2. frame' = frame + 1 /\ frame' \in Nat
    BY <1>3 DEF LstmGateFusion, StartFrame, TypeOK
  <2>3. ASSUME NEW a \in Axes
        PROVE  Contents(buffer'[a]) =
                 IF a \in Reached(fail, how)
                 THEN Windows!Slide(Contents(buffer[a]), frame')
                 ELSE Contents(buffer[a])
    <3>1. CASE a \in Reached(fail, how)
      <4>1. buffer'[a] = push(buffer[a], frame')
        BY <2>1, <2>2, <3>1 DEF PushReached
      <4>2. QED
        BY <1>1, <2>2, <3>1, <4>1, PushSlides
    <3>2. CASE a \notin Reached(fail, how)
      BY <2>1, <3>2 DEF PushReached
    <3>3. QED
      BY <3>1, <3>2
  <2>4. Reached(fail, how) \in SUBSET Axes
    BY DEF Reached
  <2>5. \A a \in Reached(fail, how), b \in Axes : b < a => b \in Reached(fail, how)
    BY DEF Reached, Axes, NoFail
  <2>6. QED
    BY <2>3, <2>4, <2>5 DEF Windows!Enter
<1>4. frame' = frame + 1
  BY DEF Next, PurePid, OriginalMl, HardSwitch, GateFusion, LstmGateFusion,
         StartFrame
<1>5. QED
  BY <1>2, <1>3, <1>4 DEF Next, PurePid, OriginalMl, HardSwitch, GateFusion,
     Windows!Next

\* The gate buffers implement the sliding windows, for every window length.
THEOREM GateBuffersImplementWindows == Spec => GateWindows
<1>1. Init => Windows!Init
  <2> SUFFICES ASSUME Init PROVE Windows!Init
    OBVIOUS
  <2>1. \A a \in Axes : buffer[a].count = 0
    BY DEF Init, AllAxes, NewBuffer
  <2>2. \A a \in Axes : Contents(buffer[a]) = << >>
    BY <2>1 DEF Contents
  <2>3. QED
    BY <2>2 DEF Init, Windows!Init
<1>2. TypeOK /\ RingInv /\ [Next]_vars =>
        [Windows!Next]_<<[a \in Axes |-> Contents(buffer[a])], frame>>
  <2>1. CASE Next
    BY <2>1, WindowStep
  <2>2. CASE UNCHANGED vars
    BY <2>2 DEF vars
  <2>3. QED
    BY <2>1, <2>2
<1>3. QED
  BY <1>1, <1>2, TypeCorrect, RingInvariant, PTL
     DEF Spec, GateWindows, Windows!Spec
===============================================================================
