--------------------------- MODULE EngineProofs ---------------------------
(* Theorems about Engine, for every frame size, every set of callback       *)
(* lengths and every overload setting.                                      *)
EXTENDS Engine, TLAPS

LineProofs == INSTANCE DelayLineProofs WITH held <- Backlog - frames

\* The stopped engine satisfies every invariant.
LEMMA InitState ==
    ASSUME EngineAssumption, Init
    PROVE  /\ TypeOK /\ BuffersSound /\ Cushion
           /\ DenoiserReady /\ AttenuationApplied /\ DfStartsFresh
<1> USE DEF Init
<1>1. TypeOK
  BY DEF TypeOK
<1>2. BuffersSound /\ Cushion
  BY DEF EngineAssumption, BuffersSound, Cushion, Backlog, Available, Prefill
<1>3. DenoiserReady /\ AttenuationApplied /\ DfStartsFresh
  BY DEF DenoiserReady, AttenuationApplied, DfStartsFresh
<1>4. QED
  BY <1>1, <1>2, <1>3

\* Every step preserves the types.
LEMMA TypeStep ==
    ASSUME EngineAssumption, TypeOK, BuffersSound, [Next]_vars PROVE TypeOK'
<1> USE DEF EngineAssumption, TypeOK, BuffersSound, denoisers, buffers,
            overload, history, ClearBuffers, ResetOverload, DfReset, DfKept,
            ApplyAttenuation, LoadDefaultModel, DfLoad, DfInfer,
            MoveFrame, Available
<1>1. CASE InitOk
  BY <1>1 DEF InitOk
<1>2. CASE InitFails
  BY <1>2 DEF InitFails
<1>3. CASE Shutdown
  BY <1>3 DEF Shutdown
<1>4. ASSUME NEW m \in Modes, SetMode(m) PROVE TypeOK'
  BY <1>4 DEF SetMode
<1>5. CASE LoadModel
  BY <1>5 DEF LoadModel
<1>6. ASSUME NEW a \in {"default", "custom"}, SetAttenuationLimit(a) PROVE TypeOK'
  BY <1>6 DEF SetAttenuationLimit
<1>7. CASE Refuse
  BY <1>7 DEF Refuse
<1>8. ASSUME NEW n \in CallbackSizes, Append(n) PROVE TypeOK'
  BY <1>8 DEF Append
<1>9. CASE BypassFrame
  BY <1>9 DEF BypassFrame
<1>10. ASSUME NEW slow \in BOOLEAN, DenoiseFrame(slow) PROVE TypeOK'
  BY <1>10 DEF DenoiseFrame
<1>11. CASE HandOut
  BY <1>11 DEF HandOut
<1>12. CASE UNCHANGED vars
  BY <1>12 DEF vars
<1>13. QED
  BY <1>1, <1>2, <1>3, <1>4, <1>5, <1>6, <1>7, <1>8, <1>9, <1>10, <1>11,
     <1>12 DEF Next, Control, Process

\* Every step that touches the buffers clears them, appends a callback, moves
\* a frame or hands out; the others leave buffers and call alone.
LEMMA BufferSteps ==
    ASSUME [Next]_vars
    PROVE  \/ UNCHANGED <<in, out, read_pos, started, pc, frames>>
           \/ pc = "idle" /\ ClearBuffers /\ UNCHANGED <<pc, frames>>
           \/ \E n \in CallbackSizes : Append(n)
           \/ /\ pc = "frames" /\ in >= FrameSize /\ MoveFrame
              /\ UNCHANGED <<read_pos, started, pc, frames>>
           \/ HandOut
<1> USE DEF buffers
<1>1. CASE InitOk \/ Shutdown \/ \E m \in Modes : SetMode(m)
  BY <1>1 DEF InitOk, Shutdown, SetMode
<1>2. CASE InitFails \/ LoadModel \/ Refuse
           \/ \E a \in {"default", "custom"} : SetAttenuationLimit(a)
  BY <1>2 DEF InitFails, LoadModel, Refuse, SetAttenuationLimit
<1>3. CASE BypassFrame \/ \E slow \in BOOLEAN : DenoiseFrame(slow)
  BY <1>3 DEF BypassFrame, DenoiseFrame
<1>4. CASE UNCHANGED vars
  BY <1>4 DEF vars
<1>5. QED
  BY <1>1, <1>2, <1>3, <1>4 DEF Next, Control, Process

\* What handing out does, case by case.
LEMMA HandOutCases ==
    ASSUME EngineAssumption, TypeOK, HandOut
    PROVE  /\ pc = "frames" /\ in < FrameSize /\ in' = in
           /\ pc' = "idle" /\ frames' = 0
           /\ started' => started \/ Available >= FrameSize * 2
           /\ ~started' => ~started /\ Available < FrameSize * 2
           /\ \/ /\ started' /\ Available >= frames /\ result' = "audio"
                 /\ \/ read_pos' = 0 /\ out' = out - (read_pos + frames)
                    \/ /\ read_pos' = read_pos + frames /\ out' = out
                       /\ read_pos + frames <= FrameSize * 2
              \/ /\ ~started' \/ Available < frames
                 /\ UNCHANGED <<out, read_pos>>
<1>1. started' <=> started \/ Available >= FrameSize * 2
  BY Zenon DEF HandOut, Prefill
<1>2. Available >= FrameSize * 2 \/ Available < FrameSize * 2
  BY DEF TypeOK, Available, EngineAssumption
<1>3. Available >= frames \/ Available < frames
  BY DEF TypeOK, Available
<1>4. read_pos + frames > FrameSize * 2 \/ read_pos + frames <= FrameSize * 2
  BY DEF TypeOK, EngineAssumption
<1>5. CASE started' /\ Available >= frames
  <2>1. CASE read_pos + frames > FrameSize * 2
    <3>1. read_pos' = 0 /\ out' = out - (read_pos + frames) /\ result' = "audio"
      BY <1>5, <2>1, Zenon DEF HandOut
    <3>2. QED
      BY <1>1, <1>5, <3>1 DEF HandOut
  <2>2. CASE read_pos + frames <= FrameSize * 2
    <3>1. ~(read_pos + frames > FrameSize * 2)
      BY <2>2 DEF TypeOK, EngineAssumption
    <3>2. read_pos' = read_pos + frames /\ out' = out /\ result' = "audio"
      BY <1>5, <3>1, Zenon DEF HandOut
    <3>3. QED
      BY <1>1, <1>5, <2>2, <3>2 DEF HandOut
  <2>3. QED
    BY <1>4, <2>1, <2>2
<1>6. CASE ~started' \/ Available < frames
  <2>1. ~(started' /\ Available >= frames)
    BY <1>6 DEF TypeOK, Available
  <2>2. UNCHANGED <<out, read_pos>>
    BY <2>1, Zenon DEF HandOut
  <2>3. QED
    BY <1>1, <1>2, <1>6, <2>2 DEF HandOut
<1>7. QED
  BY <1>3, <1>5, <1>6

\* Every step preserves BuffersSound, whatever the lengths of the callbacks.
LEMMA BuffersStep ==
    ASSUME EngineAssumption, TypeOK, BuffersSound, [Next]_vars
    PROVE  BuffersSound'
<1> USE DEF EngineAssumption, TypeOK, BuffersSound, Prefill
<1>1. CASE UNCHANGED <<in, out, read_pos, started, pc, frames>>
  BY <1>1
<1>2. CASE pc = "idle" /\ ClearBuffers /\ UNCHANGED <<pc, frames>>
  BY <1>2 DEF ClearBuffers
<1>3. ASSUME NEW n \in CallbackSizes, Append(n) PROVE BuffersSound'
  BY <1>3 DEF Append
<1>4. CASE /\ pc = "frames" /\ in >= FrameSize /\ MoveFrame
           /\ UNCHANGED <<read_pos, started, pc, frames>>
  BY <1>4 DEF MoveFrame
<1>5. CASE HandOut
  BY <1>5, HandOutCases DEF Available
<1>6. QED
  BY <1>1, <1>2, <1>3, <1>4, <1>5, BufferSteps

\* Every step preserves the cushion.
LEMMA CushionStep ==
    ASSUME EngineAssumption, TypeOK, BuffersSound, Cushion, [Next]_vars
    PROVE  Cushion'
<1> SUFFICES ASSUME SmallCallbacks
             PROVE  Cushion'
  BY DEF Cushion, SmallCallbacks
<1> USE DEF EngineAssumption, TypeOK, BuffersSound, Prefill, Cushion,
            SmallCallbacks, Backlog, Available
<1>1. CASE UNCHANGED <<in, out, read_pos, started, pc, frames>>
  BY <1>1
<1>2. CASE pc = "idle" /\ ClearBuffers /\ UNCHANGED <<pc, frames>>
  BY <1>2 DEF ClearBuffers
<1>3. ASSUME NEW n \in CallbackSizes, Append(n) PROVE Cushion'
  BY <1>3 DEF Append
<1>4. CASE /\ pc = "frames" /\ in >= FrameSize /\ MoveFrame
           /\ UNCHANGED <<read_pos, started, pc, frames>>
  <2>1. frames \in Nat /\ frames <= FrameSize + 1
    BY <1>4
  <2>2. Backlog' = Backlog
    BY <1>4 DEF MoveFrame
  <2>3. ~started => out' \in {0, FrameSize, FrameSize * 2, FrameSize * 3}
    BY <1>4, <2>1 DEF MoveFrame
  <2>4. QED
    BY <1>4, <2>2, <2>3
<1>5. CASE HandOut
  <2>1. frames \in Nat /\ frames <= FrameSize + 1
    BY <1>5, HandOutCases
  <2>2. CASE started'
    <3>1. Backlog - frames >= FrameSize - 1
      BY <1>5, <2>1, <2>2, HandOutCases
    <3>2. Available >= frames
      BY <1>5, <2>1, <3>1, HandOutCases
    <3>3. Backlog' = Backlog - frames /\ frames' = 0 /\ pc' = "idle"
      BY <1>5, <2>1, <2>2, <3>2, HandOutCases
    <3>4. QED
      BY <2>2, <3>1, <3>3
  <2>3. CASE ~started'
    <3>1. ~started /\ read_pos = 0 /\ out < FrameSize * 2 /\ in < FrameSize
      BY <1>5, <2>3, HandOutCases
    <3>2. out \in {0, FrameSize}
      BY <3>1
    <3>3. UNCHANGED <<in, out, read_pos>> /\ frames' = 0 /\ pc' = "idle"
      BY <1>5, <2>3, HandOutCases
    <3>4. QED
      BY <2>3, <3>1, <3>2, <3>3
  <2>4. QED
    BY <2>2, <2>3, HandOutCases
<1>6. QED
  BY <1>1, <1>2, <1>3, <1>4, <1>5, BufferSteps

\* The types and the state of the buffers are invariant.
THEOREM EngineBuffers ==
    ASSUME EngineAssumption
    PROVE  Spec => [](TypeOK /\ BuffersSound /\ Cushion)
<1> DEFINE I == TypeOK /\ BuffersSound /\ Cushion
<1>1. Init => I
  BY InitState
<1>2. I /\ [Next]_vars => I'
  BY TypeStep, BuffersStep, CushionStep
<1>3. QED
  BY <1>1, <1>2, PTL DEF Spec

\* Engine: every variable has its type, for every frame size and all callbacks.
THEOREM EngineTypes == ASSUME EngineAssumption PROVE Spec => []TypeOK
  BY EngineBuffers, PTL

\* process_frame(): once it has started, what the engine holds back has bounds
\* on both sides, of which the lower one lets every later call be answered.
THEOREM EngineCushion == ASSUME EngineAssumption PROVE Spec => []Cushion
  BY EngineBuffers, PTL

\* What the engine holds back of the calls before the one under way.
HeldBack == Backlog - frames

\* process_frame(): a call takes out exactly what it puts in.  From the call that
\* starts output to the next mode switch, stop or restart, what is held back
\* never changes, for callbacks of any mixture of lengths up to one sample more
\* than a frame and through overload and its end.
CushionKept ==
    [][SmallCallbacks /\ started /\ started' => HeldBack' = HeldBack]_vars

THEOREM EngineCushionKept == ASSUME EngineAssumption PROVE Spec => CushionKept
<1>1. ASSUME EngineAssumption, TypeOK, BuffersSound, Cushion, [Next]_vars,
             SmallCallbacks, started, started'
      PROVE  HeldBack' = HeldBack
  <2> USE <1>1 DEF EngineAssumption, TypeOK, BuffersSound, HeldBack, Backlog, Available
  <2>1. CASE UNCHANGED <<in, out, read_pos, started, pc, frames>>
    BY <2>1
  <2>2. CASE pc = "idle" /\ ClearBuffers /\ UNCHANGED <<pc, frames>>
    BY <2>2 DEF ClearBuffers
  <2>3. ASSUME NEW n \in CallbackSizes, Append(n) PROVE HeldBack' = HeldBack
    <3>1. n \in Nat /\ frames = 0
      BY <2>3 DEF Append
    <3>2. QED
      BY <2>3, <3>1 DEF Append
  <2>4. CASE /\ pc = "frames" /\ in >= FrameSize /\ MoveFrame
             /\ UNCHANGED <<read_pos, started, pc, frames>>
    BY <2>4 DEF MoveFrame
  <2>5. CASE HandOut
    <3>1. frames \in Nat /\ frames <= FrameSize + 1
      BY <2>5, HandOutCases DEF Cushion, SmallCallbacks
    <3>2. Available >= frames
      BY <2>5, <3>1, HandOutCases DEF Cushion
    <3>3. Backlog' = Backlog - frames /\ frames' = 0
      BY <2>5, <3>1, <3>2, HandOutCases
    <3>4. QED
      BY <3>1, <3>3
  <2>6. QED
    BY <2>1, <2>2, <2>3, <2>4, <2>5, BufferSteps
<1>2. TypeOK /\ BuffersSound /\ Cushion /\ [Next]_vars =>
          [SmallCallbacks /\ started /\ started' => HeldBack' = HeldBack]_vars
  BY <1>1
<1>3. QED
  BY <1>2, EngineBuffers, PTL DEF Spec, CushionKept

\* An engine that has started output never drops out again, for callbacks of
\* any mixture of lengths up to one sample more than a frame.
THEOREM EngineNoDropout == ASSUME EngineAssumption PROVE Spec => NoDropout
<1>1. ASSUME TypeOK, BuffersSound, Cushion, [Next]_vars, SmallCallbacks,
             pc = "frames", pc' = "idle", started'
      PROVE  result' = "audio"
  <2>1. HandOut
    BY <1>1, BufferSteps DEF Append
  <2>2. /\ frames \in Nat /\ frames <= FrameSize + 1 /\ in < FrameSize
        /\ Available >= frames
    <3> USE DEF EngineAssumption, TypeOK, BuffersSound, Cushion,
                SmallCallbacks, Backlog, Available, Prefill
    <3>1. frames \in Nat /\ frames <= FrameSize + 1 /\ in < FrameSize
      BY <1>1, <2>1 DEF HandOut
    <3>2. Available >= frames
      BY <1>1, <2>1, <3>1 DEF HandOut
    <3>3. QED
      BY <3>1, <3>2
  <2>3. QED
    BY <1>1, <2>1, <2>2 DEF HandOut
<1>2. TypeOK /\ BuffersSound /\ Cushion /\ [Next]_vars =>
          [SmallCallbacks /\ pc = "frames" /\ pc' = "idle" /\ started'
               => result' = "audio"]_vars
  BY <1>1
<1>3. QED
  BY <1>2, EngineBuffers, PTL DEF Spec, NoDropout

----------------------------------------------------------------------------
\* Memory is dropped with the audio it comes from, so none of it is old; a
\* model that does not exist has none.
MemoryIsCurrent ==
    /\ df_memory # "old"
    /\ deepfilter = "none" => df_memory = "zero"

ControlInv == DenoiserReady /\ AttenuationApplied /\ MemoryIsCurrent

\* A running engine has RNNoise, a loaded model has the attenuation asked for
\* and remembers nothing of dropped audio, in whatever order models are
\* loaded, modes and limits set, and the engine stopped, failed or restarted.
THEOREM EngineControl ==
    ASSUME EngineAssumption
    PROVE  Spec => [](DenoiserReady /\ AttenuationApplied /\ DfStartsFresh)
<1>1. Init => ControlInv
  BY DEF Init, ControlInv, DenoiserReady, AttenuationApplied, MemoryIsCurrent
<1>2. TypeOK /\ ControlInv /\ [Next]_vars => ControlInv'
  <2> SUFFICES ASSUME TypeOK, ControlInv, [Next]_vars PROVE ControlInv'
    OBVIOUS
  <2> USE DEF ControlInv, DenoiserReady, AttenuationApplied, MemoryIsCurrent,
              denoisers, DfReset, DfKept, ApplyAttenuation, LoadDefaultModel,
              DfLoad, DfInfer
  <2>1. CASE InitOk
    BY <2>1 DEF InitOk
  <2>2. CASE InitFails
    BY <2>2 DEF InitFails
  <2>3. CASE Shutdown
    BY <2>3 DEF Shutdown
  <2>4. ASSUME NEW m \in Modes, SetMode(m) PROVE ControlInv'
    BY <2>4 DEF SetMode
  <2>5. CASE LoadModel
    BY <2>5 DEF LoadModel
  <2>6. ASSUME NEW a \in {"default", "custom"}, SetAttenuationLimit(a)
        PROVE  ControlInv'
    BY <2>6 DEF SetAttenuationLimit
  <2>7. CASE Refuse
    BY <2>7 DEF Refuse
  <2>8. ASSUME NEW n \in CallbackSizes, Append(n) PROVE ControlInv'
    BY <2>8 DEF Append
  <2>9. CASE BypassFrame
    BY <2>9 DEF BypassFrame
  <2>10. ASSUME NEW slow \in BOOLEAN, DenoiseFrame(slow) PROVE ControlInv'
    BY <2>10 DEF DenoiseFrame, UseDeepfilter
  <2>11. CASE HandOut
    BY <2>11 DEF HandOut
  <2>12. CASE UNCHANGED vars
    BY <2>12 DEF vars
  <2>13. QED
    BY <2>1, <2>2, <2>3, <2>4, <2>5, <2>6, <2>7, <2>8, <2>9, <2>10, <2>11,
       <2>12 DEF Next, Control, Process
<1>3. ControlInv => DenoiserReady /\ AttenuationApplied /\ DfStartsFresh
  BY DEF ControlInv, MemoryIsCurrent, DfStartsFresh
<1>4. QED
  BY <1>1, <1>2, <1>3, EngineBuffers, PTL DEF Spec

\* apply_attenuation_for_mode(): a limit that was set before there was a model
\* is in force when there is one, and survives loading and switching.
THEOREM EngineAttenuation == ASSUME EngineAssumption PROVE Spec => []AttenuationApplied
  BY EngineControl, PTL

\* reset_state(): a loaded model never goes on from audio that was dropped.
THEOREM EngineDfFresh == ASSUME EngineAssumption PROVE Spec => []DfStartsFresh
  BY EngineControl, PTL

----------------------------------------------------------------------------
\* The counter of slow frames never counts more than came in a row, and what
\* is left of a fallback and what was bypassed in it add up to its length.
OverloadCounts ==
    /\ ~in_overload => slow_run >= overload_count /\ raw_run = 0
    /\ in_overload => raw_run + overload_cooldown = CooldownFrames

\* A step of the engine either leaves the overload state alone, resets it,
\* or is a frame.
LEMMA OverloadSteps ==
    ASSUME [Next]_vars
    PROVE  \/ UNCHANGED <<overload, history>>
           \/ pc = "idle" /\ ResetOverload
           \/ BypassFrame
           \/ \E slow \in BOOLEAN : DenoiseFrame(slow)
<1>1. CASE InitOk \/ Shutdown
  BY <1>1 DEF InitOk, Shutdown
<1>2. CASE \/ InitFails \/ LoadModel \/ Refuse \/ HandOut
           \/ \E m \in Modes : SetMode(m)
           \/ \E a \in {"default", "custom"} : SetAttenuationLimit(a)
           \/ \E n \in CallbackSizes : Append(n)
  BY <1>2 DEF InitFails, LoadModel, Refuse, HandOut, SetMode,
     SetAttenuationLimit, Append
<1>3. CASE UNCHANGED vars
  BY <1>3 DEF vars
<1>4. QED
  BY <1>1, <1>2, <1>3 DEF Next, Control, Process

\* What a frame through a denoiser does to the counters, case by case.
LEMMA DenoiseCases ==
    ASSUME EngineAssumption, TypeOK, NEW slow \in BOOLEAN, DenoiseFrame(slow)
    PROVE  /\ raw_run' = 0
           /\ in_overload => overload_cooldown = 0
           /\ \E count \in Nat :
                  /\ count = 1 \/ (~in_overload /\ count = overload_count + 1)
                  /\ \/ /\ slow_run' = slow_run + 1 /\ count >= TriggerCount
                        /\ in_overload' /\ overload_cooldown' = CooldownFrames
                     \/ /\ slow_run' = slow_run + 1 /\ ~in_overload'
                        /\ overload_count' = count
                        /\ UNCHANGED overload_cooldown
                     \/ /\ slow_run' = 0 /\ ~in_overload'
                        /\ overload_count' = 0 /\ UNCHANGED overload_cooldown
<1> DEFINE count == (IF in_overload THEN 0 ELSE overload_count) + 1
<1>1. count \in Nat /\ (count = 1 \/ (~in_overload /\ count = overload_count + 1))
  BY DEF TypeOK
<1>2. /\ raw_run' = 0
      /\ ~(in_overload /\ overload_cooldown > 0)
      /\ overload_count' = (IF slow THEN count ELSE 0)
      /\ in_overload' <=> slow /\ count >= TriggerCount
      /\ overload_cooldown' = (IF slow /\ count >= TriggerCount
                               THEN CooldownFrames ELSE overload_cooldown)
      /\ slow_run' = (IF slow THEN slow_run + 1 ELSE 0)
  BY Zenon DEF DenoiseFrame
<1>3. in_overload => overload_cooldown = 0
  BY <1>2 DEF TypeOK
<1> HIDE DEF count
<1>4. CASE slow /\ count >= TriggerCount
  BY <1>1, <1>2, <1>3, <1>4, Zenon
<1>5. CASE slow /\ ~(count >= TriggerCount)
  BY <1>1, <1>2, <1>3, <1>5, Zenon
<1>6. CASE ~slow
  BY <1>1, <1>2, <1>3, <1>6, Zenon
<1>7. QED
  BY <1>4, <1>5, <1>6, Zenon

\* Every step preserves the counts.
LEMMA OverloadCountsStep ==
    ASSUME EngineAssumption, TypeOK, OverloadCounts, [Next]_vars
    PROVE  OverloadCounts'
<1> USE DEF EngineAssumption, TypeOK, OverloadCounts
<1>1. CASE UNCHANGED <<overload, history>>
  BY <1>1 DEF overload, history
<1>2. CASE ResetOverload
  BY <1>2 DEF ResetOverload
<1>3. CASE BypassFrame
  BY <1>3 DEF BypassFrame
<1>4. ASSUME NEW slow \in BOOLEAN, DenoiseFrame(slow) PROVE OverloadCounts'
  BY <1>4, DenoiseCases
<1>5. QED
  BY <1>1, <1>2, <1>3, <1>4, OverloadSteps

\* The counts are invariant.
THEOREM OverloadInvariant ==
    ASSUME EngineAssumption PROVE Spec => [](TypeOK /\ OverloadCounts)
<1>1. Init => OverloadCounts
  BY DEF EngineAssumption, Init, OverloadCounts
<1>2. TypeOK /\ OverloadCounts /\ [Next]_vars => OverloadCounts'
  BY OverloadCountsStep
<1>3. QED
  BY <1>1, <1>2, EngineBuffers, PTL DEF Spec

\* The fallback is entered only after TriggerCount slow frames in a row, for
\* every trigger count and across earlier fallbacks, switches and restarts.
THEOREM EngineTripsWhenSlow ==
    ASSUME EngineAssumption PROVE Spec => TripsOnlyWhenSlow
<1>1. ASSUME TypeOK, OverloadCounts, [Next]_vars,
             overload_cooldown' > overload_cooldown
      PROVE  slow_run' >= TriggerCount
  <2> USE DEF EngineAssumption, TypeOK, OverloadCounts
  <2>1. CASE UNCHANGED <<overload, history>>
    BY <1>1, <2>1 DEF overload, history
  <2>2. CASE ResetOverload
    BY <1>1, <2>2 DEF ResetOverload
  <2>3. CASE BypassFrame
    BY <1>1, <2>3 DEF BypassFrame
  <2>4. ASSUME NEW slow \in BOOLEAN, DenoiseFrame(slow)
        PROVE  slow_run' >= TriggerCount
    BY <1>1, <2>4, DenoiseCases
  <2>5. QED
    BY <1>1, <2>1, <2>2, <2>3, <2>4, OverloadSteps
<1>2. QED
  BY <1>1, OverloadInvariant, PTL DEF Spec, TripsOnlyWhenSlow

\* A fallback bypasses exactly CooldownFrames frames before the denoiser is
\* tried again, unless a restart of the engine ends it.
THEOREM EngineFallbackIsExact ==
    ASSUME EngineAssumption PROVE Spec => PassthroughExact
<1>1. ASSUME TypeOK, OverloadCounts, [Next]_vars,
             pc = "frames", raw_run' # raw_run
      PROVE  /\ raw_run' <= CooldownFrames
             /\ raw_run' = 0 => raw_run = CooldownFrames
  <2> USE DEF EngineAssumption, TypeOK, OverloadCounts
  <2>1. CASE UNCHANGED <<overload, history>>
    BY <1>1, <2>1 DEF history
  <2>2. CASE BypassFrame
    BY <1>1, <2>2 DEF BypassFrame
  <2>3. ASSUME NEW slow \in BOOLEAN, DenoiseFrame(slow)
        PROVE  /\ raw_run' <= CooldownFrames
               /\ raw_run' = 0 => raw_run = CooldownFrames
    BY <1>1, <2>3, DenoiseCases
  <2>4. QED
    BY <1>1, <2>1, <2>2, <2>3, OverloadSteps
<1>2. QED
  BY <1>1, OverloadInvariant, PTL DEF Spec, PassthroughExact
----------------------------------------------------------------------------
\* While the line fills, the output buffer holds whole frames, none of them
\* read, and a call under way is one of the calls there are.
WholeFrames ==
    /\ pc = "frames" => frames \in CallbackSizes
    /\ ~started => \E k \in Nat : out = k * FrameSize

\* Fewer than two frames are one or none.
LEMMA FewFrames ==
    ASSUME EngineAssumption, NEW k \in Nat, k * FrameSize < FrameSize * 2
    PROVE  k * FrameSize \in {0, FrameSize}
<1>1. k = 0 \/ k = 1 \/ k >= 2
  OBVIOUS
<1>2. CASE k >= 2
  <2>1. k * FrameSize >= 2 * FrameSize
    BY <1>2 DEF EngineAssumption
  <2>2. QED
    BY <2>1 DEF EngineAssumption
<1>3. QED
  BY <1>1, <1>2 DEF EngineAssumption

\* Every step keeps the frames whole.
LEMMA WholeFramesStep ==
    ASSUME EngineAssumption, TypeOK, BuffersSound, WholeFrames, [Next]_vars
    PROVE  WholeFrames'
<1> USE DEF EngineAssumption, TypeOK, BuffersSound, WholeFrames
<1>1. CASE UNCHANGED <<in, out, read_pos, started, pc, frames>>
  BY <1>1
<1>2. CASE pc = "idle" /\ ClearBuffers /\ UNCHANGED <<pc, frames>>
  <2>1. out' = 0 * FrameSize
    BY <1>2 DEF ClearBuffers
  <2>2. QED
    BY <1>2, <2>1
<1>3. ASSUME NEW n \in CallbackSizes, Append(n) PROVE WholeFrames'
  BY <1>3 DEF Append
<1>4. CASE /\ pc = "frames" /\ in >= FrameSize /\ MoveFrame
           /\ UNCHANGED <<read_pos, started, pc, frames>>
  <2>1. SUFFICES ASSUME ~started
                 PROVE  \E k \in Nat : out' = k * FrameSize
    BY <1>4
  <2>2. PICK k \in Nat : out = k * FrameSize
    BY <2>1
  <2>3. out' = (k + 1) * FrameSize
    BY <1>4, <2>2 DEF MoveFrame
  <2>4. QED
    BY <2>3
<1>5. CASE HandOut
  BY <1>5, HandOutCases
<1>6. QED
  BY <1>1, <1>2, <1>3, <1>4, <1>5, BufferSteps

LEMMA EngineWholeFrames == ASSUME EngineAssumption PROVE Spec => []WholeFrames
<1>1. Init => WholeFrames
  <2>1. ASSUME Init PROVE out = 0 * FrameSize
    BY <2>1 DEF Init, EngineAssumption
  <2>2. QED
    BY <2>1 DEF Init, WholeFrames
<1>2. TypeOK /\ BuffersSound /\ WholeFrames /\ [Next]_vars => WholeFrames'
  BY WholeFramesStep
<1>3. QED
  BY <1>1, <1>2, EngineBuffers, PTL DEF Spec

\* Handing out is the step in which a call of the delay line takes effect.
LEMMA HandOutIsACall ==
    ASSUME EngineAssumption, TypeOK, BuffersSound, WholeFrames, HandOut
    PROVE  \E n \in CallbackSizes : Line!Emit(n) \/ Line!Fill(n)
<1> USE DEF EngineAssumption, TypeOK, BuffersSound, Backlog, Available
<1>1. frames \in CallbackSizes /\ frames \in Nat
  BY HandOutCases DEF WholeFrames
<1>2. ~started => (Available >= FrameSize * 2 <=> Backlog >= FrameSize * 2)
  <2>1. SUFFICES ASSUME ~started, Available < FrameSize * 2
                 PROVE  Backlog < FrameSize * 2
    OBVIOUS
  <2>2. out \in {0, FrameSize}
    BY <2>1, FewFrames DEF WholeFrames
  <2>3. QED
    BY <2>1, <2>2, HandOutCases
<1>3. started' <=> started \/ (Backlog - frames) + frames >= FrameSize * 2
  BY <1>1, <1>2, HandOutCases
<1>4. CASE result' = "audio"
  <2>1. started' /\ Available >= frames
    BY <1>4, Zenon DEF HandOut
  <2>2. (Backlog - frames)' = Backlog - frames
    BY <1>1, <2>1, HandOutCases
  <2>3. Line!Emit(frames)
    BY <1>3, <1>4, <2>1, <2>2 DEF Line!Emit, Line!Prefill
  <2>4. QED
    BY <1>1, <2>3
<1>5. CASE result' = "silence"
  <2>1. ~started' \/ Available < frames
    <3>1. ~(started' /\ Available >= frames)
      BY <1>5, Zenon DEF HandOut
    <3>2. QED
      BY <1>1, <3>1
  <2>2. (Backlog - frames)' = (Backlog - frames) + frames
    BY <1>1, <1>5, <2>1, HandOutCases
  <2>3. started' => Backlog - frames < FrameSize - 1
    BY <1>1, <2>1, HandOutCases
  <2>4. Line!Fill(frames)
    BY <1>3, <1>5, <2>2, <2>3 DEF Line!Fill, Line!Prefill, HandOut
  <2>5. QED
    BY <1>1, <2>4
<1>6. QED
  BY <1>4, <1>5 DEF HandOut

\* Every step of the engine is a step of the delay line or does not show.
LEMMA LineStep ==
    ASSUME EngineAssumption, TypeOK, BuffersSound, WholeFrames, [Next]_vars
    PROVE  [Line!Next]_Line!vars
<1> USE DEF EngineAssumption, TypeOK, Line!vars, Line!Next, Backlog, Available,
            buffers
<1>1. CASE InitOk \/ Shutdown \/ \E m \in Modes : SetMode(m)
  BY <1>1 DEF InitOk, Shutdown, SetMode, ClearBuffers, Line!Clear
<1>2. CASE InitFails \/ LoadModel
           \/ \E a \in {"default", "custom"} : SetAttenuationLimit(a)
  BY <1>2 DEF InitFails, LoadModel, SetAttenuationLimit
<1>3. CASE Refuse
  BY <1>3 DEF Refuse, Line!Refuse
<1>4. ASSUME NEW n \in CallbackSizes, Append(n) PROVE UNCHANGED Line!vars
  BY <1>4 DEF Append
<1>5. CASE BypassFrame
  BY <1>5 DEF BypassFrame, MoveFrame
<1>6. ASSUME NEW slow \in BOOLEAN, DenoiseFrame(slow) PROVE UNCHANGED Line!vars
  BY <1>6 DEF DenoiseFrame, MoveFrame
<1>7. CASE HandOut
  BY <1>7, HandOutIsACall
<1>8. CASE UNCHANGED vars
  BY <1>8 DEF vars
<1>9. QED
  BY <1>1, <1>2, <1>3, <1>4, <1>5, <1>6, <1>7, <1>8 DEF Next, Control, Process

\* The engine implements the delay line, for every frame size and callbacks
\* of any length.
THEOREM EngineImplementsDelayLine ==
    ASSUME EngineAssumption PROVE Spec => ImplementsDelayLine
<1>1. Init => Line!Init
  BY DEF Init, Line!Init, Backlog, Available
<1>2. TypeOK /\ BuffersSound /\ WholeFrames /\ [Next]_vars => [Line!Next]_Line!vars
  BY LineStep
<1>3. QED
  BY <1>1, <1>2, EngineBuffers, EngineWholeFrames, PTL DEF Spec, ImplementsDelayLine, Line!Spec

----------------------------------------------------------------------------
\* What the delay line promises holds of the engine that implements it.
LEMMA EngineHolds == ASSUME EngineAssumption PROVE Spec => []LineProofs!LineInv
<1>1. FrameSize \in Nat /\ FrameSize > 0 /\ CallbackSizes \subseteq Nat
  BY DEF EngineAssumption
<1>2. LineProofs!Spec => []LineProofs!LineInv
  BY <1>1, LineProofs!LineHeld
<1>3. Line!Init => LineProofs!Init
  BY DEF Line!Init, LineProofs!Init
<1>4. [Line!Next]_Line!vars => [LineProofs!Next]_LineProofs!vars
  BY DEF Line!Next, Line!Emit, Line!Fill, Line!Refuse, Line!Clear, Line!Prefill,
         Line!vars, LineProofs!Next, LineProofs!Emit, LineProofs!Fill,
         LineProofs!Refuse, LineProofs!Clear, LineProofs!Prefill, LineProofs!vars
<1>5. QED
  BY <1>2, <1>3, <1>4, EngineImplementsDelayLine, PTL
     DEF ImplementsDelayLine, Line!Spec, LineProofs!Spec

\* process_frame(): the engine delays the audio by less than two frames, and with
\* callbacks longer than a frame by less than a frame and the longest of them.
THEOREM EngineLatency == ASSUME EngineAssumption PROVE Spec => []LatencyBound
<1>1. TypeOK /\ LineProofs!LineInv => LatencyBound
  BY DEF EngineAssumption, TypeOK, LatencyBound, Backlog, Available, Prefill,
         LineProofs!LineInv, LineProofs!HeldBound, LineProofs!Prefill
<1>2. QED
  BY <1>1, EngineTypes, EngineHolds, PTL

\* input_buffer_ and output_buffer_ do not grow without bound: together they
\* stay below four frames and twice the longest callback, of whatever length
\* and in whatever order the callbacks come.
THEOREM EngineBuffersBounded ==
    ASSUME EngineAssumption, NEW k \in Nat, \A n \in CallbackSizes : n <= k
    PROVE  Spec => [](in + out < FrameSize * 4 + k * 2)
<1>1. TypeOK /\ BuffersSound /\ WholeFrames /\ LineProofs!LineInv
          => in + out < FrameSize * 4 + k * 2
  <2> SUFFICES ASSUME TypeOK, BuffersSound, WholeFrames, LineProofs!LineInv
               PROVE  in + out < FrameSize * 4 + k * 2
    OBVIOUS
  <2>1. frames <= k
    BY DEF TypeOK, WholeFrames
  <2>2. in + (out - read_pos) - frames < FrameSize * 2 + k
    BY DEF EngineAssumption, TypeOK, Backlog, Available, LineProofs!LineInv,
           LineProofs!HeldBound, LineProofs!Prefill
  <2>3. QED
    BY <2>1, <2>2 DEF EngineAssumption, TypeOK, BuffersSound
<1>2. QED
  BY <1>1, EngineBuffers, EngineWholeFrames, EngineHolds, PTL
==========================================================================
