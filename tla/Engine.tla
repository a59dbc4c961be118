------------------------------ MODULE Engine ------------------------------
(***************************************************************************)
(* noise::Engine: the denoiser between the microphone callback and the     *)
(* shared ring.  process_frame() takes callbacks of any length, cuts them  *)
(* into frames of FrameSize samples, runs one frame at a time through      *)
(* DeepFilterNet or RNNoise (or, when inference is too slow, through       *)
(* nothing), and hands out as many samples as it was given.                *)
(*                                                                         *)
(* Buffers are modelled by their lengths: no branch looks at a sample.     *)
(* process_frame() runs in steps: append, one step per frame, hand out.    *)
(* The control calls (init, shutdown, set_mode, ...) happen between two    *)
(* calls of process_frame(): the class has no locks and relies on that.    *)
(* The application stops the audio callback before init and shutdown, but  *)
(* not before set_mode(): EngineRace lets the two overlap.                 *)
(***************************************************************************)
EXTENDS Integers

CONSTANTS FrameSize,      \* DENOISE_FRAME_SIZE, 480 in the code
          CallbackSizes,  \* num_frames of the calls
          Modes,          \* the modes the user switches between
          TriggerCount,   \* OVERLOAD_TRIGGER_COUNT, 5 in the code
          CooldownFrames  \* OVERLOAD_COOLDOWN_FRAMES, 100 in the code

ASSUME EngineAssumption ==
    /\ FrameSize \in Nat \ {0}
    /\ CallbackSizes \subseteq Nat \ {0}
    /\ Modes \subseteq {"Balanced", "MaxQuality", "CpuSaver"}
    /\ TriggerCount \in Nat \ {0}
    /\ CooldownFrames \in Nat

\* Mutant: output starts with one frame.
PrefillOneFrame == FrameSize

Prefill == FrameSize * 2    \* OUTPUT_PREFILL_SAMPLES

VARIABLES
    status, mode,
    rnnoise,              \* is there an RNNoise state?
    deepfilter,           \* no object, an object without model, or with one
    df_memory,            \* what the model's recurrent state was fed with
    override, atten,      \* attenuation asked for, and set in the model
    in, out, read_pos, started,     \* input_buffer_, output_buffer_, ...
    overload_count, overload_cooldown, in_overload,
    pc, frames,           \* step and num_frames of process_frame()
    result,               \* what its last call handed out
    slow_run, raw_run     \* history: slow, and bypassed, frames in a row

denoisers == <<rnnoise, deepfilter, df_memory, override, atten>>
buffers == <<in, out, read_pos, started>>
overload == <<overload_count, overload_cooldown, in_overload>>
history == <<slow_run, raw_run>>
vars == <<status, mode, denoisers, buffers, overload, pc, frames, result, history>>

Init ==
    /\ status = "Stopped" /\ mode = "Balanced"
    /\ rnnoise = FALSE /\ deepfilter = "none" /\ df_memory = "zero"
    /\ override = "default" /\ atten = "default"
    /\ in = 0 /\ out = 0 /\ read_pos = 0 /\ started = FALSE
    /\ overload_count = 0 /\ overload_cooldown = 0 /\ in_overload = FALSE
    /\ pc = "idle" /\ frames = 0 /\ result = "none"
    /\ slow_run = 0 /\ raw_run = 0

----------------------------------------------------------------------------
ClearBuffers == in' = 0 /\ out' = 0 /\ read_pos' = 0 /\ started' = FALSE

ResetOverload ==
    /\ overload_count' = 0 /\ overload_cooldown' = 0 /\ in_overload' = FALSE
    /\ slow_run' = 0 /\ raw_run' = 0

\* The buffers start anew: without reset_state() the model would go on with
\* what it remembers of the audio before.
DfKept == df_memory' = IF df_memory = "current" THEN "old" ELSE df_memory
DfReset == df_memory' = "zero"

\* DeepFilterEngine::load(): the recurrent state is reset when it succeeds;
\* when it fails the old model is dropped, with its state left as it was.
DfLoad(loads, memory) ==
    /\ deepfilter' = IF loads THEN "loaded" ELSE "unloaded"
    /\ df_memory' = IF loads THEN "zero" ELSE memory

\* DeepFilterEngine::process_frame(): the state advances with the audio; an
\* inference that fails leaves it alone and answers with silence.
DfInfer == \/ UNCHANGED df_memory
           \/ df_memory = "zero" /\ df_memory' = "current"

\* load_deepfilter_model() without a path: a new object, whether or not a
\* model is found and loads; a loaded one gets the attenuation asked for.
LoadDefaultModel ==
    \E loads \in BOOLEAN :
        /\ DfLoad(loads, "zero")
        /\ atten' = IF loads THEN override ELSE "default"

----------------------------------------------------------------------------
\* The control calls.

InitOk ==
    /\ pc = "idle"
    /\ rnnoise' = TRUE
    /\ \/ deepfilter # "loaded" /\ LoadDefaultModel
       \/ deepfilter = "loaded" /\ DfReset /\ UNCHANGED <<deepfilter, atten>>
    /\ ClearBuffers /\ ResetOverload
    /\ status' = "Running"
    /\ UNCHANGED <<mode, override, pc, frames, result>>

\* Mutant: a failed init leaves the status as it was.
InitFailsSilently ==
    /\ pc = "idle"
    /\ rnnoise' = FALSE
    /\ UNCHANGED <<status, mode, deepfilter, df_memory, override, atten, buffers,
                   overload, pc, frames, result, history>>

\* rnnoise_create() fails after the old state was destroyed.
InitFails ==
    /\ pc = "idle"
    /\ rnnoise' = FALSE
    /\ status' = "Error"
    /\ UNCHANGED <<mode, deepfilter, df_memory, override, atten, buffers,
                   overload, pc, frames, result, history>>

Shutdown ==
    /\ pc = "idle"
    /\ rnnoise' = FALSE
    /\ IF deepfilter = "none" THEN DfKept ELSE DfReset
    /\ ClearBuffers /\ ResetOverload
    /\ status' = "Stopped"
    /\ UNCHANGED <<mode, deepfilter, override, atten, pc, frames, result>>

\* Mutant: an override is not handed to the model.
ApplyAttenuationDefault(loaded, wanted) ==
    atten' = IF loaded THEN "default" ELSE atten

\* apply_attenuation_for_mode(): only a loaded model takes the value.
ApplyAttenuation(loaded, wanted) ==
    atten' = IF loaded THEN wanted ELSE atten

SetMode(m) ==
    /\ pc = "idle"
    /\ m # mode
    /\ mode' = m
    /\ ClearBuffers
    /\ IF deepfilter = "none" THEN DfKept ELSE DfReset
    /\ ApplyAttenuation(deepfilter = "loaded", override)
    /\ UNCHANGED <<status, rnnoise, deepfilter, override, overload,
                   pc, frames, result, history>>

\* load_deepfilter_model(path) of a file that exists.
LoadModel ==
    /\ pc = "idle"
    /\ \E loads \in BOOLEAN :
           /\ DfLoad(loads, IF deepfilter = "none" THEN "zero" ELSE df_memory)
           /\ ApplyAttenuation(loads, override)
    /\ UNCHANGED <<status, mode, rnnoise, override, buffers, overload,
                   pc, frames, result, history>>

SetAttenuationLimit(a) ==
    /\ pc = "idle"
    /\ override' = a
    /\ ApplyAttenuation(deepfilter = "loaded", a)
    /\ UNCHANGED <<status, mode, rnnoise, deepfilter, df_memory, buffers,
                   overload, pc, frames, result, history>>

----------------------------------------------------------------------------
\* process_frame().

\* The engine is not running: the call returns false.
Refuse ==
    /\ pc = "idle" /\ status # "Running"
    /\ result' = "refused"
    /\ UNCHANGED <<status, mode, denoisers, buffers, overload, pc, frames, history>>

\* The call has a denoiser (DenoiserReady), so it never copies its input
\* straight to its output; it mixes to mono and appends.
Append(n) ==
    /\ pc = "idle" /\ status = "Running"
    /\ in' = in + n
    /\ frames' = n
    /\ pc' = "frames"
    /\ UNCHANGED <<status, mode, denoisers, out, read_pos, started,
                   overload, result, history>>

UseDeepfilter == mode # "CpuSaver" /\ deepfilter = "loaded"

\* One frame leaves the input buffer and enters the output buffer.
MoveFrame == in' = in - FrameSize /\ out' = out + FrameSize

\* Mutant: the bypass does not count down.
BypassFrameForever ==
    /\ pc = "frames" /\ in >= FrameSize
    /\ in_overload /\ overload_cooldown > 0
    /\ MoveFrame
    /\ slow_run' = 0 /\ raw_run' = raw_run + 1
    /\ UNCHANGED <<status, mode, denoisers, read_pos, started,
                   overload, pc, frames, result>>

\* Mutant: the bypass takes a frame that is not complete.
BypassFramePartial ==
    /\ pc = "frames"
    /\ in_overload /\ overload_cooldown > 0
    /\ overload_cooldown' = overload_cooldown - 1
    /\ MoveFrame
    /\ slow_run' = 0 /\ raw_run' = raw_run + 1
    /\ UNCHANGED <<status, mode, denoisers, read_pos, started,
                   overload_count, in_overload, pc, frames, result>>

\* process_mono_chunk() in overload: the frame bypasses the denoiser.
BypassFrame ==
    /\ pc = "frames" /\ in >= FrameSize
    /\ in_overload /\ overload_cooldown > 0
    /\ overload_cooldown' = overload_cooldown - 1
    /\ MoveFrame
    /\ slow_run' = 0 /\ raw_run' = raw_run + 1
    /\ UNCHANGED <<status, mode, denoisers, read_pos, started,
                   overload_count, in_overload, pc, frames, result>>

\* Mutant: the end of the cooldown does not end the overload.
DenoiseFrameStillOverloaded(slow) ==
    LET count == overload_count + 1
    IN  /\ pc = "frames" /\ in >= FrameSize
        /\ ~(in_overload /\ overload_cooldown > 0)
        /\ overload_count' = IF slow THEN count ELSE 0
        /\ in_overload' = (in_overload \/ (slow /\ count >= TriggerCount))
        /\ overload_cooldown' = IF slow /\ count >= TriggerCount
                                THEN CooldownFrames ELSE overload_cooldown
        /\ MoveFrame
        /\ slow_run' = (IF slow THEN slow_run + 1 ELSE 0) /\ raw_run' = 0
        /\ UNCHANGED <<status, mode, denoisers, read_pos, started, pc,
                       frames, result>>

\* Mutant: a fast frame does not reset the count of slow ones.
DenoiseFrameAnyOrder(slow) ==
    LET count == (IF in_overload THEN 0 ELSE overload_count)
                 + (IF slow THEN 1 ELSE 0)
    IN  /\ pc = "frames" /\ in >= FrameSize
        /\ ~(in_overload /\ overload_cooldown > 0)
        /\ overload_count' = count
        /\ in_overload' = (slow /\ count >= TriggerCount)
        /\ overload_cooldown' = IF slow /\ count >= TriggerCount
                                THEN CooldownFrames ELSE overload_cooldown
        /\ MoveFrame
        /\ slow_run' = (IF slow THEN slow_run + 1 ELSE 0) /\ raw_run' = 0
        /\ UNCHANGED <<status, mode, denoisers, read_pos, started, pc,
                       frames, result>>

\* process_mono_chunk() through a denoiser; slow: it took longer than
\* OVERLOAD_THRESHOLD_MS.  An expired overload has been cleared before.
DenoiseFrame(slow) ==
    LET count == (IF in_overload THEN 0 ELSE overload_count) + 1
    IN  /\ pc = "frames" /\ in >= FrameSize
        /\ ~(in_overload /\ overload_cooldown > 0)
        /\ overload_count' = IF slow THEN count ELSE 0
        /\ in_overload' = (slow /\ count >= TriggerCount)
        /\ overload_cooldown' = IF slow /\ count >= TriggerCount
                                THEN CooldownFrames ELSE overload_cooldown
        /\ IF UseDeepfilter THEN DfInfer ELSE UNCHANGED df_memory
        /\ MoveFrame
        /\ slow_run' = (IF slow THEN slow_run + 1 ELSE 0) /\ raw_run' = 0
        /\ UNCHANGED <<status, mode, rnnoise, deepfilter, override, atten,
                       read_pos, started, pc, frames, result>>

Available == out - read_pos

\* Mutant: what was handed out is never erased.
HandOutWithoutCompaction ==
    LET emits == started' /\ Available >= frames
    IN  /\ pc = "frames" /\ in < FrameSize
        /\ started' = (started \/ Available >= Prefill)
        /\ read_pos' = IF emits THEN read_pos + frames ELSE read_pos
        /\ result' = IF emits THEN "audio" ELSE "silence"
        /\ pc' = "idle" /\ frames' = 0
        /\ UNCHANGED <<status, mode, denoisers, in, out, overload, history>>

\* Mutant: the call that completes the prefill is still silent.
HandOutOneCallLater ==
    LET emits == started /\ Available >= frames
        pos == read_pos + frames
        compacts == emits /\ pos > FrameSize * 2
    IN  /\ pc = "frames" /\ in < FrameSize
        /\ started' = (started \/ Available >= Prefill)
        /\ read_pos' = IF compacts THEN 0 ELSE IF emits THEN pos ELSE read_pos
        /\ out' = IF compacts THEN out - pos ELSE out
        /\ result' = IF emits THEN "audio" ELSE "silence"
        /\ pc' = "idle" /\ frames' = 0
        /\ UNCHANGED <<status, mode, denoisers, in, overload, history>>

\* Mutant: a call that cannot be answered clears the buffers.
HandOutStartsOver ==
    LET emits == (started \/ Available >= Prefill) /\ Available >= frames
        pos == read_pos + frames
        compacts == pos > FrameSize * 2
    IN  /\ pc = "frames" /\ in < FrameSize
        /\ IF emits
           THEN /\ started' = TRUE /\ UNCHANGED in
                /\ read_pos' = IF compacts THEN 0 ELSE pos
                /\ out' = IF compacts THEN out - pos ELSE out
           ELSE ClearBuffers
        /\ result' = IF emits THEN "audio" ELSE "silence"
        /\ pc' = "idle" /\ frames' = 0
        /\ UNCHANGED <<status, mode, denoisers, overload, history>>

\* No whole frame is left.  Output starts once Prefill samples are there;
\* a call is answered in full or with silence; what was handed out is erased
\* when it is more than two frames.
HandOut ==
    LET emits == started' /\ Available >= frames
        pos == read_pos + frames
        compacts == emits /\ pos > FrameSize * 2
    IN  /\ pc = "frames" /\ in < FrameSize
        /\ started' = (started \/ Available >= Prefill)
        /\ read_pos' = IF compacts THEN 0 ELSE IF emits THEN pos ELSE read_pos
        /\ out' = IF compacts THEN out - pos ELSE out
        /\ result' = IF emits THEN "audio" ELSE "silence"
        /\ pc' = "idle" /\ frames' = 0
        /\ UNCHANGED <<status, mode, denoisers, in, overload, history>>

----------------------------------------------------------------------------
Control == \/ InitOk \/ InitFails \/ Shutdown
           \/ \E m \in Modes : SetMode(m)
           \/ LoadModel
           \/ \E a \in {"default", "custom"} : SetAttenuationLimit(a)

Process == \/ Refuse
           \/ \E n \in CallbackSizes : Append(n)
           \/ BypassFrame
           \/ \E slow \in BOOLEAN : DenoiseFrame(slow)
           \/ HandOut

Next == Control \/ Process

Spec == Init /\ [][Next]_vars

\* The audio device keeps calling back.
FairSpec == Spec /\ WF_vars(Process)

----------------------------------------------------------------------------
(***************************************************************************)
(* Properties.                                                             *)
(***************************************************************************)

\* Every variable has its type.
TypeOK ==
    /\ status \in {"Stopped", "Running", "Error"}
    /\ mode \in {"Balanced", "MaxQuality", "CpuSaver"}
    /\ rnnoise \in BOOLEAN
    /\ deepfilter \in {"none", "unloaded", "loaded"}
    /\ df_memory \in {"zero", "current", "old"}
    /\ override \in {"default", "custom"} /\ atten \in {"default", "custom"}
    /\ in \in Nat /\ out \in Nat /\ read_pos \in Nat /\ started \in BOOLEAN
    /\ overload_count \in Nat /\ overload_cooldown \in Nat
    /\ in_overload \in BOOLEAN
    /\ pc \in {"idle", "frames"} /\ frames \in Nat
    /\ pc = "idle" => frames = 0
    /\ result \in {"none", "refused", "audio", "silence"}
    /\ slow_run \in Nat /\ raw_run \in Nat

\* The samples inside the engine: the delay it adds to the audio.
Backlog == in + Available

\* The read position stays inside the output buffer, so that available does
\* not wrap around and the compaction erases what exists; between two calls
\* less than a frame waits for the denoiser, and the output buffer is being
\* filled for the first time or keeps at most two frames that were read.
BuffersSound ==
    /\ read_pos <= out /\ read_pos <= FrameSize * 2
    /\ pc = "idle" => /\ in < FrameSize
                      /\ ~started => out < Prefill
    /\ ~started => read_pos = 0

\* A running engine has its RNNoise state, through failed and repeated init,
\* shutdown and mode switches: process_mono_chunk() never hands rnnoise a
\* null state, and the passthrough of process_frame() is never taken.
DenoiserReady == status = "Running" => rnnoise

\* A loaded model uses the attenuation that was asked for, in whatever order
\* limit, model and mode were set.
AttenuationApplied == deepfilter = "loaded" => atten = override

\* DeepFilterNet never continues from the memory of audio that was dropped
\* by a mode switch, a stop or a restart.
DfStartsFresh == deepfilter = "loaded" => df_memory # "old"

\* Callbacks at most one sample longer than a frame.
SmallCallbacks == \A n \in CallbackSizes : n <= FrameSize + 1

\* The cushion behind NoDropout: what a started engine holds back between two
\* calls stays at least a frame less one sample, the most that can be waiting
\* in the input buffer, and less than two frames.  Before output has started
\* the output buffer holds whole frames.
Cushion ==
    SmallCallbacks =>
        /\ pc = "frames" => frames \in CallbackSizes
        /\ Backlog - frames < Prefill
        /\ started => Backlog - frames >= FrameSize - 1
        /\ ~started => out \in {0, FrameSize, FrameSize * 2, FrameSize * 3}

\* Between two calls the engine holds back less than the two frames it starts
\* with, or than a longer call that came up short has added to less than a
\* frame, however the lengths of the callbacks vary.
LatencyBound ==
    pc = "idle" => \/ Backlog < Prefill
                   \/ \E n \in CallbackSizes : Backlog < FrameSize - 1 + n

\* Once output has started, every call gets audio: two frames of prefill are
\* enough for callbacks of any mixture of lengths up to a frame.
NoDropout == [][SmallCallbacks /\ pc = "frames" /\ pc' = "idle" /\ started'
                    => result' = "audio"]_vars

\* The overload fallback is entered only after TriggerCount slow frames in a
\* row, none of them before the last fast or bypassed frame.
TripsOnlyWhenSlow ==
    [][overload_cooldown' > overload_cooldown => slow_run' >= TriggerCount]_vars

\* A fallback bypasses CooldownFrames frames and then tries the denoiser
\* again, whatever mode switches fall into it.
PassthroughExact ==
    [][pc = "frames" /\ raw_run' # raw_run =>
           /\ raw_run' <= CooldownFrames
           /\ raw_run' = 0 => raw_run = CooldownFrames]_vars

\* When the user leaves the controls alone, an overload ends.
OverloadEnds ==
    <>[][~Control]_vars =>
        ((status = "Running" /\ in_overload) ~> (status # "Running" \/ ~in_overload))

\* A call takes effect when it hands out; until then the line holds what it
\* held before the call.
Line == INSTANCE DelayLine WITH held <- Backlog - frames

\* To its caller the engine is a delay line: append, frame by frame, hand out
\* and compact amount to one step that either emits or fills, for callbacks
\* of any length, in every mode, overloaded or not.
ImplementsDelayLine == Line!Spec

\* The buffers stay within what init() reserves for them.
NoReallocation == in <= FrameSize * 4 /\ out <= FrameSize * 4

\* The latency the README names: at most 16 ms at 48 samples per ms.
LatencyAsDocumented == started /\ pc = "idle" => Backlog <= 16 * 48
==========================================================================
