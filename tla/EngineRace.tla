---------------------------- MODULE EngineRace ----------------------------
(***************************************************************************)
(* noise::Engine as the application uses it: process_frame() runs on the   *)
(* device's real-time thread, and set_mode() on the main thread whenever   *)
(* the user picks a mode.  Nothing keeps the two apart, so here they run   *)
(* in the steps the other thread can get between.                          *)
(*                                                                         *)
(* Each operation on a vector is one step, which is the kindest reading of *)
(* a data race; erasing or indexing past the end of a vector crashes or    *)
(* plays whatever is there.  A sample in output_buffer_ is named by the    *)
(* mode it was denoised in.  The model leaves out overload and failures,   *)
(* which Engine has, and the end of set_mode() (engine.cpp:421-427), which *)
(* resets and tunes the model inside DeepFilterNet: that races with the    *)
(* inference of a frame as well, but no buffer of the engine depends on it.*)
(***************************************************************************)
EXTENDS Integers, Sequences

CONSTANTS FrameSize, CallbackSizes, Modes

VARIABLES
    mode, in, out, read_pos, started,   \* the engine
    pc, n, used, available,    \* process_frame(): its step and its locals
    upc                        \* set_mode(): its step

engine == <<mode, in, out, read_pos, started>>
audio == <<pc, n, used, available>>
vars == <<engine, audio, upc>>

Init == /\ mode \in Modes
        /\ in = 0 /\ out = << >> /\ read_pos = 0 /\ started = FALSE
        /\ pc = "idle" /\ n = 0 /\ used = mode /\ available = 0
        /\ upc = "idle"

----------------------------------------------------------------------------
\* The real-time thread.

TakeInput(frames) ==
    /\ pc = "idle"
    /\ in' = in + frames /\ n' = frames
    /\ pc' = "frames"
    /\ UNCHANGED <<mode, out, read_pos, started, used, available, upc>>

\* process_mono_chunk() picks the denoiser, denoises, appends and erases.
ChunkBegin ==
    /\ pc = "frames" /\ in >= FrameSize
    /\ used' = mode
    /\ pc' = "push"
    /\ UNCHANGED <<engine, n, available, upc>>

ChunkPush ==
    /\ pc = "push"
    /\ out' = out \o [i \in 1..FrameSize |-> used]
    /\ pc' = "erase"
    /\ UNCHANGED <<mode, in, read_pos, started, n, used, available, upc>>

ChunkErase ==
    /\ pc = "erase"
    /\ IF in >= FrameSize THEN in' = in - FrameSize /\ pc' = "frames"
                          ELSE pc' = "crashed" /\ UNCHANGED in
    /\ UNCHANGED <<mode, out, read_pos, started, n, used, available, upc>>

\* The difference of the unsigned sizes wraps around when the buffer has been
\* cleared and the position has not.
Huge == FrameSize * 1000

Measure ==
    /\ pc = "frames" /\ in < FrameSize
    /\ available' = IF read_pos <= Len(out) THEN Len(out) - read_pos ELSE Huge
    /\ started' = (started \/ available' >= FrameSize * 2)
    /\ pc' = "emit"
    /\ UNCHANGED <<mode, in, out, read_pos, n, used, upc>>

Emit ==
    LET emits == started /\ available >= n
        pos == read_pos + n
        compacts == emits /\ pos > FrameSize * 2
    IN  /\ pc = "emit"
        /\ read_pos' = IF compacts THEN 0 ELSE IF emits THEN pos ELSE read_pos
        /\ IF compacts /\ pos > Len(out)
           THEN pc' = "crashed" /\ UNCHANGED out
           ELSE /\ pc' = "idle"
                /\ out' = IF compacts THEN SubSeq(out, pos + 1, Len(out)) ELSE out
        /\ UNCHANGED <<mode, in, started, n, used, available, upc>>

----------------------------------------------------------------------------
\* The main thread: set_mode() to another mode, statement by statement.

SetMode(m) ==
    /\ upc = "idle" /\ m # mode
    /\ mode' = m
    /\ upc' = "input"
    /\ UNCHANGED <<in, out, read_pos, started, audio>>

ClearInput ==
    /\ upc = "input"
    /\ in' = 0
    /\ upc' = "output"
    /\ UNCHANGED <<mode, out, read_pos, started, audio>>

ClearOutput ==
    /\ upc = "output"
    /\ out' = << >>
    /\ upc' = "position"
    /\ UNCHANGED <<mode, in, read_pos, started, audio>>

ClearPosition ==
    /\ upc = "position"
    /\ read_pos' = 0
    /\ upc' = "started"
    /\ UNCHANGED <<mode, in, out, started, audio>>

ClearStarted ==
    /\ upc = "started"
    /\ started' = FALSE
    /\ upc' = "idle"
    /\ UNCHANGED <<mode, in, out, read_pos, audio>>

----------------------------------------------------------------------------
ProcessFrame == \/ \E frames \in CallbackSizes : TakeInput(frames)
                \/ ChunkBegin \/ ChunkPush \/ ChunkErase \/ Measure \/ Emit

SwitchMode == \/ \E m \in Modes : SetMode(m)
              \/ ClearInput \/ ClearOutput \/ ClearPosition \/ ClearStarted

\* A crash ends both threads.
Next == ProcessFrame \/ (pc # "crashed" /\ SwitchMode)

Spec == Init /\ [][Next]_vars

----------------------------------------------------------------------------
\* What set_mode() clears the buffers for (engine.cpp:416): when it has
\* returned, no sample of the previous denoiser is left to be played.
NoStaleSamples ==
    upc = "idle" => \A i \in DOMAIN out : i > read_pos => out[i] = mode
==========================================================================
