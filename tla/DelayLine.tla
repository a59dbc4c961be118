---------------------------- MODULE DelayLine ----------------------------
(***************************************************************************)
(* What Engine::process_frame() promises to the code that calls it: a line *)
(* of samples with a delay.  A call hands in some samples and gets back as *)
(* many, of the audio that has passed through the line, or silence.        *)
(*                                                                         *)
(* Frames, denoisers, overload and the two buffers do not show.  The line  *)
(* fills until Prefill samples are in it; from then on a call is silent    *)
(* only when less than FrameSize - 1 samples were held back before it, and *)
(* each silence makes the line longer by what the call handed in.          *)
(***************************************************************************)
EXTENDS Integers

CONSTANTS FrameSize,      \* samples the denoiser takes at a time
          CallbackSizes   \* samples handed in by a call

VARIABLES held,      \* samples in the line
          started,   \* has it been filled?
          result     \* what the last call handed out

vars == <<held, started, result>>

Prefill == FrameSize * 2

Init == held = 0 /\ started = FALSE /\ result = "none"

\* The line is full enough to hand out n samples, and goes on delaying as much.
Emit(n) ==
    /\ started \/ held + n >= Prefill
    /\ started' = TRUE
    /\ result' = "audio"
    /\ UNCHANGED held

\* Not yet, or not any more.
Fill(n) ==
    /\ started' = (started \/ held + n >= Prefill)
    /\ started' => held < FrameSize - 1
    /\ result' = "silence"
    /\ held' = held + n

\* A stopped engine does not take part.
Refuse == result' = "refused" /\ UNCHANGED <<held, started>>

\* A start, a stop or a switch of the mode.
Clear == held' = 0 /\ started' = FALSE /\ UNCHANGED result

Next == \/ \E n \in CallbackSizes : Emit(n) \/ Fill(n)
        \/ Refuse \/ Clear

Spec == Init /\ [][Next]_vars
==========================================================================
