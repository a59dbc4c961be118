-------------------------- MODULE MCPipelineReal --------------------------
(* The constants of the code in units of 32 frames: frames of 480, a ring   *)
(* of 4800, a stale count of 50.  The microphone's buffer is 4096 frames,   *)
(* the most that CaptureContext takes; the client asks for 64.              *)
EXTENDS Pipeline

CONSTANT c1

Capture4096 == {128}
Request64 == {2}
OneClient == {c1}
==========================================================================
