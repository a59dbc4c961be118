----------------------------- MODULE MCEngine -----------------------------
(* Frames of 3 samples and callbacks of every length up to a frame and one; *)
(* two modes, one for each denoiser; overload after 2 slow frames.          *)
EXTENDS Engine

MCCallbackSizes == 1..FrameSize + 1
MCModes == {"Balanced", "CpuSaver"}
==========================================================================
