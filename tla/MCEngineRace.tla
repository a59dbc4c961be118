--------------------------- MODULE MCEngineRace ---------------------------
(* Frames of 2 samples, callbacks shorter than, as long as and longer than  *)
(* a frame, and one mode for each denoiser.                                 *)
EXTENDS EngineRace

MCCallbackSizes == 1..FrameSize + 1
MCModes == {"Balanced", "CpuSaver"}
==========================================================================
