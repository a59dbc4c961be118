--------------------------- MODULE MCEngineReal ---------------------------
(* The constants of the code: frames of 480 samples at 48 kHz, callbacks of *)
(* the 128 samples the sources speak of or of 1024; a fallback after 5 slow *)
(* frames for 100 frames.                                                   *)
EXTENDS Engine

Callbacks128 == {128}
Callbacks1024 == {1024}
OneMode == {"Balanced"}
==========================================================================
