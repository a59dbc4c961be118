---------------------------- MODULE MCAppControl ----------------------------
(* Two microphones: one can go while the other stays, or take its place.    *)
EXTENDS AppControl
=============================================================================
