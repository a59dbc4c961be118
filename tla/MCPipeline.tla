---------------------------- MODULE MCPipeline ----------------------------
(* Frames of 3, a ring of 15.  The microphone's buffer is shorter or longer *)
(* than a frame; a client's is too short for the longer one (1), suits both *)
(* (3), or leaves room for neither a write nor a read beside it (14).       *)
EXTENDS Pipeline

CONSTANTS c1, c2

MCCaptureSizes == {2, 5}
MCRequestSizes == {1, 3, 14}
MCClients == {c1}

\* The sizes of the microphone and of two equal clients.
OneSize == {3}
TwoClients == {c1, c2}
==========================================================================
