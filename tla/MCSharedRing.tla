--------------------------- MODULE MCSharedRing ---------------------------
(* A small ring: chunks of 1 and 3 samples are written into 4 cells and     *)
(* read back in chunks of 2 and 3, so the copies are split at every place   *)
(* and the ring is full, empty and in between.                              *)
EXTENDS SharedRing

MCWriteSizes == {1, 3}
MCReadSizes == {2, 3}
==========================================================================
