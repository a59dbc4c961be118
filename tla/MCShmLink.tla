----------------------------- MODULE MCShmLink -----------------------------
(* A segment is referred to by the name, by the application or by the       *)
(* driver.  When one is opened the name leads nowhere, so two are enough,   *)
(* and three when the application may still hold one.                       *)
EXTENDS ShmLink, TLC

CONSTANTS s1, s2, s3

TwoSegments == {s1, s2}
ThreeSegments == {s1, s2, s3}
AnySegment == Permutations(Segments)
==========================================================================
