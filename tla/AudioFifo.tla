---------------------------- MODULE AudioFifo ----------------------------
(***************************************************************************)
(* What the shared memory ring promises to its two users: a bounded first- *)
(* in first-out queue of audio samples in which each of the producer's     *)
(* and the consumer's calls takes effect at one instant.                   *)
(*                                                                         *)
(* A sample is named by its place in the stream of accepted samples, so    *)
(* sample 7 is the eighth sample that write() ever accepted; whatever      *)
(* loses, repeats, reorders or tears samples shows as a wrong number.      *)
(***************************************************************************)
EXTENDS Integers, Sequences

CONSTANTS Capacity,     \* samples the queue can hold
          WriteSizes,   \* lengths of the producer's chunks
          ReadSizes     \* lengths the consumer asks for

VARIABLES accepted,     \* how many samples have ever been accepted
          queue,        \* the accepted samples not yet handed out
          write_ok,     \* what the last write() returned
          out           \* what the last read() handed out; <<>> is silence

vars == <<accepted, queue, write_ok, out>>

\* The n samples of the stream that start at position p.
Stream(p, n) == [i \in 1..n |-> p + i - 1]

Init == /\ accepted = 0
        /\ queue = << >>
        /\ write_ok = TRUE
        /\ out = << >>

\* A chunk is accepted whole when it fits ...
Put(n) == /\ Len(queue) + n <= Capacity
          /\ queue' = queue \o Stream(accepted, n)
          /\ accepted' = accepted + n
          /\ write_ok' = TRUE
          /\ UNCHANGED out

\* ... and otherwise dropped whole.
Refuse(n) == /\ Len(queue) + n > Capacity
             /\ write_ok' = FALSE
             /\ UNCHANGED <<accepted, queue, out>>

\* The consumer gets the oldest n samples ...
Take(n) == /\ n <= Len(queue)
           /\ out' = SubSeq(queue, 1, n)
           /\ queue' = SubSeq(queue, n + 1, Len(queue))
           /\ UNCHANGED <<accepted, write_ok>>

\* ... or silence, when there are not as many.
Underrun(n) == /\ n > Len(queue)
               /\ out' = << >>
               /\ UNCHANGED <<accepted, queue, write_ok>>

\* A flush drops the oldest samples; those accepted while it runs may stay.
Discard == /\ \E n \in 0..Len(queue) : queue' = SubSeq(queue, n + 1, Len(queue))
           /\ UNCHANGED <<accepted, write_ok, out>>

Next == \/ \E n \in WriteSizes : Put(n) \/ Refuse(n)
        \/ \E n \in ReadSizes : Take(n) \/ Underrun(n)
        \/ Discard

Spec == Init /\ [][Next]_vars
==========================================================================
