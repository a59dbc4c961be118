---------------------------- MODULE SharedRing ----------------------------
(***************************************************************************)
(* One shared memory segment of noise::SharedRingBuffer with its producer  *)
(* (write(), called by the application's audio callback) and its consumer  *)
(* (flush() and read(), called by the driver's IO callback in coreaudiod). *)
(*                                                                         *)
(* Each call runs in the steps another process can tell apart: the load of *)
(* the other side's position with the test that decides the call, the copy *)
(* of each sample (a memcpy orders nothing, so the samples are copied in   *)
(* any order) and the release store that publishes the result.  A side is  *)
(* the only writer of its own position, so it may load it at any time.     *)
(*                                                                         *)
(* Either side may stop between any two steps: the application crashes, or *)
(* coreaudiod is killed or drops the mapping.  A consumer that maps the    *)
(* segment again flushes before it reads, as ensureConnected() does.       *)
(*                                                                         *)
(* A sample is named by its place in the stream of accepted samples; the   *)
(* code never looks at a sample, so no other value can behave differently. *)
(***************************************************************************)
EXTENDS Integers, Sequences

CONSTANTS Capacity,     \* header->capacity, in samples
          WriteSizes,   \* num_samples of the producer's calls
          ReadSizes,    \* num_samples of the consumer's calls
          MaxPos        \* bound: the stream stops after MaxPos samples

ASSUME RingAssumption == /\ Capacity \in Nat \ {0}
                         /\ WriteSizes \subseteq Nat \ {0}
                         /\ ReadSizes \subseteq Nat
                         /\ MaxPos \in Nat

VARIABLES
    write_pos, read_pos,    \* the positions in the shared header
    heartbeat,              \* the header's count of completed writes
    data,                   \* the shared cells
    wpc, wn, wleft,         \* producer: step, num_samples, samples to copy
    write_ok,               \* what the last write() returned
    writes,                 \* history: calls of write() that were accepted
    rpc, rn, rleft, rbuf,   \* consumer: step, num_samples, to copy, copied
    flush_pos,              \* the write position the last flush() loaded
    out                     \* what the last read() gave; <<>> is silence

memory == <<write_pos, read_pos, heartbeat, data>>
producer == <<wpc, wn, wleft, write_ok, writes>>
consumer == <<rpc, rn, rleft, rbuf, flush_pos, out>>
vars == <<memory, producer, consumer>>

Blank == -1                 \* a cell no sample was ever copied to

Init == /\ write_pos = 0 /\ read_pos = 0 /\ heartbeat = 0
        /\ data = [c \in 0..Capacity - 1 |-> Blank]
        /\ wpc = "idle" /\ wn = 0 /\ wleft = {} /\ write_ok = TRUE /\ writes = 0
        /\ rpc = "detached" /\ rn = 0 /\ rleft = {} /\ rbuf = << >>
        /\ flush_pos = 0 /\ out = << >>

----------------------------------------------------------------------------
AvailableRead == write_pos - read_pos
\* Mutant: one sample too many fits.
AvailableWriteOffByOne == Capacity - (write_pos - read_pos) + 1

AvailableWrite == Capacity - (write_pos - read_pos)

\* Mutant: the second part of a split copy does not start at the first cell.
CellUnwrapped(pos, n, k) ==
    LET index == pos % Capacity
    IN  IF k < Capacity - index THEN index + k ELSE k

\* The cell of the k-th of n samples that start at position pos: the code
\* splits the copy in two, at the end of the array.
Cell(pos, n, k) ==
    LET index == pos % Capacity
        first == IF n <= Capacity - index THEN n ELSE Capacity - index
    IN  IF k < first THEN index + k ELSE k - first

----------------------------------------------------------------------------
\* The producer.

WriteBegin(n) ==
    /\ wpc = "idle"
    /\ write_pos + n <= MaxPos
    /\ n <= AvailableWrite
    /\ wpc' = "copy" /\ wn' = n /\ wleft' = 0..n - 1
    /\ UNCHANGED <<memory, write_ok, writes, consumer>>

\* Mutant: a call that drops its chunk beats, too.
WriteOverflowBeats(n) ==
    /\ wpc = "idle"
    /\ n > AvailableWrite
    /\ write_ok' = FALSE /\ heartbeat' = heartbeat + 1
    /\ UNCHANGED <<write_pos, read_pos, data, wpc, wn, wleft, writes, consumer>>

WriteOverflow(n) ==
    /\ wpc = "idle"
    /\ n > AvailableWrite
    /\ write_ok' = FALSE
    /\ UNCHANGED <<memory, wpc, wn, wleft, writes, consumer>>

WriteCopy(k) ==
    /\ wpc = "copy"
    /\ data' = [data EXCEPT ![Cell(write_pos, wn, k)] = write_pos + k]
    /\ wleft' = wleft \ {k}
    /\ UNCHANGED <<write_pos, read_pos, heartbeat, wpc, wn, write_ok, writes,
                   consumer>>

\* Mutant: the release store does not wait for the copy.
WritePublishEarly ==
    /\ wpc = "copy"
    /\ write_pos' = write_pos + wn
    /\ wpc' = "beat" /\ wn' = 0 /\ write_ok' = TRUE /\ writes' = writes + 1
    /\ UNCHANGED <<read_pos, heartbeat, data, wleft, consumer>>

WritePublish ==
    /\ wpc = "copy" /\ wleft = {}
    /\ write_pos' = write_pos + wn
    /\ wpc' = "beat" /\ wn' = 0 /\ write_ok' = TRUE /\ writes' = writes + 1
    /\ UNCHANGED <<read_pos, heartbeat, data, wleft, consumer>>

WriteBeat ==
    /\ wpc = "beat"
    /\ heartbeat' = heartbeat + 1
    /\ wpc' = "idle"
    /\ UNCHANGED <<write_pos, read_pos, data, wn, wleft, write_ok, writes,
                   consumer>>

\* The application is killed, or destroys the ring, at any step.
ProducerStops ==
    /\ wpc # "stopped"
    /\ wpc' = "stopped" /\ wn' = 0 /\ wleft' = {}
    /\ UNCHANGED <<memory, write_ok, writes, consumer>>

----------------------------------------------------------------------------
\* The consumer.

FlushLoad ==
    /\ rpc = "detached"
    /\ flush_pos' = write_pos
    /\ rpc' = "flush"
    /\ UNCHANGED <<memory, producer, rn, rleft, rbuf, out>>

\* Mutant: the flush does not store what it loaded.
FlushStoreNothing ==
    /\ rpc = "flush"
    /\ rpc' = "idle"
    /\ UNCHANGED <<memory, producer, rn, rleft, rbuf, flush_pos, out>>

\* Mutant: the flush starts over at the first sample.
FlushStoreZero ==
    /\ rpc = "flush"
    /\ read_pos' = 0
    /\ rpc' = "idle"
    /\ UNCHANGED <<write_pos, heartbeat, data, producer,
                   rn, rleft, rbuf, flush_pos, out>>

FlushStore ==
    /\ rpc = "flush"
    /\ read_pos' = flush_pos
    /\ rpc' = "idle"
    /\ UNCHANGED <<write_pos, heartbeat, data, producer,
                   rn, rleft, rbuf, flush_pos, out>>

ReadBegin(n) ==
    /\ rpc = "idle"
    /\ n <= AvailableRead
    /\ rpc' = "copy" /\ rn' = n /\ rleft' = 0..n - 1
    /\ rbuf' = [i \in 1..n |-> Blank]
    /\ UNCHANGED <<memory, producer, flush_pos, out>>

\* Mutant: an underrun hands out what there is and leaves it in the ring.
ReadUnderrunPartial(n) ==
    /\ rpc = "idle"
    /\ n > AvailableRead
    /\ out' = [i \in 1..AvailableRead |-> read_pos + i - 1]
    /\ UNCHANGED <<memory, producer, rpc, rn, rleft, rbuf, flush_pos>>

ReadUnderrun(n) ==
    /\ rpc = "idle"
    /\ n > AvailableRead
    /\ out' = << >>
    /\ UNCHANGED <<memory, producer, rpc, rn, rleft, rbuf, flush_pos>>

ReadCopy(k) ==
    /\ rpc = "copy"
    /\ rbuf' = [rbuf EXCEPT ![k + 1] = data[Cell(read_pos, rn, k)]]
    /\ rleft' = rleft \ {k}
    /\ UNCHANGED <<memory, producer, rpc, rn, flush_pos, out>>

ReadFinish ==
    /\ rpc = "copy" /\ rleft = {}
    /\ read_pos' = read_pos + rn
    /\ out' = rbuf
    /\ rpc' = "idle" /\ rn' = 0 /\ rbuf' = << >>
    /\ UNCHANGED <<write_pos, heartbeat, data, producer, rleft, flush_pos>>

\* The driver drops the mapping between two calls, or coreaudiod dies at
\* any step and the next process starts without one.
ConsumerDetaches ==
    /\ rpc # "detached"
    /\ rpc' = "detached" /\ rn' = 0 /\ rleft' = {} /\ rbuf' = << >>
    /\ UNCHANGED <<memory, producer, flush_pos, out>>

----------------------------------------------------------------------------
ProducerNext == \/ \E n \in WriteSizes : WriteBegin(n) \/ WriteOverflow(n)
                \/ \E k \in wleft : WriteCopy(k)
                \/ WritePublish \/ WriteBeat
                \/ ProducerStops

ConsumerNext == \/ FlushLoad \/ FlushStore
                \/ \E n \in ReadSizes : ReadBegin(n) \/ ReadUnderrun(n)
                \/ \E k \in rleft : ReadCopy(k)
                \/ ReadFinish
                \/ ConsumerDetaches

Next == ProducerNext \/ ConsumerNext

Spec == Init /\ [][Next]_vars

----------------------------------------------------------------------------
(***************************************************************************)
(* Properties.                                                             *)
(***************************************************************************)

\* Every variable has its type; a copy is in progress only over the samples
\* of the current call.
TypeOK ==
    /\ write_pos \in Nat /\ read_pos \in Nat /\ heartbeat \in Nat
    /\ data \in [0..Capacity - 1 -> Nat \cup {Blank}]
    /\ wpc \in {"idle", "copy", "beat", "stopped"} /\ wn \in Nat
    /\ wleft \subseteq 0..wn - 1
    /\ write_ok \in BOOLEAN /\ writes \in Nat
    /\ rpc \in {"detached", "flush", "idle", "copy"} /\ rn \in Nat
    /\ rleft \subseteq 0..rn - 1
    /\ rbuf \in [1..rn -> Nat \cup {Blank}]
    /\ flush_pos \in Nat
    /\ out \in Seq(Nat)

\* The positions never cross and never part by more than the capacity, even
\* while the consumer stores a write position it loaded earlier: the unsigned
\* subtractions of write() and read() cannot wrap around.
Occupancy == /\ read_pos <= write_pos
             /\ write_pos - read_pos <= Capacity

\* Every published sample that was not consumed is in its cell, whatever the
\* producer has copied since: a sample is never overwritten before it is read
\* and never published before it is copied.
UnreadIntact ==
    \A p \in read_pos..write_pos - 1 : data[p % Capacity] = p

\* The samples the consumer has copied so far are the consecutive samples it
\* asked for: no torn read across the end of the array or under the producer.
ReadsInOrder ==
    rpc = "copy" =>
        \A k \in (0..rn - 1) \ rleft : rbuf[k + 1] = read_pos + k

\* The two memcpy calls never touch the same cell at the same time: the cells
\* are plain floats, so an overlap would be a data race.
NoDataRace ==
    wpc = "copy" /\ rpc = "copy" =>
        \A i \in 0..wn - 1, j \in 0..rn - 1 :
            Cell(write_pos, wn, i) # Cell(read_pos, rn, j)

\* One beat for each write that was accepted, and none for one that was dropped:
\* a producer that keeps calling write() on a full ring does not look alive to
\* the consumer's stale count (io_handler.cpp), and one that writes does.  Only
\* the beat of a write under way, or cut off by a crash, is missing.
HeartbeatHonest ==
    /\ wpc \in {"idle", "copy"} => heartbeat = writes
    /\ wpc = "beat" => heartbeat + 1 = writes
    /\ wpc = "stopped" => heartbeat \in {writes, writes - 1}

\* What makes the above inductive: the room a writer found stays free until
\* it publishes, what it copied stays in its cells, the samples a reader
\* found stay readable, and a flush never stores a position that is behind
\* the read position or ahead of the write position.
CallsKeepTheirRoom ==
    /\ wpc = "copy" =>
           /\ wn \in WriteSizes
           /\ write_pos + wn - read_pos <= Capacity
           /\ \A k \in (0..wn - 1) \ wleft :
                  data[(write_pos + k) % Capacity] = write_pos + k
    /\ rpc = "copy" => rn \in ReadSizes /\ read_pos + rn <= write_pos
    /\ rpc = "flush" => read_pos <= flush_pos /\ flush_pos <= write_pos
    /\ rpc \in {"idle", "copy"} => flush_pos <= read_pos

Inv == /\ TypeOK /\ Occupancy /\ HeartbeatHonest
       /\ UnreadIntact /\ ReadsInOrder /\ CallsKeepTheirRoom

\* Once connected, the consumer only hands out samples accepted after the
\* flush that connected it began: no audio from before the connection.
NoStaleAudio == [][rpc = "copy" /\ rpc' = "idle" =>
                       \A i \in DOMAIN out' : out'[i] >= flush_pos]_vars

\* The read position never moves backwards, so no sample is handed out twice,
\* even by a consumer that stopped in the middle of a read and came back.
NeverReadTwice == [][read_pos' >= read_pos]_vars

\* The ring implements the bounded queue of AudioFifo: every call, however
\* its steps interleave with the other side's, takes effect at one instant.
unread == [i \in 1..write_pos - read_pos |-> read_pos + i - 1]

Fifo == INSTANCE AudioFifo WITH accepted <- write_pos, queue <- unread

ImplementsFifo == Fifo!Spec
==========================================================================
