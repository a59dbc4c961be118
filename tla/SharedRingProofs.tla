------------------------- MODULE SharedRingProofs -------------------------
(* Theorems about SharedRing, for every capacity, every set of chunk sizes  *)
(* and every length of the stream.                                          *)
EXTENDS SharedRing, TLAPS

\* Division with remainder is unique.
LEMMA DivMod ==
    ASSUME NEW c \in Nat \ {0}, NEW p \in Nat, NEW q \in Int,
           NEW m \in 0..c - 1, p = c * q + m
    PROVE  p % c = m
<1> DEFINE d == p \div c
           e == p % c
<1>1. p = c * d + e /\ d \in Int /\ e \in 0..c - 1
  OBVIOUS
<1> HIDE DEF d, e
<1>2. c * (q - d) = e - m
  BY <1>1
<1>3. CASE q - d >= 1
  BY <1>1, <1>2, <1>3
<1>4. CASE q - d <= -1
  <2>1. c * (d - q) >= c
    BY <1>1, <1>4
  <2>2. QED
    BY <1>1, <1>2, <2>1
<1>5. CASE q - d = 0
  BY <1>1, <1>2, <1>5
<1>6. e = m
  BY <1>1, <1>3, <1>4, <1>5
<1>7. QED
  BY <1>6 DEF e

\* Positions less than a lap apart are in different cells.
LEMMA CellsDiffer ==
    ASSUME NEW c \in Nat \ {0}, NEW i \in Nat, NEW j \in Nat,
           i < j, j < i + c
    PROVE  i % c # j % c
<1> DEFINE qi == i \div c
           qj == j \div c
<1>1. i = (c * qi) + (i % c) /\ qi \in Int /\ i % c \in Int
  OBVIOUS
<1>2. j = (c * qj) + (j % c) /\ qj \in Int /\ j % c \in Int
  OBVIOUS
<1> HIDE DEF qi, qj
<1>3. SUFFICES ASSUME i % c = j % c PROVE FALSE
  OBVIOUS
<1>4. j - i = c * (qj - qi)
  BY <1>1, <1>2, <1>3
<1>5. CASE qj - qi <= 0
  BY <1>1, <1>2, <1>4, <1>5
<1>6. CASE qj - qi >= 1
  BY <1>1, <1>2, <1>4, <1>6
<1>7. QED
  BY <1>1, <1>2, <1>5, <1>6

\* The split copy puts the k-th sample where its position belongs.
LEMMA CellOfPosition ==
    ASSUME NEW pos \in Nat, NEW n \in Nat, NEW k \in 0..n - 1,
           RingAssumption, n <= Capacity
    PROVE  Cell(pos, n, k) = (pos + k) % Capacity
<1> DEFINE q == pos \div Capacity
           index == pos % Capacity
           first == IF n <= Capacity - index THEN n ELSE Capacity - index
<1>1. Capacity \in Nat \ {0}
  BY DEF RingAssumption
<1>2. pos = (Capacity * q) + index /\ q \in Int /\ index \in 0..Capacity - 1
  BY <1>1
<1>3. Cell(pos, n, k) = IF k < first THEN index + k ELSE k - first
  BY DEF Cell
<1> HIDE DEF q, index
<1>4. CASE k < first
  <2>1. index + k \in 0..Capacity - 1 /\ pos + k = (Capacity * q) + (index + k)
    BY <1>1, <1>2, <1>4
  <2>2. (pos + k) % Capacity = index + k
    BY <1>1, <1>2, <2>1, DivMod
  <2>3. QED
    BY <1>3, <1>4, <2>2
<1>5. CASE ~(k < first)
  <2>1. first = Capacity - index
    BY <1>1, <1>2, <1>5
  <2>2. k - first \in 0..Capacity - 1
    BY <1>1, <1>2, <1>5, <2>1
  <2>3. Capacity * (q + 1) = (Capacity * q) + Capacity
    BY <1>1, <1>2
  <2>4. pos + k = (Capacity * (q + 1)) + (k - first)
    BY <1>1, <1>2, <2>1, <2>3
  <2>5. (pos + k) % Capacity = k - first
    <3> HIDE DEF first
    <3>1. q + 1 \in Int /\ pos + k \in Nat
      BY <1>2
    <3>2. QED
      BY <1>1, <2>2, <2>4, <3>1, DivMod
  <2>6. QED
    BY <1>3, <1>5, <2>5
<1>6. QED
  BY <1>4, <1>5

----------------------------------------------------------------------------
\* The empty ring satisfies the invariant.
LEMMA InvInit == ASSUME RingAssumption, Init PROVE Inv
<1> USE DEF Init, RingAssumption, Blank
<1>1. TypeOK
  BY DEF TypeOK
<1>2. Occupancy /\ HeartbeatHonest
  BY DEF Occupancy, HeartbeatHonest
<1>3. UnreadIntact /\ ReadsInOrder
  BY DEF UnreadIntact, ReadsInOrder
<1>4. CallsKeepTheirRoom
  BY DEF CallsKeepTheirRoom
<1>5. QED
  BY <1>1, <1>2, <1>3, <1>4 DEF Inv

\* Under the invariant, the k-th cell of either call is the cell of the k-th
\* position, and it is a cell of the array.
LEMMA CellsOfCalls ==
    ASSUME RingAssumption, Inv
    PROVE  /\ wpc = "copy" => \A k \in 0..wn - 1 :
                 Cell(write_pos, wn, k) = (write_pos + k) % Capacity
           /\ rpc = "copy" => \A k \in 0..rn - 1 :
                 Cell(read_pos, rn, k) = (read_pos + k) % Capacity
           /\ \A p \in Nat : p % Capacity \in 0..Capacity - 1
<1> USE DEF Inv, TypeOK, Occupancy, CallsKeepTheirRoom, RingAssumption
<1>1. wpc = "copy" => wn <= Capacity
  OBVIOUS
<1>2. rpc = "copy" => rn <= Capacity
  OBVIOUS
<1>3. \A p \in Nat : p % Capacity \in 0..Capacity - 1
  OBVIOUS
<1>4. ASSUME wpc = "copy", NEW k \in 0..wn - 1
      PROVE  Cell(write_pos, wn, k) = (write_pos + k) % Capacity
  <2>1. write_pos \in Nat /\ wn \in Nat /\ wn <= Capacity
    BY <1>1, <1>4
  <2>2. QED
    BY <2>1, CellOfPosition
<1>5. ASSUME rpc = "copy", NEW k \in 0..rn - 1
      PROVE  Cell(read_pos, rn, k) = (read_pos + k) % Capacity
  <2>1. read_pos \in Nat /\ rn \in Nat /\ rn <= Capacity
    BY <1>2, <1>5
  <2>2. QED
    BY <2>1, CellOfPosition
<1>6. QED
  BY <1>3, <1>4, <1>5

\* A copy into the shared cells changes only the cell of its own position,
\* which holds no other sample anyone counts on.
LEMMA WriteCopyInv ==
    ASSUME RingAssumption, Inv, NEW k \in wleft, WriteCopy(k)
    PROVE  Inv'
<1> DEFINE c == (write_pos + k) % Capacity
<1>1. k \in 0..wn - 1 /\ write_pos \in Nat /\ read_pos \in Nat /\ wn \in Nat
      /\ Capacity \in Nat \ {0} /\ k \in Nat
  BY DEF Inv, TypeOK, RingAssumption
<1>2. wpc = "copy" /\ c \in 0..Capacity - 1
  BY <1>1, CellsOfCalls DEF WriteCopy
<1>3. data' = [data EXCEPT ![c] = write_pos + k]
  BY <1>1, <1>2, CellsOfCalls DEF WriteCopy
<1>4. /\ write_pos + wn - read_pos <= Capacity /\ wn <= Capacity
      /\ write_pos + k \in Nat
  BY <1>1, <1>2 DEF Inv, CallsKeepTheirRoom, Occupancy
<1>5. UNCHANGED <<write_pos, read_pos, heartbeat, wpc, wn, write_ok, writes, consumer>>
      /\ wleft' = wleft \ {k}
  BY DEF WriteCopy
<1> HIDE DEF c
<1>6. TypeOK'
  BY <1>1, <1>2, <1>3, <1>5 DEF Inv, TypeOK, consumer
<1>7. (Occupancy /\ HeartbeatHonest /\ ReadsInOrder)'
  BY <1>5 DEF Inv, Occupancy, HeartbeatHonest, ReadsInOrder, consumer
<1>8. UnreadIntact'
  <2>1. SUFFICES ASSUME NEW p \in read_pos..write_pos - 1
                 PROVE  data'[p % Capacity] = p
    BY <1>5 DEF UnreadIntact
  <2>2. p \in Nat /\ p < write_pos + k /\ write_pos + k < p + Capacity
    BY <1>1, <1>4
  <2>3. p % Capacity # c
    BY <1>1, <1>4, <2>2, CellsDiffer DEF c
  <2>4. p % Capacity \in 0..Capacity - 1 /\ data[p % Capacity] = p
    BY <1>1, <2>2, CellsOfCalls DEF Inv, UnreadIntact
  <2>5. QED
    BY <1>2, <1>3, <2>3, <2>4 DEF Inv, TypeOK
<1>9. CallsKeepTheirRoom'
  <2>1. ASSUME NEW m \in (0..wn - 1) \ wleft'
        PROVE  data'[(write_pos + m) % Capacity] = write_pos + m
    <3>1. m \in Nat /\ write_pos + m \in Nat
      BY <1>1
    <3>2. (write_pos + m) % Capacity \in 0..Capacity - 1
      BY <3>1, CellsOfCalls
    <3>3. CASE m = k
      BY <1>2, <1>3, <3>2, <3>3 DEF c, Inv, TypeOK
    <3>4. CASE m # k
      <4>1. (write_pos + m) % Capacity # c
        <5>1. CASE m < k
          <6>1. write_pos + m < write_pos + k
                /\ write_pos + k < (write_pos + m) + Capacity
            BY <1>1, <1>4, <3>1, <5>1
          <6>2. QED
            BY <1>1, <1>4, <3>1, <6>1, CellsDiffer DEF c
        <5>2. CASE k < m
          <6>1. write_pos + k < write_pos + m
                /\ write_pos + m < (write_pos + k) + Capacity
            BY <1>1, <1>4, <3>1, <5>2
          <6>2. QED
            BY <1>1, <1>4, <3>1, <6>1, CellsDiffer DEF c
        <5>3. QED
          BY <1>1, <3>1, <3>4, <5>1, <5>2
      <4>2. data[(write_pos + m) % Capacity] = write_pos + m
        BY <1>2, <1>5, <2>1, <3>4 DEF Inv, CallsKeepTheirRoom
      <4>3. QED
        BY <1>2, <1>3, <3>2, <4>1, <4>2 DEF Inv, TypeOK
    <3>5. QED
      BY <3>3, <3>4
  <2>2. QED
    BY <1>5, <2>1 DEF Inv, CallsKeepTheirRoom, consumer
<1>10. QED
  BY <1>6, <1>7, <1>8, <1>9 DEF Inv

\* Publishing makes the copied samples unread ones.
LEMMA WritePublishInv ==
    ASSUME RingAssumption, Inv, WritePublish PROVE Inv'
<1> USE DEF Inv, WritePublish
<1>1. TypeOK'
  BY DEF TypeOK, consumer
<1>2. (Occupancy /\ HeartbeatHonest)'
  BY DEF TypeOK, Occupancy, HeartbeatHonest, CallsKeepTheirRoom
<1>3. ReadsInOrder'
  BY DEF ReadsInOrder, consumer
<1>4. UnreadIntact'
  <2>1. SUFFICES ASSUME NEW p \in read_pos'..write_pos' - 1
                 PROVE  data'[p % Capacity] = p
    BY DEF UnreadIntact
  <2> p \in read_pos..write_pos + wn - 1 /\ data' = data
    BY <2>1 DEF TypeOK
  <2>2. CASE p < write_pos
    <3>1. p \in read_pos..write_pos - 1
      BY <2>1, <2>2 DEF TypeOK
    <3>2. QED
      BY <3>1 DEF UnreadIntact
  <2>3. CASE p >= write_pos
    <3>1. p - write_pos \in (0..wn - 1) \ wleft /\ p = write_pos + (p - write_pos)
      BY <2>1, <2>3 DEF TypeOK
    <3>2. QED
      BY <3>1 DEF CallsKeepTheirRoom
  <2>4. QED
    BY <2>1, <2>2, <2>3 DEF TypeOK
<1>5. CallsKeepTheirRoom'
  BY DEF TypeOK, HeartbeatHonest, CallsKeepTheirRoom, consumer
<1>6. QED
  BY <1>1, <1>2, <1>3, <1>4, <1>5

\* A copy out of the cells gets the sample of its own position.
LEMMA ReadCopyInv ==
    ASSUME RingAssumption, Inv, NEW k \in rleft, ReadCopy(k) PROVE Inv'
<1>1. /\ k \in 0..rn - 1 /\ read_pos \in Nat /\ rn \in Nat
      /\ rbuf \in [1..rn -> Nat \cup {Blank}] /\ rpc = "copy"
  BY DEF Inv, TypeOK, ReadCopy
<1>2. read_pos + k \in read_pos..write_pos - 1
  BY <1>1 DEF Inv, TypeOK, CallsKeepTheirRoom
<1>3. data[Cell(read_pos, rn, k)] = read_pos + k
  BY <1>1, <1>2, CellsOfCalls DEF Inv, UnreadIntact
<1>4. /\ rbuf' = [rbuf EXCEPT ![k + 1] = read_pos + k]
      /\ rleft' = rleft \ {k}
      /\ UNCHANGED <<memory, producer, rpc, rn, flush_pos, out>>
  BY <1>3 DEF ReadCopy
<1>5. TypeOK'
  BY <1>1, <1>4 DEF Inv, TypeOK, memory, producer
<1>6. (Occupancy /\ HeartbeatHonest /\ UnreadIntact)'
  BY <1>4 DEF Inv, Occupancy, HeartbeatHonest, UnreadIntact, memory, producer
<1>7. ReadsInOrder'
  <2>1. SUFFICES ASSUME NEW m \in (0..rn - 1) \ (rleft \ {k})
                 PROVE  rbuf'[m + 1] = read_pos + m
    BY <1>4 DEF ReadsInOrder, memory
  <2>2. CASE m = k
    BY <1>1, <1>4, <2>2
  <2>3. CASE m # k
    BY <1>1, <1>4, <2>3 DEF Inv, ReadsInOrder
  <2>4. QED
    BY <2>2, <2>3
<1>8. CallsKeepTheirRoom'
  BY <1>4 DEF Inv, CallsKeepTheirRoom, memory, producer
<1>9. QED
  BY <1>5, <1>6, <1>7, <1>8 DEF Inv

\* What a finished read hands out is the stretch of the stream it asked for.
LEMMA ReadFinishGives ==
    ASSUME Inv, ReadFinish
    PROVE  out' = [i \in 1..rn |-> read_pos + i - 1]
<1>1. rbuf \in [1..rn -> Nat \cup {Blank}] /\ rn \in Nat /\ read_pos \in Nat
  BY DEF Inv, TypeOK
<1>2. ASSUME NEW i \in 1..rn PROVE rbuf[i] = read_pos + i - 1
  <2>1. i - 1 \in (0..rn - 1) \ rleft
    BY <1>1 DEF ReadFinish
  <2>2. rbuf[(i - 1) + 1] = read_pos + (i - 1)
    BY <2>1 DEF Inv, ReadFinish, ReadsInOrder
  <2>3. QED
    BY <1>1, <2>2
<1>3. QED
  BY <1>1, <1>2 DEF ReadFinish

LEMMA ReadFinishInv ==
    ASSUME RingAssumption, Inv, ReadFinish PROVE Inv'
<1> USE DEF Inv, ReadFinish
<1>1. TypeOK'
  <2>1. out' \in Seq(Nat)
    <3>1. rn \in Nat /\ read_pos \in Nat
      BY DEF TypeOK
    <3>2. out' \in [1..rn -> Nat]
      BY <3>1, ReadFinishGives
    <3>3. QED
      BY <3>1, <3>2
  <2>2. QED
    BY <2>1 DEF TypeOK, producer
<1>2. (Occupancy /\ HeartbeatHonest)'
  BY DEF TypeOK, Occupancy, HeartbeatHonest, CallsKeepTheirRoom, producer
<1>3. UnreadIntact'
  <2>1. /\ read_pos' = read_pos + rn /\ write_pos' = write_pos /\ data' = data
        /\ rn \in Nat /\ read_pos \in Nat /\ write_pos \in Nat
    BY DEF TypeOK
  <2>2. \A p \in read_pos'..write_pos' - 1 : p \in read_pos..write_pos - 1
    BY <2>1
  <2>3. QED
    BY <2>1, <2>2 DEF UnreadIntact
<1>4. ReadsInOrder'
  BY DEF ReadsInOrder
<1>5. CallsKeepTheirRoom'
  BY DEF TypeOK, CallsKeepTheirRoom, producer
<1>6. QED
  BY <1>1, <1>2, <1>3, <1>4, <1>5

----------------------------------------------------------------------------
\* Every step of the producer preserves the invariant.
LEMMA ProducerInv == ASSUME RingAssumption, Inv, ProducerNext PROVE Inv'
<1> USE DEF Inv, TypeOK, Occupancy, HeartbeatHonest, UnreadIntact,
            ReadsInOrder, CallsKeepTheirRoom, memory, consumer
<1>1. ASSUME NEW n \in WriteSizes, WriteBegin(n) PROVE Inv'
  <2>1. n \in Nat /\ n >= 1
    BY DEF RingAssumption
  <2>2. QED
    BY <1>1, <2>1 DEF WriteBegin, AvailableWrite
<1>2. ASSUME NEW n \in WriteSizes, WriteOverflow(n) PROVE Inv'
  BY <1>2 DEF WriteOverflow
<1>3. ASSUME NEW k \in wleft, WriteCopy(k) PROVE Inv'
  BY <1>3, WriteCopyInv
<1>4. CASE WritePublish
  BY <1>4, WritePublishInv
<1>5. CASE WriteBeat
  BY <1>5 DEF WriteBeat
<1>6. CASE ProducerStops
  BY <1>6 DEF ProducerStops
<1>7. QED
  BY <1>1, <1>2, <1>3, <1>4, <1>5, <1>6 DEF ProducerNext

\* Every step of the consumer preserves the invariant.
LEMMA ConsumerInv == ASSUME RingAssumption, Inv, ConsumerNext PROVE Inv'
<1> USE DEF Inv, TypeOK, Occupancy, HeartbeatHonest, UnreadIntact,
            ReadsInOrder, CallsKeepTheirRoom, memory, producer
<1>1. CASE FlushLoad
  BY <1>1 DEF FlushLoad
<1>2. CASE FlushStore
  <2>1. /\ read_pos' \in read_pos..write_pos
        /\ UNCHANGED <<write_pos, data>>
    BY <1>2 DEF FlushStore
  <2>2. \A p \in read_pos'..write_pos' - 1 : p \in read_pos..write_pos - 1
    BY <2>1
  <2>3. UnreadIntact'
    BY <2>1, <2>2
  <2>4. (TypeOK /\ Occupancy /\ HeartbeatHonest /\ ReadsInOrder
            /\ CallsKeepTheirRoom)'
    BY <1>2, <2>1 DEF FlushStore
  <2>5. QED
    BY <2>3, <2>4
<1>3. ASSUME NEW n \in ReadSizes, ReadBegin(n) PROVE Inv'
  <2>1. n \in Nat
    BY DEF RingAssumption
  <2>2. QED
    BY <1>3, <2>1 DEF ReadBegin, AvailableRead
<1>4. ASSUME NEW n \in ReadSizes, ReadUnderrun(n) PROVE Inv'
  BY <1>4 DEF ReadUnderrun
<1>5. ASSUME NEW k \in rleft, ReadCopy(k) PROVE Inv'
  BY <1>5, ReadCopyInv
<1>6. CASE ReadFinish
  BY <1>6, ReadFinishInv
<1>7. CASE ConsumerDetaches
  BY <1>7 DEF ConsumerDetaches
<1>8. QED
  BY <1>1, <1>2, <1>3, <1>4, <1>5, <1>6, <1>7 DEF ConsumerNext

\* The invariant holds in every reachable state: positions that never cross,
\* unread samples intact in their cells, copies in stream order.
THEOREM RingInvariant == ASSUME RingAssumption PROVE Spec => []Inv
<1>1. Init => Inv
  BY InvInit
<1>2. Inv /\ [Next]_vars => Inv'
  <2>1. ASSUME Inv, UNCHANGED vars PROVE Inv'
    BY <2>1 DEF Inv, TypeOK, Occupancy, HeartbeatHonest, UnreadIntact,
        ReadsInOrder, CallsKeepTheirRoom, vars, memory, producer, consumer
  <2>2. QED
    BY <2>1, ProducerInv, ConsumerInv DEF Next
<1>3. QED
  BY <1>1, <1>2, PTL DEF Spec

----------------------------------------------------------------------------
\* The producer never overtakes the consumer, what is unread is intact, a
\* read in progress has copied consecutive samples, the heartbeat does not
\* run ahead of the data, and the two copies touch different cells.
THEOREM RingSafety ==
    ASSUME RingAssumption
    PROVE  Spec => [](TypeOK /\ Occupancy /\ UnreadIntact /\ ReadsInOrder
                        /\ HeartbeatHonest /\ NoDataRace)
<1>1. Inv => NoDataRace
  <2>1. SUFFICES ASSUME Inv, wpc = "copy", rpc = "copy",
                        NEW i \in 0..wn - 1, NEW j \in 0..rn - 1
                 PROVE  Cell(write_pos, wn, i) # Cell(read_pos, rn, j)
    BY DEF NoDataRace
  <2>2. /\ read_pos + j \in Nat /\ write_pos + i \in Nat
        /\ read_pos + j < write_pos + i
        /\ write_pos + i < (read_pos + j) + Capacity
    BY <2>1 DEF Inv, TypeOK, Occupancy, CallsKeepTheirRoom, RingAssumption
  <2>3. (read_pos + j) % Capacity # (write_pos + i) % Capacity
    BY <2>2, CellsDiffer DEF RingAssumption
  <2>4. QED
    BY <2>1, <2>3, CellsOfCalls
<1>2. Inv => TypeOK /\ Occupancy /\ UnreadIntact /\ ReadsInOrder /\ HeartbeatHonest
  BY DEF Inv
<1>3. QED
  BY <1>1, <1>2, RingInvariant, PTL

\* write(), read(), flush(): each place in a call has the local values it needs.
THEOREM RingTypes ==
    ASSUME RingAssumption PROVE Spec => []TypeOK
<1>1. Inv => TypeOK
  BY DEF Inv
<1>2. QED
  BY <1>1, RingInvariant, PTL

\* write(): for every capacity and all chunk sizes, what has been accepted and
\* not yet handed out stays as it was written, whoever stops where.
THEOREM RingKeepsUnread ==
    ASSUME RingAssumption PROVE Spec => []UnreadIntact
<1>1. Inv => UnreadIntact
  BY DEF Inv
<1>2. QED
  BY <1>1, RingInvariant, PTL

\* read(): a copy under way holds consecutive samples of the stream, none torn
\* or overwritten, while the producer goes on writing.
THEOREM RingReadsInOrder ==
    ASSUME RingAssumption PROVE Spec => []ReadsInOrder
<1>1. Inv => ReadsInOrder
  BY DEF Inv
<1>2. QED
  BY <1>1, RingInvariant, PTL

\* write(): the heartbeat never counts a chunk that was dropped.
THEOREM RingBeatsHonestly ==
    ASSUME RingAssumption PROVE Spec => []HeartbeatHonest
<1>1. Inv => HeartbeatHonest
  BY DEF Inv
<1>2. QED
  BY <1>1, RingInvariant, PTL

\* write(), read(), flush(): what a call has found out about room or audio stays
\* true until it publishes, whatever the other process does meanwhile.
THEOREM RingKeepsRoom ==
    ASSUME RingAssumption PROVE Spec => []CallsKeepTheirRoom
<1>1. Inv => CallsKeepTheirRoom
  BY DEF Inv
<1>2. QED
  BY <1>1, RingInvariant, PTL

\* write() and read(): no cell is written while it is read.
THEOREM RingNoDataRace ==
    ASSUME RingAssumption PROVE Spec => []NoDataRace
  BY RingSafety, PTL

\* A consumer that connected never hands out audio from before it did.
THEOREM RingIsFresh == ASSUME RingAssumption PROVE Spec => NoStaleAudio
<1>1. ASSUME Inv, [Next]_vars, rpc = "copy", rpc' = "idle",
             NEW i \in DOMAIN out'
      PROVE  out'[i] >= flush_pos
  <2>1. ReadFinish
    BY <1>1 DEF Next, ProducerNext, ConsumerNext, vars, consumer, producer,
        WriteBegin, WriteOverflow, WriteCopy, WritePublish, WriteBeat,
        ProducerStops, FlushLoad, FlushStore, ReadBegin, ReadUnderrun,
        ReadCopy, ConsumerDetaches
  <2>2. out' = [m \in 1..rn |-> read_pos + m - 1]
    BY <1>1, <2>1, ReadFinishGives
  <2>3. i \in 1..rn /\ out'[i] = read_pos + i - 1
    BY <1>1, <2>2
  <2>4. read_pos \in Nat /\ rn \in Nat /\ flush_pos \in Nat /\ flush_pos <= read_pos
    BY <1>1 DEF Inv, TypeOK, CallsKeepTheirRoom
  <2>5. QED
    BY <2>3, <2>4
<1>2. Inv /\ [Next]_vars =>
          [rpc = "copy" /\ rpc' = "idle" =>
               \A i \in DOMAIN out' : out'[i] >= flush_pos]_vars
  BY <1>1
<1>3. QED
  BY <1>2, RingInvariant, PTL DEF Spec, NoStaleAudio

\* No step moves the read position backwards.
THEOREM RingReadsForward == ASSUME RingAssumption PROVE Spec => NeverReadTwice
<1>1. Inv /\ [Next]_vars => read_pos' >= read_pos
  BY DEF Inv, TypeOK, CallsKeepTheirRoom, Next, ProducerNext, ConsumerNext,
        vars, memory, consumer, producer, WriteBegin, WriteOverflow, WriteCopy,
        WritePublish, WriteBeat, ProducerStops, FlushLoad, FlushStore,
        ReadBegin, ReadUnderrun, ReadCopy, ReadFinish, ConsumerDetaches
<1>2. QED
  BY <1>1, RingInvariant, PTL DEF Spec, NeverReadTwice

----------------------------------------------------------------------------
(* The ring implements the queue of AudioFifo.                              *)

\* A stretch of the stream has its length, and its parts are stretches.
LEMMA StretchLen ==
    ASSUME NEW p \in Nat, NEW m \in Nat
    PROVE  Fifo!Stream(p, m) \in Seq(Nat) /\ Len(Fifo!Stream(p, m)) = m
  BY DEF Fifo!Stream

LEMMA StretchConcat ==
    ASSUME NEW p \in Nat, NEW m \in Nat, NEW n \in Nat
    PROVE  Fifo!Stream(p, m) \o Fifo!Stream(p + m, n) = Fifo!Stream(p, m + n)
  BY DEF Fifo!Stream

LEMMA StretchSplit ==
    ASSUME NEW p \in Nat, NEW m \in Nat, NEW n \in 0..m
    PROVE  /\ SubSeq(Fifo!Stream(p, m), 1, n) = Fifo!Stream(p, n)
           /\ SubSeq(Fifo!Stream(p, m), n + 1, m) = Fifo!Stream(p + n, m - n)
  BY DEF Fifo!Stream

\* The queue the ring implements is the stretch between the two positions.
LEMMA UnreadIsStretch == unread = Fifo!Stream(read_pos, write_pos - read_pos)
  BY DEF unread, Fifo!Stream

\* The empty ring is the empty queue.
LEMMA FifoInit == ASSUME Init PROVE Fifo!Init
  BY DEF Init, Fifo!Init, unread

\* Publishing is the instant at which a chunk is accepted.
LEMMA PublishPuts == ASSUME RingAssumption, Inv, WritePublish PROVE Fifo!Put(wn)
<1>1. /\ write_pos \in Nat /\ read_pos \in Nat /\ wn \in Nat
      /\ write_pos - read_pos \in Nat /\ Capacity \in Nat
      /\ write_pos - read_pos + wn <= Capacity
  BY DEF RingAssumption, Inv, TypeOK, Occupancy, CallsKeepTheirRoom, WritePublish
<1>2. Len(unread) + wn <= Capacity
  BY <1>1, UnreadIsStretch, StretchLen
<1>3. unread' = Fifo!Stream(read_pos, (write_pos - read_pos) + wn)
  BY <1>1 DEF WritePublish, unread, Fifo!Stream
<1>4. unread' = unread \o Fifo!Stream(write_pos, wn)
  <2> DEFINE m == write_pos - read_pos
  <2>1. write_pos = read_pos + m /\ m \in Nat
    BY <1>1
  <2>2. unread = Fifo!Stream(read_pos, m) /\ unread' = Fifo!Stream(read_pos, m + wn)
    BY <1>3, UnreadIsStretch
  <2> HIDE DEF m
  <2>3. Fifo!Stream(read_pos, m) \o Fifo!Stream(read_pos + m, wn)
            = Fifo!Stream(read_pos, m + wn)
    <3>1. read_pos \in Nat /\ m \in Nat /\ wn \in Nat
      BY <1>1, <2>1
    <3>2. QED
      BY ONLY <3>1, StretchConcat
  <2>4. QED
    BY <2>1, <2>2, <2>3
<1>5. QED
  BY <1>2, <1>4 DEF WritePublish, Fifo!Put, consumer

\* The end of a read is the instant at which it takes its samples.
LEMMA FinishTakes == ASSUME RingAssumption, Inv, ReadFinish PROVE Fifo!Take(rn)
<1> DEFINE m == write_pos - read_pos
<1>1. /\ write_pos \in Nat /\ read_pos \in Nat /\ m \in Nat /\ rn \in 0..m
      /\ write_pos - (read_pos + rn) = m - rn
  BY DEF Inv, TypeOK, Occupancy, CallsKeepTheirRoom, ReadFinish
<1>2. unread = Fifo!Stream(read_pos, m)
      /\ unread' = Fifo!Stream(read_pos + rn, m - rn)
  BY <1>1 DEF ReadFinish, unread, Fifo!Stream
<1>3. out' = Fifo!Stream(read_pos, rn)
  BY ReadFinishGives DEF Fifo!Stream
<1>4. UNCHANGED <<write_pos, write_ok>>
  BY DEF ReadFinish, producer
<1> HIDE DEF m
<1>5. /\ Len(unread) = m
      /\ SubSeq(unread, 1, rn) = Fifo!Stream(read_pos, rn)
      /\ SubSeq(unread, rn + 1, m) = Fifo!Stream(read_pos + rn, m - rn)
  BY <1>1, <1>2, StretchLen, StretchSplit
<1>6. QED
  BY <1>1, <1>2, <1>3, <1>4, <1>5 DEF Fifo!Take

\* The store of a flush drops what was queued when the flush loaded.
LEMMA FlushDiscards == ASSUME RingAssumption, Inv, FlushStore PROVE Fifo!Discard
<1> DEFINE m == write_pos - read_pos
           n == flush_pos - read_pos
<1>1. /\ write_pos \in Nat /\ read_pos \in Nat /\ m \in Nat /\ n \in 0..m
      /\ read_pos + n = flush_pos /\ write_pos - flush_pos = m - n
  BY DEF Inv, TypeOK, Occupancy, CallsKeepTheirRoom, FlushStore
<1>2. unread = Fifo!Stream(read_pos, m)
      /\ unread' = Fifo!Stream(read_pos + n, m - n)
  BY <1>1 DEF FlushStore, unread, Fifo!Stream
<1>3. UNCHANGED <<write_pos, write_ok, out>>
  BY DEF FlushStore, producer
<1> HIDE DEF m, n
<1>4. /\ Len(unread) = m
      /\ SubSeq(unread, n + 1, m) = Fifo!Stream(read_pos + n, m - n)
  BY <1>1, <1>2, StretchLen, StretchSplit
<1>5. QED
  BY <1>1, <1>2, <1>3, <1>4 DEF Fifo!Discard

\* Every step of the ring is a step of the queue or leaves it alone.
LEMMA FifoStep ==
    ASSUME RingAssumption, Inv, [Next]_vars
    PROVE  [Fifo!Next]_(Fifo!vars)
<1> USE DEF Fifo!vars
<1>1. Len(unread) = write_pos - read_pos
  <2>1. read_pos \in Nat /\ write_pos - read_pos \in Nat
    BY DEF Inv, TypeOK, Occupancy
  <2>2. QED
    BY <2>1, UnreadIsStretch, StretchLen
<1>2. ASSUME NEW n \in WriteSizes, WriteBegin(n) PROVE UNCHANGED Fifo!vars
  BY <1>2 DEF WriteBegin, memory, consumer, unread
<1>3. ASSUME NEW n \in WriteSizes, WriteOverflow(n) PROVE Fifo!Next
  <2>1. n \in Nat /\ Capacity \in Nat /\ read_pos \in Nat /\ write_pos \in Nat
    BY DEF RingAssumption, Inv, TypeOK
  <2>2. Len(unread) + n > Capacity
    BY <1>1, <1>3, <2>1 DEF WriteOverflow, AvailableWrite
  <2>3. Fifo!Refuse(n)
    BY <1>3, <2>2 DEF WriteOverflow, Fifo!Refuse, memory, consumer, unread
  <2>4. QED
    BY <2>3 DEF Fifo!Next
<1>4. ASSUME NEW k \in wleft, WriteCopy(k) PROVE UNCHANGED Fifo!vars
  BY <1>4 DEF WriteCopy, consumer, unread
<1>5. CASE WritePublish
  <2>1. wn \in WriteSizes
    BY <1>5 DEF WritePublish, Inv, CallsKeepTheirRoom
  <2>2. QED
    BY <1>5, <2>1, PublishPuts DEF Fifo!Next
<1>6. CASE WriteBeat
  BY <1>6 DEF WriteBeat, consumer, unread
<1>7. CASE ProducerStops
  BY <1>7 DEF ProducerStops, memory, consumer, unread
<1>8. CASE FlushLoad
  BY <1>8 DEF FlushLoad, memory, producer, unread
<1>9. CASE FlushStore
  BY <1>9, FlushDiscards DEF Fifo!Next
<1>10. ASSUME NEW n \in ReadSizes, ReadBegin(n) PROVE UNCHANGED Fifo!vars
  BY <1>10 DEF ReadBegin, memory, producer, unread
<1>11. ASSUME NEW n \in ReadSizes, ReadUnderrun(n) PROVE Fifo!Next
  <2>1. Fifo!Underrun(n)
    BY <1>1, <1>11 DEF ReadUnderrun, AvailableRead, Fifo!Underrun,
        memory, producer, unread
  <2>2. QED
    BY <2>1 DEF Fifo!Next
<1>12. ASSUME NEW k \in rleft, ReadCopy(k) PROVE UNCHANGED Fifo!vars
  BY <1>12 DEF ReadCopy, memory, producer, unread
<1>13. CASE ReadFinish
  <2>1. rn \in ReadSizes
    BY <1>13 DEF ReadFinish, Inv, CallsKeepTheirRoom
  <2>2. QED
    BY <1>13, <2>1, FinishTakes DEF Fifo!Next
<1>14. CASE ConsumerDetaches
  BY <1>14 DEF ConsumerDetaches, memory, producer, unread
<1>15. CASE UNCHANGED vars
  BY <1>15 DEF vars, memory, producer, consumer, unread
<1>16. QED
  BY <1>2, <1>3, <1>4, <1>5, <1>6, <1>7, <1>8, <1>9, <1>10, <1>11, <1>12,
     <1>13, <1>14, <1>15 DEF Next, ProducerNext, ConsumerNext

\* The ring implements the bounded queue: whatever the interleaving and
\* wherever a side stops, each call takes effect at one instant.
THEOREM RingImplementsFifo == ASSUME RingAssumption PROVE Spec => ImplementsFifo
<1>1. Init => Fifo!Init
  BY FifoInit
<1>2. Inv /\ [Next]_vars => [Fifo!Next]_(Fifo!vars)
  BY FifoStep
<1>3. QED
  BY <1>1, <1>2, RingInvariant, PTL DEF Spec, ImplementsFifo, Fifo!Spec
==========================================================================
