-------------------------- MODULE PipelineProofs --------------------------
(***************************************************************************)
(* Theorems about Pipeline: types, the end-to-end delay, and that a driver *)
(* with one client keeps a producer that lives.                            *)
(*                                                                         *)
(* The backlog of the ring against the two clocks is what all rests on:    *)
(* fill - capture_due + due[c] stays as it is when time passes for both,   *)
(* when a buffer is written and when one is read; a write that is dropped  *)
(* makes it smaller, an underrun finds less than a request in the ring,    *)
(* and what one clock gains on the other is in ahead or in behind.         *)
(***************************************************************************)
EXTENDS Pipeline, TLAPS

BacklogBound ==
    \A c \in Clients :
        Clients = {c} /\ c \in Recording /\ connected =>
            Backlog(c) < 2 * request[c] + Jitter + ahead

LineBound == held < EngineDelay

\* A driver whose client suits the microphone is connected, and the callbacks
\* without a beat fit between two buffers of the microphone.
BeatsInTime ==
    \A c \in Clients :
        Clients = {c} /\ Suits(c) =>
            /\ connected
            /\ ~news => stale * request[c] + request[c] - due[c] + capture_due
                            <= capture + Jitter + behind

Inv == TypeOK /\ BacklogBound /\ LineBound /\ BeatsInTime

\* TypeOK in parts.
ClockType == capture \in CaptureSizes /\ capture_due \in 0..capture + Jitter
LineType == /\ held \in Nat /\ started \in BOOLEAN
            /\ result \in {"none", "audio", "silence"}
RingType == fill \in 0..Capacity /\ mute \in 0..fill /\ beaten \in BOOLEAN
FlagType == connected \in BOOLEAN /\ news \in BOOLEAN
StaleType == stale \in Nat /\ stale < StaleThreshold
DriverType == FlagType /\ StaleType
ClientType == request \in [Clients -> RequestSizes \cup {0}] /\ due \in [Clients -> Nat]
Heard == {"nothing", "audio", "silence", "underrun"}
HeardType == heard \in [Clients -> Heard]
DriftType == ahead \in 0..MaxDrift /\ behind \in 0..MaxDrift

LEMMA TypeParts ==
    /\ TypeOK <=> /\ ClockType /\ LineType /\ RingType
                  /\ DriverType /\ ClientType /\ HeardType /\ DriftType
    /\ TypeOK' <=> /\ ClockType' /\ LineType' /\ RingType'
                   /\ DriverType' /\ ClientType' /\ HeardType' /\ DriftType'
  BY DEF TypeOK, ClockType, LineType, RingType, DriverType, ClientType,
         FlagType, StaleType, HeardType, Heard, DriftType

LEMMA Numbers ==
    ASSUME PipelineAssumption
    PROVE  /\ FrameSize \in Nat /\ FrameSize > 0 /\ Capacity \in Nat
           /\ StaleThreshold \in Nat /\ StaleThreshold > 0 /\ Jitter \in Nat
           /\ MaxDrift \in Nat
           /\ \A n \in CaptureSizes : n \in Nat /\ n > 0
           /\ \A m \in RequestSizes : m \in Nat /\ m > 0
  BY DEF PipelineAssumption

LEMMA InitState == ASSUME PipelineAssumption, Init PROVE Inv
<1>1. ClockType
  BY Numbers DEF Init, ClockType
<1>2. LineType
  BY DEF Init, Line!Init, LineType
<1>3. LineBound
  BY <1>1, Numbers DEF Init, Line!Init, LineBound, EngineDelay, ClockType
<1>4. RingType
  <2>1. fill = 0 /\ mute = 0 /\ beaten = FALSE
    BY DEF Init
  <2>2. fill \in 0..Capacity
    BY <2>1, Numbers
  <2>3. mute \in 0..fill
    BY <2>1
  <2>4. beaten \in BOOLEAN
    BY <2>1
  <2>5. QED
    BY <2>2, <2>3, <2>4 DEF RingType
<1>5. DriverType
  BY Numbers DEF Init, DriverType, FlagType, StaleType
<1>6. ClientType /\ HeardType /\ DriftType
  BY Numbers DEF Init, ClientType, HeardType, Heard, DriftType
<1>7. BacklogBound /\ BeatsInTime
  BY DEF Init, BacklogBound, BeatsInTime, Suits, Recording
<1>8. QED
  BY <1>1, <1>2, <1>3, <1>4, <1>5, <1>6, <1>7, TypeParts DEF Inv

----------------------------------------------------------------------------
\* A write leaves the types of the ring and of the driver as they are.
LEMMA WriteType ==
    ASSUME PipelineAssumption, ClockType, RingType, news \in BOOLEAN,
           NEW silent \in BOOLEAN, Write(silent)
    PROVE  RingType' /\ news' \in BOOLEAN
<1> USE DEF PipelineAssumption, ClockType, RingType
<1>1. CASE fill + capture <= Capacity
  <2>1. fill' = fill + capture /\ mute' \in {mute, fill + capture} /\ beaten' = TRUE
    BY <1>1 DEF Write
  <2>2. news' \in BOOLEAN
    BY <1>1 DEF Write
  <2>3. QED
    BY <1>1, <2>1, <2>2
<1>2. CASE ~(fill + capture <= Capacity)
  BY <1>2 DEF Write
<1>3. QED
  BY <1>1, <1>2

\* So does a read of a ring with n frames.
LEMMA ReadType ==
    ASSUME HeardType, NEW c \in Clients, NEW m \in Nat,
           NEW n \in 0..Capacity, NEW silent \in 0..n, Capacity \in Nat,
           Read(c, m, n, silent)
    PROVE  fill' \in 0..Capacity /\ mute' \in 0..fill' /\ HeardType'
<1>1. CASE m <= n
  <2>1. fill' = n - m /\ mute' \in {0, silent - m} /\ mute' >= 0
    BY <1>1 DEF Read
  <2>2. \E h \in {"audio", "silence"} : heard' = [heard EXCEPT ![c] = h]
    BY <1>1 DEF Read
  <2>3. QED
    BY <1>1, <2>1, <2>2 DEF HeardType, Heard
<1>2. CASE ~(m <= n)
  BY <1>2 DEF Read, HeardType, Heard
<1>3. QED
  BY <1>1, <1>2

LEMMA TypeStep ==
    ASSUME PipelineAssumption, TypeOK, [Next]_vars PROVE TypeOK'
<1> USE DEF engine, ring, driver, clients, drift
<1>0. /\ ClockType /\ LineType /\ RingType /\ DriverType /\ ClientType
      /\ HeardType /\ DriftType
  BY TypeParts
<1>1. CASE ProcessAndWrite
  <2>1. ClockType'
    BY <1>0, <1>1 DEF ProcessAndWrite, ClockType, PipelineAssumption
  <2>2. /\ held' \in Nat /\ started' \in BOOLEAN
        /\ result' \in {"audio", "silence"}
    <3>1. capture \in Nat /\ held \in Nat
      BY <1>0, Numbers DEF ClockType, LineType
    <3>2. CASE Line!Emit(capture)
      BY <3>1, <3>2 DEF Line!Emit
    <3>3. CASE Line!Fill(capture)
      BY <3>1, <3>3 DEF Line!Fill
    <3>4. QED
      BY <1>1, <3>2, <3>3 DEF ProcessAndWrite
  <2>3. RingType' /\ news' \in BOOLEAN
    BY <1>0, <1>1, <2>2, WriteType DEF ProcessAndWrite, DriverType, FlagType
  <2>4. UNCHANGED <<connected, stale, request, due, heard, ahead, behind>>
    BY <1>1 DEF ProcessAndWrite
  <2>5. LineType' /\ DriverType' /\ ClientType' /\ HeardType' /\ DriftType'
    BY <1>0, <2>2, <2>3, <2>4
       DEF LineType, DriverType, FlagType, StaleType, ClientType, HeardType, DriftType
  <2>6. QED
    BY <2>1, <2>3, <2>5, TypeParts
<1>2. CASE SetMode
  <2>1. LineType'
    BY <1>0, <1>2 DEF SetMode, Line!Clear, LineType
  <2>2. /\ ClockType' /\ RingType' /\ DriverType' /\ ClientType'
        /\ HeardType' /\ DriftType'
    BY <1>0, <1>2 DEF SetMode, ClockType, RingType, DriverType,
                     FlagType, StaleType, ClientType, HeardType, DriftType
  <2>3. QED
    BY <2>1, <2>2, TypeParts
<1>3. ASSUME NEW c \in Clients, NEW m \in RequestSizes, StartIO(c, m)
      PROVE  TypeOK'
  <2>1. ClientType'
    BY <1>0, <1>3 DEF StartIO, ClientType, PipelineAssumption
  <2>2. DriverType'
    <3>1. CASE Recording = {}
      BY <1>0, <1>3, <3>1, Numbers DEF StartIO, DriverType, FlagType, StaleType, RingType
    <3>2. CASE Recording # {}
      BY <1>0, <1>3, <3>2 DEF StartIO, DriverType, FlagType, StaleType
    <3>3. QED
      BY <3>1, <3>2
  <2>3. RingType'
    BY <1>0, <1>3 DEF StartIO, RingType, PipelineAssumption
  <2>4. ClockType' /\ LineType' /\ HeardType' /\ DriftType'
    BY <1>0, <1>3 DEF StartIO, ClockType, LineType, HeardType, DriftType
  <2>5. QED
    BY <2>1, <2>2, <2>3, <2>4, TypeParts
<1>4. ASSUME NEW c \in Clients, StopIO(c) PROVE TypeOK'
  <2>1. ClientType' /\ HeardType'
    BY <1>0, <1>4 DEF StopIO, ClientType, HeardType, Heard
  <2>2. DriverType' /\ DriftType'
    <3>1. CASE Recording = {c}
      <4>1. /\ connected' = FALSE /\ stale' = 0 /\ news' = FALSE
            /\ ahead' = 0 /\ behind' = 0
        BY <1>4, <3>1, Zenon DEF StopIO
      <4>2. DriverType'
        BY <4>1, Numbers DEF DriverType, FlagType, StaleType
      <4>3. DriftType'
        BY <4>1, Numbers DEF DriftType
      <4>4. QED
        BY <4>2, <4>3
    <3>2. CASE Recording # {c}
      BY <1>0, <1>4, <3>2 DEF StopIO, DriverType, FlagType, StaleType, DriftType
    <3>3. QED
      BY <3>1, <3>2
  <2>3. ClockType' /\ LineType' /\ RingType'
    BY <1>0, <1>4 DEF StopIO, ClockType, LineType, RingType
  <2>4. QED
    BY <2>1, <2>2, <2>3, TypeParts
<1>5. ASSUME NEW c \in Clients, OnReadClientInput(c) PROVE TypeOK'
  <2> DEFINE n == IF connected THEN fill ELSE 0
             silent == IF connected THEN mute ELSE 0
  <2>1. n \in 0..Capacity /\ silent \in 0..n /\ Capacity \in Nat
    BY <1>0 DEF RingType, PipelineAssumption
  <2>2. request[c] \in Nat /\ Quiet \in Nat
    <3>1. request[c] \in RequestSizes \cup {0}
      BY <1>0 DEF ClientType
    <3>2. Quiet \in {0, stale + 1}
      BY DEF Quiet
    <3>3. QED
      BY <1>0, <3>1, <3>2, Numbers DEF DriverType, StaleType
  <2>3. /\ due' = [due EXCEPT ![c] = @ + request[c]] /\ news' = FALSE
        /\ UNCHANGED <<capture, capture_due, held, started, result, beaten,
                       request, ahead, behind>>
    BY <1>5 DEF OnReadClientInput
  <2>4. ClockType' /\ LineType' /\ DriftType'
    BY <1>0, <2>3 DEF ClockType, LineType, DriftType
  <2>5. ClientType'
    BY <1>0, <2>2, <2>3 DEF ClientType
  <2>6. /\ DriverType' /\ HeardType'
        /\ fill' \in 0..Capacity /\ mute' \in 0..fill'
    <3>1. CASE /\ connected' = FALSE /\ stale' = 0
               /\ fill' = n /\ mute' = silent
               /\ heard' = [heard EXCEPT ![c] = "underrun"]
      <4> HIDE DEF n, silent
      <4>1. QED
        BY <1>0, <2>1, <2>3, <3>1, Numbers
           DEF DriverType, FlagType, StaleType, HeardType, Heard
    <3>2. CASE /\ Quiet < StaleThreshold
               /\ connected' = TRUE /\ stale' = Quiet
               /\ Read(c, request[c], n, silent)
      <4> HIDE DEF n, silent
      <4>1. DriverType'
        BY <2>2, <2>3, <3>2 DEF DriverType, FlagType, StaleType
      <4>2. QED
        BY <1>0, <2>1, <2>2, <3>2, <4>1, ReadType
    <3>3. QED
      BY <1>5, <3>1, <3>2 DEF OnReadClientInput
  <2>7. RingType'
    BY <1>0, <2>3, <2>6 DEF RingType
  <2>8. QED
    BY <2>4, <2>5, <2>6, <2>7, TypeParts
<1>6. CASE Tick
  <2>1. ClientType'
    <3>1. CASE ReadClock
      <4>1. \A c \in Clients : c \in Recording => due[c] - 1 \in Nat
        BY <1>0, <3>1 DEF ReadClock, ClientType
      <4>2. QED
        BY <1>0, <1>6, <3>1, <4>1 DEF Tick, ReadClock, ClientType
    <3>2. CASE UNCHANGED due
      BY <1>0, <1>6, <3>2 DEF Tick, ClientType
    <3>3. QED
      BY <1>6, <3>1, <3>2 DEF Tick
  <2>2. ClockType'
    BY <1>0, <1>6 DEF Tick, CaptureClock, ClockType, PipelineAssumption
  <2>3. DriftType'
    BY <1>0, <1>6, Numbers DEF Tick, Gain, DriftType
  <2>4. LineType' /\ RingType' /\ DriverType' /\ HeardType'
    BY <1>0, <1>6 DEF Tick, LineType, RingType, DriverType,
                     FlagType, StaleType, HeardType
  <2>5. QED
    BY <2>1, <2>2, <2>3, <2>4, TypeParts
<1>7. CASE UNCHANGED vars
  BY <1>7 DEF vars, TypeOK
<1>8. QED
  BY <1>1, <1>2, <1>3, <1>4, <1>5, <1>6, <1>7 DEF Next, User, Audio

----------------------------------------------------------------------------
\* A silence is answered only while the line fills or holds too little.
LEMMA LineStep ==
    ASSUME PipelineAssumption, TypeOK, LineBound, [Next]_vars PROVE LineBound'
<1>0. /\ capture \in Nat /\ capture > 0 /\ FrameSize \in Nat /\ FrameSize > 0
      /\ held \in Nat
  BY TypeParts, Numbers DEF ClockType, LineType
<1>1. CASE ProcessAndWrite
  <2>1. capture' = capture
    BY <1>1 DEF ProcessAndWrite
  <2>2. CASE Line!Emit(capture)
    BY <2>1, <2>2 DEF Line!Emit, LineBound, EngineDelay
  <2>3. CASE Line!Fill(capture)
    <3>1. held' = held + capture
      BY <2>3 DEF Line!Fill
    <3>2. held < FrameSize - 1 \/ held + capture < FrameSize * 2
      <4>1. started' => held < FrameSize - 1
        BY <2>3 DEF Line!Fill
      <4>2. ~started' => ~(held + capture >= FrameSize * 2)
        BY <2>3 DEF Line!Fill, Line!Prefill
      <4>3. QED
        BY <1>0, <4>1, <4>2
    <3>3. QED
      BY <1>0, <2>1, <3>1, <3>2 DEF LineBound, EngineDelay
  <2>4. QED
    BY <1>1, <2>2, <2>3 DEF ProcessAndWrite
<1>2. CASE SetMode
  BY <1>0, <1>2 DEF SetMode, Line!Clear, LineBound, EngineDelay
<1>3. CASE UNCHANGED <<capture, held>>
  BY <1>3 DEF LineBound, EngineDelay
<1>4. QED
  BY <1>1, <1>2, <1>3
     DEF Next, User, Audio, StartIO, StopIO, OnReadClientInput, Tick, vars, engine

----------------------------------------------------------------------------
\* The numbers of a client.
LEMMA ClientNumbers ==
    ASSUME PipelineAssumption, TypeOK, NEW c \in Clients, c \in Recording
    PROVE  request[c] \in Nat /\ request[c] > 0 /\ due[c] \in Nat
<1>1. request[c] \in RequestSizes \cup {0} /\ due[c] \in Nat
  BY TypeParts DEF ClientType
<1>2. request[c] > 0
  BY DEF Recording
<1>3. QED
  BY <1>1, <1>2, Numbers

\* What a tick does to the times of a client, and what the history makes of it.
LEMMA TickOf ==
    ASSUME PipelineAssumption, TypeOK, Tick, NEW c \in Clients, c \in Recording
    PROVE  /\ UNCHANGED <<capture, request, fill, connected, news, stale>>
           /\ ahead \in Nat /\ behind \in Nat
           /\ \/ /\ capture_due' = capture_due - 1 /\ due'[c] = due[c] - 1
                 /\ ahead' = ahead /\ behind' = behind
              \/ /\ capture_due' = capture_due - 1 /\ due'[c] = due[c]
                 /\ ahead' = ahead + 1 /\ behind' \in {behind, behind - 1}
              \/ /\ capture_due' = capture_due /\ due'[c] = due[c] - 1
                 /\ ahead' \in {ahead, ahead - 1} /\ behind' = behind + 1
<1>1. ahead \in Nat /\ behind \in Nat
  BY TypeParts, Numbers DEF DriftType
<1>2. UNCHANGED <<capture, request, fill, connected, news, stale>>
  BY DEF Tick, ring, driver
<1>3. ReadClock => due'[c] = due[c] - 1
  BY DEF ReadClock
<1>4. CASE CaptureClock /\ ReadClock /\ UNCHANGED drift
  BY <1>1, <1>2, <1>3, <1>4 DEF CaptureClock, drift
<1>5. CASE CaptureClock /\ UNCHANGED due /\ Gain(ahead, behind)
  BY <1>1, <1>2, <1>5 DEF CaptureClock, Gain
<1>6. CASE ReadClock /\ UNCHANGED capture_due /\ Gain(behind, ahead)
  BY <1>1, <1>2, <1>3, <1>6 DEF Gain
<1>7. QED
  BY <1>4, <1>5, <1>6 DEF Tick

\* Reading of a ring that has n frames: fewer than requested are left alone.
LEMMA ReadFill ==
    ASSUME PipelineAssumption, TypeOK, NEW c \in Clients, c \in Recording,
           NEW n \in 0..Capacity, NEW silent, Read(c, request[c], n, silent)
    PROVE  \/ request[c] <= n /\ fill' = n - request[c]
           \/ n < request[c] /\ fill' = n
  BY ClientNumbers DEF Read

LEMMA BacklogStep ==
    ASSUME PipelineAssumption, TypeOK, BacklogBound, [Next]_vars
    PROVE  BacklogBound'
<1> SUFFICES ASSUME NEW c \in Clients, Clients = {c}, c \in Recording', connected'
             PROVE  Backlog(c)' < 2 * request'[c] + Jitter + ahead'
  BY DEF BacklogBound
<1> USE DEF PipelineAssumption, engine, ring, driver, clients, drift
<1>0. ahead \in Nat
  BY DEF TypeOK
<1>1. CASE ProcessAndWrite
  <2>1. /\ c \in Recording /\ connected /\ request'[c] = request[c] /\ due'[c] = due[c]
        /\ ahead' = ahead
    BY <1>1 DEF ProcessAndWrite, Recording
  <2>2. capture_due' = capture_due + capture
    BY <1>1 DEF ProcessAndWrite
  <2>3. fill' = fill + capture \/ fill' = fill
    BY <1>1 DEF ProcessAndWrite, Write
  <2>4. Backlog(c) < 2 * request[c] + Jitter + ahead
    BY <2>1 DEF BacklogBound
  <2>5. QED
    BY <2>1, <2>2, <2>3, <2>4, ClientNumbers, <1>0 DEF Backlog, TypeOK
<1>2. CASE SetMode
  BY <1>2 DEF SetMode, BacklogBound, Backlog, Recording
<1>3. ASSUME NEW d \in Clients, NEW m \in RequestSizes, StartIO(d, m)
      PROVE  Backlog(c)' < 2 * request'[c] + Jitter + ahead'
  <2>1. d = c /\ Recording = {}
    BY <1>3 DEF StartIO, Recording
  <2>2. /\ fill' = 0 /\ capture_due' = capture_due /\ due'[c] = m /\ request'[c] = m
        /\ ahead' = ahead
    BY <1>3, <2>1 DEF StartIO, TypeOK
  <2>3. QED
    BY <1>0, <2>2 DEF Backlog, TypeOK
<1>4. ASSUME NEW d \in Clients, StopIO(d) PROVE FALSE
  BY <1>4 DEF StopIO, Recording, TypeOK
<1>5. ASSUME NEW d \in Clients, OnReadClientInput(d)
      PROVE  Backlog(c)' < 2 * request'[c] + Jitter + ahead'
  <2> DEFINE n == IF connected THEN fill ELSE 0
             silent == IF connected THEN mute ELSE 0
  <2>1. /\ d = c /\ c \in Recording /\ due[c] <= Jitter
        /\ due'[c] = due[c] + request[c]
        /\ request' = request /\ capture_due' = capture_due /\ ahead' = ahead
    BY <1>5 DEF OnReadClientInput, TypeOK
  <2>2. Read(c, request[c], n, silent)
    BY <1>5, <2>1 DEF OnReadClientInput
  <2>3. n \in 0..Capacity
    BY DEF TypeOK
  <2>4. \/ request[c] <= n /\ fill' = n - request[c]
        \/ n < request[c] /\ fill' = n
    <3> HIDE DEF n, silent
    <3>1. QED
      BY <2>1, <2>2, <2>3, ReadFill
  <2>5. connected => Backlog(c) < 2 * request[c] + Jitter + ahead
    BY <2>1 DEF BacklogBound
  <2>6. QED
    BY <2>1, <2>4, <2>5, ClientNumbers, <1>0 DEF Backlog, TypeOK
<1>6. CASE Tick
  <2>1. c \in Recording
    BY <1>6 DEF Tick, Recording
  <2>2. connected /\ Backlog(c) < 2 * request[c] + Jitter + ahead
    BY <1>6, <2>1, TickOf DEF BacklogBound
  <2>3. QED
    BY <1>6, <2>1, <2>2, TickOf, ClientNumbers DEF Backlog, TypeOK
<1>7. CASE UNCHANGED vars
  BY <1>7 DEF vars, BacklogBound, Backlog, Recording
<1>8. QED
  BY <1>1, <1>2, <1>3, <1>4, <1>5, <1>6, <1>7 DEF Next, User, Audio

----------------------------------------------------------------------------
\* Products of two variables, which the solver needs spelled out.
LEMMA OneMore == ASSUME NEW k \in Nat, NEW m \in Nat PROVE (k + 1) * m = k * m + m
  BY SMT

LEMMA Cancel ==
    ASSUME NEW j \in Nat, NEW k \in Nat, NEW m \in Nat, j * m < k * m PROVE j < k
<1>1. SUFFICES ASSUME j >= k PROVE FALSE
  OBVIOUS
<1>2. PICK d \in Nat : j = k + d
  BY <1>1
<1>3. j * m = k * m + d * m
  BY <1>2, SMT
<1>4. d * m \in Nat /\ k * m \in Nat
  BY SMT
<1>5. QED
  BY <1>3, <1>4

\* The ring of a client that suits has room for every write.
LEMMA RoomToWrite ==
    ASSUME PipelineAssumption, TypeOK, BacklogBound, NEW c \in Clients,
           Clients = {c}, Suits(c), connected, capture_due <= Jitter
    PROVE  fill + capture <= Capacity
<1>1. c \in Recording /\ capture + 2 * (request[c] + Jitter) + MaxDrift <= Capacity
  BY DEF Suits, RoomForBoth
<1>2. fill - capture_due + due[c] < 2 * request[c] + Jitter + ahead
  BY <1>1 DEF BacklogBound, Backlog
<1>3. /\ fill \in Int /\ capture_due \in Int /\ capture \in Int
      /\ ahead \in Int /\ ahead <= MaxDrift
  BY TypeParts, Numbers DEF RingType, ClockType, DriftType
<1>4. QED
  BY <1>1, <1>2, <1>3, ClientNumbers, Numbers

\* A client that suits never sees StaleThreshold callbacks without a beat.
LEMMA NeverStale ==
    ASSUME PipelineAssumption, TypeOK, BeatsInTime, NEW c \in Clients,
           Clients = {c}, Suits(c), due[c] <= Jitter
    PROVE  connected /\ Quiet < StaleThreshold
<1>1. connected /\ (~news => stale * request[c] + request[c] - due[c] + capture_due
                                <= capture + Jitter + behind)
  BY DEF BeatsInTime
<1>2. c \in Recording /\ capture + 2 * Jitter + MaxDrift < StaleThreshold * request[c]
  BY DEF Suits, NotTooShort
<1>3. /\ stale \in Nat /\ capture_due \in Nat /\ capture \in Nat
      /\ behind \in Nat /\ behind <= MaxDrift
  BY TypeParts, Numbers DEF StaleType, DriverType, ClockType, DriftType
<1>4. stale * request[c] \in Nat /\ StaleThreshold * request[c] \in Nat
  BY <1>2, <1>3, ClientNumbers, Numbers, SMT
<1>5. CASE news
  BY <1>1, <1>5, Numbers DEF Quiet
<1>6. CASE ~news
  <2>1. (stale + 1) * request[c] < StaleThreshold * request[c]
    <3> DEFINE sm == stale * request[c]
               tm == StaleThreshold * request[c]
    <3>1. (stale + 1) * request[c] = sm + request[c]
      BY <1>2, <1>3, OneMore, ClientNumbers
    <3>2. /\ sm \in Nat /\ tm \in Nat /\ capture + 2 * Jitter + MaxDrift < tm
          /\ sm + request[c] - due[c] + capture_due <= capture + Jitter + behind
      BY <1>1, <1>2, <1>4, <1>6
    <3> HIDE DEF sm, tm
    <3>3. sm + request[c] < tm
      BY <1>2, <1>3, <3>2, ClientNumbers, Numbers
    <3>4. QED
      BY <3>1, <3>3 DEF tm
  <2>2. stale + 1 < StaleThreshold
    BY <1>2, <1>3, <2>1, Cancel, ClientNumbers, Numbers
  <2>3. QED
    BY <1>1, <1>6, <2>2 DEF Quiet
<1>7. QED
  BY <1>5, <1>6

LEMMA BeatsStep ==
    ASSUME PipelineAssumption, TypeOK, TypeOK', BacklogBound, BeatsInTime,
           [Next]_vars
    PROVE  BeatsInTime'
<1> SUFFICES ASSUME NEW c \in Clients, Clients = {c}, Suits(c)'
             PROVE  /\ connected'
                    /\ ~news' => stale' * request'[c] + request'[c] - due'[c]
                                     + capture_due' <= capture' + Jitter + behind'
  BY DEF BeatsInTime
<1> DEFINE Goal == /\ connected'
                   /\ ~news' => stale' * request'[c] + request'[c] - due'[c]
                                    + capture_due' <= capture' + Jitter + behind'
<1> USE DEF engine, ring, driver, clients, drift
<1>0. /\ capture_due \in Nat /\ capture_due <= capture + Jitter
      /\ capture \in Nat /\ capture > 0 /\ Jitter \in Nat /\ stale \in Nat
      /\ behind \in Nat
  BY TypeParts, Numbers DEF ClockType, DriverType, StaleType, DriftType
<1>1. Suits(c) => /\ connected
                  /\ ~news => stale * request[c] + request[c] - due[c] + capture_due
                                  <= capture + Jitter + behind
  BY DEF BeatsInTime
<1>2. UNCHANGED <<capture, request>> => Suits(c)
  BY DEF Suits, Recording, NotTooShort, RoomForBoth
<1>3. CASE ProcessAndWrite
  <2>1. Suits(c) /\ connected /\ capture_due <= Jitter
    BY <1>1, <1>2, <1>3 DEF ProcessAndWrite
  <2>2. fill + capture <= Capacity
    BY <2>1, RoomToWrite
  <2>3. connected' = connected /\ news' = (news \/ connected)
    BY <1>3, <2>2 DEF ProcessAndWrite, Write
  <2>4. QED
    BY <2>1, <2>3
<1>4. CASE SetMode
  BY <1>1, <1>2, <1>4 DEF SetMode
<1>5. ASSUME NEW d \in Clients, NEW m \in RequestSizes, StartIO(d, m) PROVE Goal
  <2>1. d = c /\ Recording = {}
    BY <1>5 DEF StartIO, Recording
  <2>2. connected' = TRUE /\ stale' = 0
    BY <1>5, <2>1, Zenon DEF StartIO
  <2>3. /\ capture_due' = capture_due /\ capture' = capture
        /\ due'[c] = m /\ request'[c] = m /\ m \in Nat /\ behind' = behind
    BY <1>5, <2>1, TypeParts, Numbers DEF StartIO, ClientType
  <2>4. QED
    BY <1>0, <2>2, <2>3
<1>6. ASSUME NEW d \in Clients, StopIO(d) PROVE FALSE
  BY <1>6, TypeParts DEF StopIO, Suits, Recording, ClientType
<1>7. ASSUME NEW d \in Clients, OnReadClientInput(d) PROVE Goal
  <2>1. /\ d = c /\ due[c] <= Jitter /\ Suits(c)
        /\ UNCHANGED <<capture, capture_due, request, behind>>
    BY <1>2, <1>7 DEF OnReadClientInput
  <2>2. due'[c] = due[c] + request[c]
    BY <1>7, <2>1, TypeParts DEF OnReadClientInput, ClientType
  <2>3. connected /\ Quiet < StaleThreshold
    BY <2>1, NeverStale
  <2>4. Quiet \in Nat /\ StaleThreshold \in Nat
    BY <1>0, Numbers DEF Quiet
  <2>5. connected' = TRUE /\ stale' = Quiet
    BY <1>7, <2>3, <2>4 DEF OnReadClientInput
  <2>6. c \in Recording
    BY <2>1 DEF Suits
  <2>7. CASE news
    <3>1. stale' = 0
      BY <2>3, <2>5, <2>7 DEF Quiet
    <3>2. QED
      BY <1>0, <2>1, <2>2, <2>5, <2>6, <3>1, ClientNumbers
  <2>8. CASE ~news
    <3>1. stale' = stale + 1
      BY <2>3, <2>5, <2>8 DEF Quiet
    <3>2. stale' * request[c] = stale * request[c] + request[c]
      BY <1>0, <2>6, <3>1, OneMore, ClientNumbers
    <3>3. stale * request[c] \in Nat
      BY <1>0, <2>6, ClientNumbers, SMT
    <3>4. QED
      BY <1>0, <1>1, <2>1, <2>2, <2>5, <2>6, <2>8, <3>2, <3>3, ClientNumbers
  <2>9. QED
    BY <2>7, <2>8
<1>8. CASE Tick
  <2>1. Suits(c) /\ c \in Recording
    BY <1>2, <1>8 DEF Tick, Suits
  <2>2. stale * request[c] \in Nat
    BY <1>0, <2>1, ClientNumbers, SMT
  <2>3. /\ UNCHANGED <<capture, request, connected, news, stale>>
        /\ \/ capture_due' = capture_due - 1 /\ due'[c] = due[c] - 1 /\ behind' = behind
           \/ /\ capture_due' = capture_due - 1 /\ due'[c] = due[c]
              /\ behind' \in {behind, behind - 1}
           \/ /\ capture_due' = capture_due /\ due'[c] = due[c] - 1
              /\ behind' = behind + 1
    BY <1>8, <2>1, TickOf
  <2>4. stale' * request'[c] = stale * request[c]
    BY <2>3
  <2>5. QED
    BY <1>0, <1>1, <2>1, <2>2, <2>3, <2>4, ClientNumbers
<1>9. CASE UNCHANGED vars
  BY <1>1, <1>2, <1>9 DEF vars
<1>10. QED
  BY <1>3, <1>4, <1>5, <1>6, <1>7, <1>8, <1>9 DEF Next, User, Audio

----------------------------------------------------------------------------
\* The inductive invariant of the pipeline: types, the backlog of the ring,
\* the length of the line, and the callbacks without a beat.
THEOREM PipelineInvariant == ASSUME PipelineAssumption PROVE Spec => []Inv
<1>1. Init => Inv
  BY InitState
<1>2. Inv /\ [Next]_vars => Inv'
  <2> SUFFICES ASSUME Inv, [Next]_vars PROVE Inv'
    OBVIOUS
  <2>1. TypeOK /\ BacklogBound /\ LineBound /\ BeatsInTime
    BY DEF Inv
  <2>2. TypeOK'
    BY <2>1, TypeStep
  <2>3. BacklogBound' /\ LineBound' /\ BeatsInTime'
    BY <2>1, <2>2, BacklogStep, LineStep, BeatsStep
  <2>4. QED
    BY <2>2, <2>3 DEF Inv
<1>3. QED
  BY <1>1, <1>2, PTL DEF Spec

\* noise_bridge.cpp, io_handler.cpp: for all buffer lengths, every ring and
\* every jitter, the variables have their types, the ring is never overfull
\* and a driver that reaches the threshold has dropped its ring.
THEOREM PipelineTypes == ASSUME PipelineAssumption PROVE Spec => []TypeOK
<1>1. Inv => TypeOK
  BY DEF Inv
<1>2. QED
  BY <1>1, PipelineInvariant, PTL

\* process_and_write() and OnReadClientInput(): for all buffer lengths, every
\* capacity and every bound on the drift, less audio waits on its way than the
\* engine's part, a buffer of the microphone, two of the client and what the
\* microphone's clock has gained on the driver's.
THEOREM PipelineDelay == ASSUME PipelineAssumption PROVE Spec => []EndToEndDelay
<1>1. Inv => EndToEndDelay
  <2> SUFFICES ASSUME Inv, NEW c \in Clients, Clients = {c}, c \in Recording, connected
               PROVE  /\ fill < capture + 2 * (request[c] + Jitter) + ahead
                      /\ held + fill < EngineDelay + capture
                                           + 2 * (request[c] + Jitter) + ahead
    BY DEF EndToEndDelay
  <2>1. TypeOK /\ BacklogBound /\ LineBound
    BY DEF Inv
  <2>2. fill - capture_due + due[c] < 2 * request[c] + Jitter + ahead
    BY <2>1 DEF BacklogBound, Backlog
  <2>3. /\ fill \in Nat /\ capture_due \in Nat /\ capture \in Nat
        /\ capture_due <= capture + Jitter /\ held \in Nat /\ EngineDelay \in Int
        /\ ahead \in Nat
    BY <2>1, TypeParts, Numbers
       DEF RingType, ClockType, LineType, EngineDelay, DriftType
  <2>4. fill < capture + 2 * (request[c] + Jitter) + ahead
    BY <2>1, <2>2, <2>3, ClientNumbers, Numbers
  <2>5. QED
    BY <2>1, <2>3, <2>4, ClientNumbers, Numbers DEF LineBound
<1>2. QED
  BY <1>1, PipelineInvariant, PTL

\* OnReadClientInput(): whatever the sizes, as long as StaleThreshold callbacks
\* of the client take longer than a buffer of the microphone and the ring has
\* the room, both with what the clocks may drift, a producer that lives is
\* never taken for dead.
THEOREM PipelineKeepsProducer ==
    ASSUME PipelineAssumption PROVE Spec => KeepsLiveProducer
<1>1. Inv /\ Inv' /\ [Next]_vars =>
          [\A c \in Clients : Clients = {c} /\ Suits(c) /\ connected =>
               connected' \/ request' # request]_vars
  <2> SUFFICES ASSUME Inv', [Next]_vars, NEW c \in Clients, Clients = {c},
                      Suits(c), request' = request
               PROVE  connected'
    OBVIOUS
  <2>1. capture' = capture
    BY DEF Next, User, Audio, SetMode, StartIO, StopIO, ProcessAndWrite,
           OnReadClientInput, Tick, vars
  <2>2. Suits(c)'
    BY <2>1 DEF Suits, Recording, NotTooShort, RoomForBoth
  <2>3. QED
    BY <2>2 DEF Inv, BeatsInTime
<1>2. QED
  BY <1>1, PipelineInvariant, PTL DEF Spec, KeepsLiveProducer

\* A step that is not a start or a stop of the client takes nothing from the
\* backlog but what the driver's clock gains, and a callback that comes up short
\* adds a request to too small a one.
LEMMA GapStep ==
    ASSUME PipelineAssumption, TypeOK, BacklogBound, BeatsInTime, [Next]_vars,
           NEW c \in Clients, Clients = {c}, Suits(c), request' = request
    PROVE  \/ /\ Backlog(c)' + behind' >= Backlog(c) + behind
              /\ ~(due'[c] > due[c] /\ heard'[c] = "underrun")
           \/ /\ Backlog(c) < request[c] + Jitter /\ Backlog(c)' = Backlog(c) + request[c]
              /\ behind' = behind
<1> DEFINE Goal ==
        \/ /\ Backlog(c)' + behind' >= Backlog(c) + behind
           /\ ~(due'[c] > due[c] /\ heard'[c] = "underrun")
        \/ /\ Backlog(c) < request[c] + Jitter /\ Backlog(c)' = Backlog(c) + request[c]
           /\ behind' = behind
<1> USE DEF engine, ring, driver, clients, drift
<1>0. /\ capture \in Nat /\ capture_due \in Nat /\ fill \in 0..Capacity
      /\ Capacity \in Nat /\ Jitter \in Nat
      /\ request[c] \in Nat /\ request[c] > 0 /\ due[c] \in Nat
      /\ c \in Recording /\ connected /\ behind \in Nat
  BY TypeParts, Numbers, ClientNumbers
     DEF ClockType, RingType, Suits, BeatsInTime, DriftType
<1>1. CASE ProcessAndWrite
  <2>1. /\ capture_due <= Jitter /\ capture_due' = capture_due + capture
        /\ due' = due /\ behind' = behind
    BY <1>1 DEF ProcessAndWrite
  <2>2. fill + capture <= Capacity
    BY <1>0, <2>1, RoomToWrite
  <2>3. fill' = fill + capture
    BY <1>1, <2>2 DEF ProcessAndWrite, Write
  <2>4. QED
    BY <1>0, <2>1, <2>3 DEF Backlog
<1>2. CASE SetMode
  BY <1>0, <1>2 DEF SetMode, Backlog
<1>3. ASSUME NEW d \in Clients, NEW m \in RequestSizes, StartIO(d, m) PROVE FALSE
  BY <1>0, <1>3 DEF StartIO
<1>4. ASSUME NEW d \in Clients, StopIO(d) PROVE FALSE
  <2>1. request'[c] = 0
    BY <1>4, TypeParts DEF StopIO, ClientType
  <2>2. QED
    BY <1>0, <2>1
<1>5. ASSUME NEW d \in Clients, OnReadClientInput(d) PROVE Goal
  <2>1. /\ d = c /\ due[c] <= Jitter
        /\ capture_due' = capture_due /\ behind' = behind
    BY <1>5 DEF OnReadClientInput
  <2>2. due'[c] = due[c] + request[c]
    BY <1>5, <2>1, TypeParts DEF OnReadClientInput, ClientType
  <2>3. Quiet < StaleThreshold
    BY <2>1, NeverStale
  <2>4. Read(c, request[c], fill, mute)
    <3>1. Quiet \in Nat /\ StaleThreshold \in Nat
      BY TypeParts, Numbers DEF Quiet, DriverType, StaleType
    <3>2. ~(Quiet >= StaleThreshold)
      BY <2>3, <3>1
    <3>3. QED
      BY <1>0, <1>5, <2>1, <3>2 DEF OnReadClientInput
  <2>5. CASE request[c] <= fill
    <3>1. fill' = fill - request[c]
      BY <2>4, <2>5 DEF Read
    <3>2. heard'[c] # "underrun"
      BY <2>4, <2>5, TypeParts DEF Read, HeardType
    <3>3. QED
      BY <1>0, <2>1, <2>2, <3>1, <3>2 DEF Backlog
  <2>6. CASE ~(request[c] <= fill)
    <3>1. fill' = fill
      BY <2>4, <2>6 DEF Read
    <3>2. QED
      BY <1>0, <2>1, <2>2, <2>6, <3>1 DEF Backlog
  <2>7. QED
    BY <2>5, <2>6
<1>6. CASE Tick
  <2>1. /\ fill' = fill
        /\ \/ capture_due' = capture_due - 1 /\ due'[c] = due[c] - 1 /\ behind' = behind
           \/ /\ capture_due' = capture_due - 1 /\ due'[c] = due[c]
              /\ behind' \in {behind, behind - 1}
           \/ /\ capture_due' = capture_due /\ due'[c] = due[c] - 1
              /\ behind' = behind + 1
    BY <1>0, <1>6, TickOf
  <2>2. Backlog(c)' + behind' >= Backlog(c) + behind
    BY <1>0, <2>1 DEF Backlog
  <2>3. ~(due'[c] > due[c])
    BY <1>0, <2>1
  <2>4. QED
    BY <2>2, <2>3
<1>7. CASE UNCHANGED vars
  BY <1>0, <1>7 DEF vars, Backlog
<1>8. QED
  BY <1>1, <1>2, <1>3, <1>4, <1>5, <1>6, <1>7 DEF Next, User, Audio

\* process_and_write() and OnReadClientInput(): for all buffer lengths that
\* suit each other, every ring and every jitter, only the driver's clock takes
\* from the backlog while a client records, and every gap adds a request to it.
THEOREM PipelineGapsRunOut == ASSUME PipelineAssumption PROVE Spec => GapsRunOut
<1> DEFINE Step == \A c \in Clients : Clients = {c} /\ Suits(c) /\ request' = request =>
                       /\ Backlog(c)' + behind' >= Backlog(c) + behind
                       /\ due'[c] > due[c] /\ heard'[c] = "underrun" =>
                              /\ Backlog(c) < request[c] + Jitter
                              /\ Backlog(c)' = Backlog(c) + request[c]
<1>1. Inv /\ [Next]_vars => [Step]_vars
  <2> SUFFICES ASSUME Inv, [Next]_vars, NEW c \in Clients, Clients = {c},
                      Suits(c), request' = request
               PROVE  /\ Backlog(c)' + behind' >= Backlog(c) + behind
                      /\ due'[c] > due[c] /\ heard'[c] = "underrun" =>
                             /\ Backlog(c) < request[c] + Jitter
                             /\ Backlog(c)' = Backlog(c) + request[c]
    OBVIOUS
  <2>1. TypeOK /\ BacklogBound /\ BeatsInTime
    BY DEF Inv
  <2>2. request[c] \in Nat /\ Backlog(c) \in Int /\ behind \in Int
    BY <2>1, ClientNumbers, TypeParts, Numbers
       DEF Suits, Backlog, RingType, ClockType, DriftType
  <2>3. QED
    BY <2>1, <2>2, GapStep
<1>2. QED
  BY <1>1, PipelineInvariant, PTL DEF Spec, GapsRunOut
==========================================================================
