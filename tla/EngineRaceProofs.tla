------------------------- MODULE EngineRaceProofs -------------------------
(***************************************************************************)
(* What set_mode() and process_frame() are worth when something keeps them *)
(* apart, for every frame size and callbacks of any length: the order of   *)
(* the statements of either is not what lets old samples through, and no   *)
(* vector is erased past its end.  The application has no such exclusion,  *)
(* which is what the runs of EngineRace show.                              *)
(***************************************************************************)
EXTENDS EngineRace, SequenceTheorems, TLAPS

\* Neither call begins before the other has returned.
ExclusiveNext == (upc = "idle" /\ ProcessFrame) \/ (pc = "idle" /\ SwitchMode)

ExclusiveSpec == Init /\ [][ExclusiveNext]_vars

\* Without the other call, each step finds what the one before it left.
Types ==
    /\ in \in Nat /\ out \in Seq(Modes) /\ read_pos \in Nat /\ n \in Nat
    /\ mode \in Modes /\ used \in Modes
    /\ pc \in {"idle", "frames", "push", "erase", "emit"}
    /\ upc \in {"idle", "input", "output", "position", "started"}

CallsApart == pc = "idle" \/ upc = "idle"

ChunkWhole ==
    /\ pc \in {"push", "erase"} => in >= FrameSize
    /\ pc = "push" => used = mode

PositionInside ==
    /\ upc = "idle" => read_pos <= Len(out)
    /\ pc = "emit" => available = Len(out) - read_pos
    /\ upc \in {"position", "started"} => Len(out) = 0
    /\ upc = "started" => read_pos = 0

SamplesCurrent ==
    upc = "idle" => \A i \in 1..Len(out) : i > read_pos => out[i] = mode

Inv == Types /\ CallsApart /\ ChunkWhole /\ PositionInside /\ SamplesCurrent

\* Samples appended in the current mode, and what is left of them.
LEMMA Pushed ==
    ASSUME FrameSize \in Nat, NEW s \in Seq(Modes), NEW m \in Modes,
           NEW t, t = s \o [i \in 1..FrameSize |-> m]
    PROVE  /\ t \in Seq(Modes) /\ Len(t) = Len(s) + FrameSize
           /\ \A i \in 1..Len(t) : t[i] = IF i <= Len(s) THEN s[i] ELSE m
<1> DEFINE chunk == [i \in 1..FrameSize |-> m]
<1>1. chunk \in Seq(Modes) /\ Len(chunk) = FrameSize
  OBVIOUS
<1>2. \A i \in 1..FrameSize : chunk[i] = m
  OBVIOUS
<1> HIDE DEF chunk
<1>3. t = s \o chunk
  BY DEF chunk
<1>4. QED
  BY <1>1, <1>2, <1>3, ConcatProperties

\* Erasing a prefix that the sequence has.
LEMMA Erased ==
    ASSUME NEW s \in Seq(Modes), NEW p \in Nat, p <= Len(s),
           NEW t, t = SubSeq(s, p + 1, Len(s))
    PROVE  /\ t \in Seq(Modes) /\ Len(t) = Len(s) - p
           /\ \A i \in 1..Len(t) : t[i] = s[p + i]
  BY SubSeqProperties

\* The buffer that was cleared.
LEMMA Nothing == << >> \in Seq(Modes) /\ Len(<< >>) = 0
  OBVIOUS

\* A call of process_frame() that no other call interrupts.
LEMMA ProcessStep ==
    ASSUME FrameSize \in Nat, FrameSize > 0, CallbackSizes \subseteq Nat,
           Inv, upc = "idle", ProcessFrame
    PROVE  Inv'
<1> USE DEF Inv, Types, CallsApart, ChunkWhole, PositionInside, SamplesCurrent, engine
<1>1. ASSUME NEW frames \in CallbackSizes, TakeInput(frames) PROVE Inv'
  BY <1>1 DEF TakeInput
<1>2. CASE ChunkBegin
  BY <1>2 DEF ChunkBegin
<1>3. CASE ChunkPush
  <2>1. /\ out \in Seq(Modes) /\ mode \in Modes
        /\ out' = out \o [i \in 1..FrameSize |-> mode]
    BY <1>3 DEF ChunkPush
  <2>2. /\ out' \in Seq(Modes) /\ Len(out') = Len(out) + FrameSize
        /\ \A i \in 1..Len(out') : out'[i] = IF i <= Len(out) THEN out[i] ELSE mode
    BY <2>1, Pushed
  <2>3. QED
    BY <1>3, <2>2 DEF ChunkPush
<1>4. CASE ChunkErase
  BY <1>4 DEF ChunkErase
<1>5. CASE Measure
  BY <1>5 DEF Measure
<1>6. CASE Emit
  <2> DEFINE pos == read_pos + n
             emits == started /\ available >= n
             compacts == emits /\ pos > FrameSize * 2
  <2>1. /\ pc = "emit" /\ UNCHANGED <<mode, in, started, n, used, upc>>
        /\ read_pos' = IF compacts THEN 0 ELSE IF emits THEN pos ELSE read_pos
        /\ IF compacts /\ pos > Len(out)
           THEN pc' = "crashed" /\ UNCHANGED out
           ELSE /\ pc' = "idle"
                /\ out' = IF compacts THEN SubSeq(out, pos + 1, Len(out)) ELSE out
    BY <1>6 DEF Emit
  <2>2. pos \in Nat /\ Len(out) \in Nat
    OBVIOUS
  <2>3. available >= n => pos <= Len(out)
    BY <2>1
  <2>4. CASE compacts
    <3>1. /\ read_pos' = 0 /\ pc' = "idle"
          /\ out' = SubSeq(out, pos + 1, Len(out)) /\ pos <= Len(out)
      BY <2>1, <2>2, <2>3, <2>4
    <3> HIDE DEF pos
    <3>2. /\ out' \in Seq(Modes) /\ Len(out') = Len(out) - pos
          /\ \A i \in 1..Len(out') : out'[i] = out[pos + i]
      BY <2>2, <3>1, Erased
    <3>3. \A i \in 1..Len(out') : out'[i] = mode
      BY <2>2, <3>1, <3>2 DEF pos
    <3>4. QED
      BY <2>1, <3>1, <3>2, <3>3
  <2>5. CASE ~compacts
    <3>1. pc' = "idle" /\ out' = out
      BY <2>1, <2>5
    <3>2. read_pos' \in {read_pos, pos} /\ read_pos' <= Len(out)
      BY <2>1, <2>2, <2>3, <2>5
    <3>3. read_pos' >= read_pos
      BY <3>2
    <3>4. QED
      BY <2>1, <2>2, <3>1, <3>2, <3>3
  <2>6. QED
    BY <2>4, <2>5
<1>7. QED
  BY <1>1, <1>2, <1>3, <1>4, <1>5, <1>6 DEF ProcessFrame

\* A call of set_mode() between two of them.
LEMMA SwitchStep ==
    ASSUME Inv, pc = "idle", SwitchMode PROVE Inv'
<1> USE DEF Inv, Types, CallsApart, ChunkWhole, PositionInside, SamplesCurrent, audio
<1>1. ASSUME NEW m \in Modes, SetMode(m) PROVE Inv'
  BY <1>1 DEF SetMode
<1>2. CASE ClearInput
  BY <1>2 DEF ClearInput
<1>3. CASE ClearOutput
  <2>1. out' \in Seq(Modes) /\ Len(out') = 0
    BY <1>3, Nothing, Zenon DEF ClearOutput
  <2>2. pc = "idle" /\ upc' = "position" /\ UNCHANGED <<mode, in, read_pos, started, audio>>
    BY <1>3 DEF ClearOutput
  <2>3. QED
    BY <2>1, <2>2
<1>4. CASE ClearPosition
  BY <1>4 DEF ClearPosition
<1>5. CASE ClearStarted
  BY <1>5 DEF ClearStarted
<1>6. QED
  BY <1>1, <1>2, <1>3, <1>4, <1>5 DEF SwitchMode

\* set_mode() (engine.cpp:416): when it and process_frame() do not overlap, it
\* leaves no sample of the previous denoiser, and no index is out of range.
THEOREM ExclusionSuffices ==
    ASSUME FrameSize \in Nat, FrameSize > 0, CallbackSizes \subseteq Nat
    PROVE  ExclusiveSpec => [](NoStaleSamples /\ pc # "crashed")
<1>1. Init => Inv
  <2>1. ASSUME Init PROVE out \in Seq(Modes) /\ Len(out) = 0
    BY <2>1, Nothing, Zenon DEF Init
  <2>2. ASSUME Init
        PROVE  /\ mode \in Modes /\ in = 0 /\ read_pos = 0
               /\ pc = "idle" /\ n = 0 /\ used = mode /\ upc = "idle"
    BY <2>2 DEF Init
  <2>3. QED
    BY <2>1, <2>2 DEF Inv, Types, CallsApart, ChunkWhole, PositionInside, SamplesCurrent
<1>2. Inv /\ [ExclusiveNext]_vars => Inv'
  <2>1. ASSUME Inv, UNCHANGED vars PROVE Inv'
    BY <2>1 DEF vars, engine, audio, Inv, Types, CallsApart, ChunkWhole,
       PositionInside, SamplesCurrent
  <2>2. QED
    BY <2>1, ProcessStep, SwitchStep DEF ExclusiveNext
<1>3. Inv => NoStaleSamples /\ pc # "crashed"
  BY DEF Inv, Types, SamplesCurrent, NoStaleSamples
<1>4. QED
  BY <1>1, <1>2, <1>3, PTL DEF ExclusiveSpec
==========================================================================
