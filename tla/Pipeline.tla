---------------------------- MODULE Pipeline ----------------------------
(***************************************************************************)
(* From the microphone to a recording application, in audio time: the      *)
(* bridge's process_and_write() composes the engine with the shared ring,  *)
(* and the driver's OnReadClientInput() empties the ring on the other      *)
(* side.  Each side runs when its device asks for the next buffer, which   *)
(* takes as long as the buffer lasts by the clock of that device, so all   *)
(* there is to time is the number of frames each side may still wait.  The *)
(* clocks of the microphone and of the virtual device are not the same:    *)
(* either may run ahead of the other, and no code makes up for it.         *)
(*                                                                         *)
(* The engine is the delay line it implements (DelayLine), the ring a      *)
(* queue (AudioFifo) of which only the length counts and where its last    *)
(* silence ends.  The application goes on offering its ring, and the       *)
(* driver finds it whenever it looks; ShmLink is about the other cases.    *)
(* The host gives every recording application callbacks of its own, starts *)
(* IO with the first of them and stops it with the last.                   *)
(***************************************************************************)
EXTENDS Integers

CONSTANTS FrameSize,       \* DENOISE_FRAME_SIZE
          Capacity,        \* frames in the ring, 4800 in the code
          StaleThreshold,  \* kStaleThreshold
          CaptureSizes,    \* lengths the microphone's buffer may have
          RequestSizes,    \* lengths a recording application may ask for
          Clients,         \* recording applications
          Jitter,          \* frames by which a callback may come early
          MaxDrift         \* bound: frames that one device's clock gains on
                           \* the other's in any stretch of a recording

ASSUME PipelineAssumption ==
    /\ {FrameSize, Capacity, StaleThreshold, Jitter, MaxDrift} \subseteq Nat
    /\ FrameSize > 0 /\ StaleThreshold > 0
    /\ \A n \in CaptureSizes \cup RequestSizes : n \in Nat /\ n > 0

VARIABLES
    capture, capture_due,      \* the microphone's buffer, and time left to it
    held, started, result,     \* the engine
    fill,                      \* frames in the ring
    mute,                      \* how many of them up to its last silent one
    beaten,                    \* heartbeat # 0
    connected, stale, news,    \* driver: shared_buffer_, stale_count_ and
                               \* heartbeat # last_heartbeat_
    request, due, heard,       \* each client's buffer, time left, last answer
    ahead, behind              \* history: the most that the microphone's clock
                               \* has gained on the driver's in a stretch of the
                               \* recording that ends now, and the reverse

engine == <<held, started, result>>
ring == <<fill, mute, beaten>>
driver == <<connected, stale, news>>
clients == <<request, due, heard>>
drift == <<ahead, behind>>
vars == <<capture, capture_due, engine, ring, driver, clients, drift>>

Line == INSTANCE DelayLine WITH CallbackSizes <- CaptureSizes

Recording == {c \in Clients : request[c] > 0}

Init ==
    /\ capture \in CaptureSizes /\ capture_due = capture
    /\ Line!Init
    /\ fill = 0 /\ mute = 0 /\ beaten = FALSE
    /\ connected = FALSE /\ stale = 0 /\ news = FALSE
    /\ request = [c \in Clients |-> 0] /\ due = [c \in Clients |-> 0]
    /\ heard = [c \in Clients |-> "nothing"]
    /\ ahead = 0 /\ behind = 0

----------------------------------------------------------------------------
\* Mutant: a full ring is written to.
WriteOverfull(silent) ==
    /\ fill' = fill + capture
    /\ mute' = IF silent THEN fill' ELSE mute
    /\ beaten' = TRUE
    /\ news' = (news \/ connected)

\* write() of one buffer, silent or not.
Write(silent) ==
    IF fill + capture <= Capacity
    THEN /\ fill' = fill + capture
         /\ mute' = IF silent THEN fill' ELSE mute
         /\ beaten' = TRUE
         /\ news' = (news \/ connected)
    ELSE UNCHANGED <<fill, mute, beaten, news>>

\* noise_engine_process_and_write(): the engine's answer, audio or silence,
\* goes into the ring.
ProcessAndWrite ==
    /\ capture_due <= Jitter
    /\ capture_due' = capture_due + capture
    /\ Line!Emit(capture) \/ Line!Fill(capture)
    /\ Write(result' = "silence")
    /\ UNCHANGED <<capture, connected, stale, clients, drift>>

\* set_mode(), from the menu: the engine starts anew.
SetMode ==
    /\ Line!Clear
    /\ UNCHANGED <<capture, capture_due, ring, driver, clients, drift>>

\* Mutant: what was buffered before the connection stays.
StartIOWithoutFlush(c, m) ==
    /\ request[c] = 0
    /\ request' = [request EXCEPT ![c] = m]
    /\ due' = [due EXCEPT ![c] = m]
    /\ IF Recording = {}
       THEN connected' = TRUE /\ stale' = 0 /\ news' = beaten
       ELSE UNCHANGED driver
    /\ UNCHANGED <<capture, capture_due, engine, ring, heard, drift>>

\* OnStartIO() connects, and flushes what is in the ring.
StartIO(c, m) ==
    /\ request[c] = 0
    /\ request' = [request EXCEPT ![c] = m]
    /\ due' = [due EXCEPT ![c] = m]
    /\ IF Recording = {}
       THEN /\ connected' = TRUE /\ stale' = 0 /\ news' = beaten
            /\ fill' = 0 /\ mute' = 0
       ELSE UNCHANGED <<driver, fill, mute>>
    /\ UNCHANGED <<capture, capture_due, engine, beaten, heard, drift>>

\* OnStopIO() disconnects.
StopIO(c) ==
    /\ c \in Recording
    /\ request' = [request EXCEPT ![c] = 0]
    /\ due' = [due EXCEPT ![c] = 0]
    /\ heard' = [heard EXCEPT ![c] = "nothing"]
    /\ IF Recording = {c}
       THEN connected' = FALSE /\ stale' = 0 /\ news' = FALSE /\ ahead' = 0 /\ behind' = 0
       ELSE UNCHANGED <<driver, drift>>
    /\ UNCHANGED <<capture, capture_due, engine, ring>>

\* Mutant: a read that does not fit takes what there is.
ReadPartly(c, m, n, silent) ==
    IF m <= n
    THEN /\ fill' = n - m
         /\ mute' = IF silent > m THEN silent - m ELSE 0
         /\ heard' = [heard EXCEPT ![c] = IF silent = 0 THEN "audio" ELSE "silence"]
    ELSE /\ fill' = 0 /\ mute' = 0
         /\ heard' = [heard EXCEPT ![c] = "underrun"]

\* read() of m frames from a ring with n, silent up to frame number silent.
Read(c, m, n, silent) ==
    IF m <= n
    THEN /\ fill' = n - m
         /\ mute' = IF silent > m THEN silent - m ELSE 0
         /\ heard' = [heard EXCEPT ![c] = IF silent = 0 THEN "audio" ELSE "silence"]
    ELSE /\ fill' = n /\ mute' = silent
         /\ heard' = [heard EXCEPT ![c] = "underrun"]

\* Mutant: a beat does not reset the count.
QuietForGood == stale + (IF news \/ (beaten /\ ~connected) THEN 0 ELSE 1)

\* Mutant: a quiet ring is kept.
QuietIgnored == 0

\* The callbacks without a beat, with the one under way: a driver that has to
\* connect has seen no beat at all.
Quiet == LET beat == IF connected THEN news ELSE beaten
         IN  IF beat THEN 0 ELSE stale + 1

\* OnReadClientInput(): a driver that has no ring connects first, which
\* flushes it; one whose ring had no beat for StaleThreshold calls in a row
\* drops it.
OnReadClientInput(c) ==
    LET n == IF connected THEN fill ELSE 0
        silent == IF connected THEN mute ELSE 0
    IN  /\ c \in Recording /\ due[c] <= Jitter
        /\ due' = [due EXCEPT ![c] = @ + request[c]]
        /\ news' = FALSE
        /\ \/ /\ Quiet >= StaleThreshold
              /\ connected' = FALSE /\ stale' = 0
              /\ fill' = n /\ mute' = silent
              /\ heard' = [heard EXCEPT ![c] = "underrun"]
           \/ /\ Quiet < StaleThreshold
              /\ connected' = TRUE /\ stale' = Quiet
              /\ Read(c, request[c], n, silent)
        /\ UNCHANGED <<capture, capture_due, engine, beaten, request, drift>>

\* A frame's time passes by the clock of one device, unless a callback of it
\* is due.
CaptureClock == capture_due > 0 /\ capture_due' = capture_due - 1

ReadClock == /\ \A c \in Recording : due[c] > 0
             /\ due' = [c \in Clients |-> IF c \in Recording THEN due[c] - 1 ELSE 0]

\* One clock gains a frame, which the other loses of what it has gained in the
\* stretches that end now.
Gain(mine, others) == /\ mine < MaxDrift
                      /\ mine' = mine + 1
                      /\ others' = IF others > 0 THEN others - 1 ELSE 0

Tick ==
    /\ \/ CaptureClock /\ ReadClock /\ UNCHANGED drift
       \/ Recording # {} /\ CaptureClock /\ UNCHANGED due /\ Gain(ahead, behind)
       \/ Recording # {} /\ ReadClock /\ UNCHANGED capture_due /\ Gain(behind, ahead)
    /\ UNCHANGED <<capture, engine, ring, driver, request, heard>>

----------------------------------------------------------------------------
User == \/ SetMode
        \/ \E c \in Clients : StopIO(c) \/ \E m \in RequestSizes : StartIO(c, m)

Audio == ProcessAndWrite \/ Tick \/ \E c \in Clients : OnReadClientInput(c)

Next == User \/ Audio

Spec == Init /\ [][Next]_vars

\* Time goes on, and callbacks that are due come.
FairSpec == Spec /\ WF_vars(Audio)

----------------------------------------------------------------------------
(***************************************************************************)
(* Properties.                                                             *)
(***************************************************************************)

\* Every variable has its type; the ring is never overfull, and a driver that
\* reaches the threshold has dropped its ring.
TypeOK ==
    /\ capture \in CaptureSizes /\ capture_due \in 0..capture + Jitter
    /\ held \in Nat /\ started \in BOOLEAN
    /\ result \in {"none", "audio", "silence"}
    /\ fill \in 0..Capacity /\ mute \in 0..fill /\ beaten \in BOOLEAN
    /\ connected \in BOOLEAN /\ news \in BOOLEAN
    /\ stale \in Nat /\ stale < StaleThreshold
    /\ request \in [Clients -> RequestSizes \cup {0}]
    /\ due \in [Clients -> Nat]
    /\ heard \in [Clients -> {"nothing", "audio", "silence", "underrun"}]
    /\ ahead \in 0..MaxDrift /\ behind \in 0..MaxDrift

\* The callbacks of a client are not so short that the time between two
\* buffers of the microphone has StaleThreshold of them.
NotTooShort(c) == capture + 2 * Jitter + MaxDrift < StaleThreshold * request[c]

\* The ring has room for what comes between two reads, a read to come and
\* what the microphone's clock gains.
RoomForBoth(c) == capture + 2 * (request[c] + Jitter) + MaxDrift <= Capacity

Suits(c) == c \in Recording /\ NotTooShort(c) /\ RoomForBoth(c)

\* The most the engine holds back: the two frames it starts with, or what a
\* longer buffer that came up short has added to less than a frame.
EngineDelay == IF capture <= FrameSize + 1 THEN FrameSize * 2
               ELSE FrameSize - 1 + capture

\* From microphone to client the audio is delayed by less than the engine's
\* part, a buffer of the microphone, two of the client, and what the clock of
\* the microphone has gained, whatever was in the ring when the recording
\* began.  It is only the drift of the clocks that makes a larger ring add
\* delay (noise_bridge.cpp:188-190): it goes on until the ring is full.
EndToEndDelay ==
    \A c \in Clients :
        Clients = {c} /\ c \in Recording /\ connected =>
            /\ fill < capture + 2 * (request[c] + Jitter) + ahead
            /\ held + fill < EngineDelay + capture + 2 * (request[c] + Jitter) + ahead

\* A producer that is alive is not taken for dead, if the two sides' buffers
\* suit each other.
KeepsLiveProducer ==
    [][\A c \in Clients : Clients = {c} /\ Suits(c) /\ connected =>
           connected' \/ request' # request]_vars

\* The ring against the two clocks: time that passes for both, a buffer
\* written and one read leave it as it is.
Backlog(c) == fill - capture_due + due[c]

\* Gaps run out: between its start and its stop, no write is dropped and no
\* ring flushed under a client that suits, and only the driver's clock can
\* take from what is in hand; a callback comes up short only while that is
\* less than a request and the jitter, and when it does the next ones have a
\* request more.
GapsRunOut ==
    [][\A c \in Clients : Clients = {c} /\ Suits(c) /\ request' = request =>
           /\ Backlog(c)' + behind' >= Backlog(c) + behind
           /\ due'[c] > due[c] /\ heard'[c] = "underrun" =>
                  /\ Backlog(c) < request[c] + Jitter
                  /\ Backlog(c)' = Backlog(c) + request[c]]_vars

\* An application that records hears the microphone without a gap in the end,
\* when the user leaves the controls alone and the buffers suit each other:
\* each underrun leaves more in the ring for the next callback, and each
\* dropout of the engine more in the line, so both come to an end.
MicrophoneHeard ==
    <>[][~User]_vars =>
        \A c \in Clients : <>[](Suits(c) => heard[c] = "audio")

\* Even when the ring has not the room, and neither a write nor a read fits,
\* audio goes on in pieces: the driver takes the producer for dead and
\* flushes the ring.
AudioKeepsFlowing ==
    <>[][~User]_vars => \A c \in Clients :
        <>[](/\ Recording = {c} /\ NotTooShort(c)
             /\ request[c] <= (Capacity \div capture) * capture)
            => []<>(heard[c] = "audio")

\* Only a producer that is dead is presumed dead: the one of this model lives,
\* and it has beaten before it is dropped.
OnlyTheDeadAreDropped ==
    [][connected /\ beaten => connected' \/ request' # request]_vars
==========================================================================
