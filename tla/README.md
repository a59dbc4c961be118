# A verification development for NoiseAI

NoiseAI is a macOS menu bar application that captures the microphone, removes
noise from the audio and offers the result to every other application as a
virtual microphone. This directory holds TLA+ models of the parts of it that
have state worth reasoning about, TLC configurations that check them on small
instances, and theorems about them that TLAPS proves for every value of the
constants.

```
 microphone --> AUHAL callback --> noise_bridge --> Engine (denoise)
                (audio thread)          |
                                        v
                          SharedRingBuffer  "/com.noiseai.audio"
                                        |        (two processes)
                                        v
                 coreaudiod:  IOHandler (driver) --> recording applications
 menu bar (main thread): start / stop / switch device / set mode
```

To check a run: `tlc -config MCSharedRing.cfg MCSharedRing`; to check the proofs
of a module: `tlapm SharedRingProofs.tla`.

## 1. The system's parts

| component | state | operations | what is hard |
|---|---|---|---|
| Shared ring, `engine/src/shared_ring_buffer.cpp` | write and read position, heartbeat, cells, in shared memory | `write`, `read`, `flush`, `available_*`, `get_heartbeat` | lock-free between two processes, either of which may die inside a call |
| Shared memory link, the same file's constructor and destructor, `bridge/src/noise_bridge.cpp`, `driver/src/io_handler.cpp` | the name, the segments it led to, `active`, the driver's mapping, retry countdown, stale count | `noise_shm_create/destroy`, `OnStartIO`, `OnStopIO`, `ensureConnected`, `OnReadClientInput` | names removed and reused, failures of system calls, crashes, a dead producer that looks like a quiet one |
| Engine, `engine/src/engine.cpp`, with `deepfilter.cpp` | status, mode, denoiser states, input and output buffer, prefill flag, overload counters | `init`, `shutdown`, `set_mode`, `load_deepfilter_model`, `set_attenuation_limit`, `process_frame` | callbacks that do not fit frames, slow inference, state that must not survive a switch, calls from two threads |
| C bridge, `bridge/src/noise_bridge.cpp` | one engine and one ring | forwarding, `process_and_write` | lifetime of the ring beside the callback; two sides that each go at the pace of their own device |
| Application, `app/Sources` | handle, capture context, selected device, UI state | `start`, `stop`, `switchDevice`, `setMode`, device notifications | partial failures, device changes |
| `RingBuffer` (in-process), plug-in registration, stubs, scripts | | | see section 7 |

How they interact: the capture callback runs `process_and_write`, which calls
`Engine::process_frame` and then `SharedRingBuffer::write` on the device's
real-time thread. The menu bar calls start, stop and `set_mode` on the main
thread. The driver in coreaudiod opens the segment by its name, flushes it, and
reads from it in its own IO callback. The only data the two processes share are
the segment's header and cells and the name itself.

## 2. Modules

| module | models | role |
|---|---|---|
| `AudioFifo` | what the ring promises | abstract specification: a bounded queue in which each call is one step |
| `SharedRing` | `write`, `read`, `flush` | detailed specification, refines `AudioFifo` |
| `SharedRingProofs` | | the theorems about `SharedRing` |
| `DelayLine` | what `process_frame` promises | abstract specification: a delay line in which each call is one step |
| `DelayLineProofs` | | what follows from that promise alone |
| `Engine` | `noise::Engine`, `DeepFilterEngine` | refines `DelayLine`: frame buffering, control calls, overload fallback |
| `EngineProofs` | | the theorems about `Engine` |
| `EngineRace` | `set_mode` beside `process_frame` | the engine as the application uses it |
| `EngineRaceProofs` | | the same two calls if they were kept apart |
| `ShmLink` | creation, naming, discovery, stale detection | application and driver around the segments |
| `ShmLinkProofs` | | the theorems about `ShmLink` |
| `Pipeline` | `process_and_write`, the driver, recording applications | composes `DelayLine`, the ring and the driver in audio time |
| `PipelineProofs` | | the theorems about `Pipeline` |
| `AppControl` | `AudioManager`, `DeviceManager`, menu bar | handlers of the main thread beside the callback and the devices |
| `AppControlProofs` | | the theorems about `AppControl` |
| `MC...` | | instances for TLC |

Operators named in a comment as *Mutant* are not part of a specification. Each
is a plausible bug of the definition it stands before; replacing that
definition by it must make TLC find a property violated, which shows that the
property says something about the code.

### SharedRing

Variables `write_pos`, `read_pos`, `heartbeat` and `data` are the segment;
`wpc`, `wn`, `wleft` the writer's place in `write()`, its `num_samples` and the
samples it has still to copy; `rpc`, `rn`, `rleft`, `rbuf` the same for the
reader, and `flush_pos` the local variable of `flush()`. The history variable
`writes` counts the writes that were accepted and published.

`write()` is `WriteBegin` (the loads and the test for room, one step because
the writer alone changes `write_pos` and `read_pos` is loaded once) or
`WriteOverflow`; a `WriteCopy` for each sample, in any order, because a `memcpy`
orders nothing; `WritePublish`, the release store; `WriteBeat`. `read()` and
`flush()` are cut the same way. `ProducerStops` and `ConsumerDetaches` end a
side between any two steps. A sample is named by its place in the stream of
accepted samples, which makes loss, repetition, reordering and tearing visible.
`AudioFifo` states what all of this amounts to: `Put`, `Refuse`, `Take`,
`Underrun`, `Discard`. The refinement mapping is `accepted = write_pos` and
`queue = ` the positions from `read_pos` to `write_pos - 1`. A writer takes
effect at `WritePublish`, a reader at `ReadFinish`, a flush at `FlushStore`.

The release stores and acquire loads of the code give the order that the
interleaving of steps assumes: what was copied before a position was published
is seen by whoever loads that position.

### Engine

Buffers are modelled by their lengths, since no branch looks at a sample.
`process_frame()` is `Refuse`, or `Append(n)`, then one `BypassFrame` or
`DenoiseFrame(slow)` per complete frame, then `HandOut`. `slow` stands for the
measured time being above `OVERLOAD_THRESHOLD_MS`. `InitOk`, `InitFails`,
`Shutdown`, `SetMode`, `LoadModel` and `SetAttenuationLimit` are the control
calls; each happens between two calls of `process_frame()`. For init and
shutdown that is what the application does, as it stops the audio unit first.
For `set_mode()` it is not, which is what `EngineRace` is about.

`df_memory` abstracts the recurrent state of the model to what matters: zero, fed
with audio of the current stream, or left over from audio that was dropped.
`DfLoad` and `DfInfer` are the model's two calls with their failures: a load
that throws leaves the memory it had, an inference that throws answers with
silence and leaves it too.
The branch of `process_frame()` for an engine without any denoiser is left out:
`DenoiserReady`, which is checked and proved, shows that it is never taken.

`DelayLine` is what its caller may rely on. A call hands in and gets back as
many samples; the line fills to two frames; from then on a call is silent only
if fewer than `FrameSize - 1` samples were held back, and a silence makes the
line longer, for good. `Engine` implements it with `held` mapped to the
backlog without what the call under way has handed in: appending, denoising and
the overload fallback are stutters, `HandOut` is `Emit` or `Fill`.

### EngineRace

The same engine with `set_mode()` statement by statement on another thread.
Every operation on a vector is one step. This is the kindest reading of what is
formally undefined behaviour, and the property fails already under it. The model
ends `set_mode()` with its last store to the engine's buffers: `reset_state()` and
`apply_attenuation_for_mode()` after it (`engine.cpp:421-427`) reset and tune the
model while a frame may be in it, which is a race as well, but one inside
`DeepFilterEngine` that no buffer depends on.

### ShmLink

The producer's actions are the system calls of `noise_shm_create()` and
`noise_shm_destroy()` in their order, with failures of `shm_open`, `ftruncate`
and `mmap`; header fields are stored in any order, as they are plain stores seen
by another process. `AppEnds` is a crash, and also quitting: the application
has no termination handler and runs no destructor, so the name and `active = 1`
stay behind. The driver's actions are the accesses of one callback to what it
shares with the producer: `ReadBegin` (up to `shm_open`), `MapSegment`,
`MapFails` (a system call of its own fails), `Flush`, `CheckActive`,
`CheckHeartbeat`, `Read`, and `OnStartIO`, `OnStopIO`.
`DriverDies` is coreaudiod being killed, as the install script does.

A heartbeat is compared only for equality with the last one seen, so two bits
stand for it. The history variable `waited` counts callbacks in a row that end
without the ring that is on offer, and `quiet` counts heartbeat tests since the
last beat; `waited` stops at `MaxWaited`, above every bound claimed.

### Pipeline

Microphone, engine, ring, driver and recording applications in one module, to
say what the two sides make of each other's pace. Time is counted in frames of
audio: `capture_due` and `due[c]` are what is left until the microphone's and
each client's next callback. `Tick` lets a frame pass unless one of them is due,
for both devices or, while a client records, for one of them alone, as the clocks
of the microphone and of the virtual device drift. The history variables `ahead`
and `behind` are the most that the microphone's clock has gained on the driver's,
and the driver's on the microphone's, in a stretch of the recording that ends now;
neither exceeds `MaxDrift`, a bound on the models that the theorems leave open.
A callback may come `Jitter` frames early, and then its next one is counted
from when it should have come. `ProcessAndWrite` is
`noise_engine_process_and_write()`: a step of `DelayLine` (the specification
that `Engine` implements stands for it) and a write of the answer. The ring is
the bounded queue of `AudioFifo` with its samples left out: `fill` is its length and
`mute` how far into it the last silent frame lies, which is enough to tell
whether a read hands out audio. `OnReadClientInput` is the driver's whole
callback: connect and flush if there is no ring, count callbacks without a
beat, drop the ring or read.

`request[c]` is the buffer length of a client that records, `StartIO` and
`StopIO` its coming and going; the host starts IO with the first client and
stops it with the last, and all share the one handler that
`CreateNoiseAIDriver()` makes. That each client has a callback of its own is
how the driver's interface (`OnReadClientInput` with a client) is used by the
host, which is not in the repository. The producer of this module stays: its
end and what the link does then are in `ShmLink`.

### AppControl

The main thread runs one handler at a time; `pc` is its place. `stop()` is
`StopUnit`, `DisposeUnit`, `ReleaseContext`, `StopEngine`, `DestroyRing`;
`start()` is `CreateRing`, `StartEngine`, `SetupUnit`; `switchDevice()` runs
both when something is being processed (`restart`). `SetupUnit` has each of its
outcomes: no unit, a unit that does not start, a unit that captures. Its error
paths end the setup in four cases only; that the device could not be set
(`AudioManager.swift:306`) is just logged, and the unit is initialised and started
all the same. `Capture` has both: the device asked for is set and captured, or it
is refused (always so if it has gone) and the unit captures whatever microphone
the audio system gave it, which the history variable `refused` notes until the
unit is disposed of. The virtual microphone is not among those: a unit is made
with the default output device, and the virtual device has an input stream only
(`device.cpp:34`). The
callback of the audio thread, `CallbackBegins`, `CallbackProcesses`,
`CallbackReturns`, runs between any two of these. That no callback begins after
`AudioOutputUnitStop`, and that disposing waits for the last one, is the audio
system's promise.

Microphones come and go (`Plug`, `Unplug`) and the default input moves at any
time, also between the three queries of `refreshDevices()`: `RefreshBegin` reads
the default, `RefreshRead` the list, `RefreshPublish` asks each device and
publishes. A change reaches the main queue by way of the listener's own queue
(`ListenerRuns`), and not at all before `InstallListeners`. The order in which
the system lists devices is left open. Sets stand for lists, and a microphone
for its identifier and its UID. The virtual device is not among the microphones;
the filter by name that keeps it off the list (`DeviceManager.swift:52`) is not
modelled. `SelectDevice` takes listed devices only, as the picker offers no others;
`selectDevice()` with another UID, which would change the selection and tell
nobody, is left out.

## 3. Runs

| run | expects | question | result |
|---|---|---|---|
| `SharedRing` | pass | Can any interleaving or crash make the ring lose, repeat, tear or overwrite audio? | no; 104 063 states |
| `Engine` | pass | Is output continuous and the delay bounded for every mixture of callback lengths up to a frame and one? Is it a delay line? Do control calls leave the denoisers right? Is the fallback exact, and does it end? | yes; 83 326 states |
| `EngineLatency` | violation | Is the delay within the documented 16 ms? | no, up to 896 samples = 18.7 ms |
| `EngineReserve` | violation | Does the reserve suffice for callbacks of 1024? | no |
| `EngineRace` | violation | Does `set_mode()` leave no audio of the previous denoiser? | not while a callback runs |
| `ShmLink` | pass | Does the driver find a ring on offer, in bounded time, again and again, and drop only silent ones? | yes; 129 516 states |
| `ShmLinkTwice` | violation | Does a second `noise_shm_create()` leave a ring that can be found? | no |
| `AppControl` | pass | Is the callback safe from stop and start, do failures leave anything behind, does the selection keep up? | yes, unless the audio system refuses the device; 332 578 states |
| `AppFeedback` | violation | Does the application avoid its own microphone? | no |
| `Pipeline` | pass | How long is the way of a sample, does a live producer keep its driver, does one recording application hear it without gaps in the end? | bounded by the buffers and the drift; yes, if the buffers suit each other; 115 041 states |
| `PipelineStale` | violation | With the code's constants, is only a dead producer presumed dead? | no, 64-frame reads against 4096-frame captures |
| `PipelineTwoClients` | violation | Do two recording applications hear the microphone? | no |

Each passing run's properties are commented in the modules. The strongest are:

* `ImplementsFifo`: every behaviour of the steps is a behaviour of the queue.
* `UnreadIntact`, `ReadsInOrder`, `NoDataRace`, `NoStaleAudio`, `NeverReadTwice`:
  what the two processes can rely on, crash or not.
* `NoDropout`, `LatencyBound`, `Cushion`: the prefill of two frames is enough
  for callbacks up to 481 samples in any mixture, and costs less than two
  frames of delay. `Cushion` bounds what is held back between calls on both sides;
  that it never changes at all after output has started is the theorem
  `EngineCushionKept`. `LatencyBound` covers longer
  callbacks as well (its second case, like the dropouts of callbacks longer than a
  frame in `ImplementsDelayLine`, does not occur in this run and is only proved): one that comes up short has found less than `FrameSize - 1`
  samples, so what it adds leaves less than a frame and the callback.
* `ImplementsDelayLine`: the engine as a whole, for callbacks of any length; each
  dropout adds to the backlog, so there are finitely many of them.
* `TripsOnlyWhenSlow`, `PassthroughExact`: the fallback needs consecutive slow
  frames and lasts exactly its cooldown, also across mode switches.
* `ReconnectBound`: a ring on offer is found after at most
  `StaleThreshold + 2`, `SlowRetry + 1` or `FastRetry + 1` callbacks, whichever is
  most: 52 with the code's constants, half a second with 512 frames. TLC
  refutes a bound lower by one.
* `OnlySilentIsDropped`: the driver gives up a ring only after a whole threshold
  of tests without a beat, across reconnections and reused memory, and the ring on
  offer for no other reason: whenever it looks, that ring is active.
* `HeartbeatHonest`: the heartbeat is the number of accepted writes, less the one
  whose beat is still to come or was cut off by a crash. A producer that keeps
  calling `write()` on a full ring does not look alive, and no accepted write goes
  without its beat. The header's comment says "on every write"; a call that drops
  its chunk does not beat, and the stale detection relies on that.
* `StartsFromNothing`: no start meets the ring of an earlier one. This is what
  saves the application from the hazard that `ShmLinkTwice` shows; it rests on the
  toggle, which stops even when nothing is running.
* `EndToEndDelay`: what waits in engine and ring together is less than two frames
  of the engine (a frame and a buffer, if the microphone's is longer than a
  frame), one buffer of the microphone and two of the client, with jitter, and
  what the microphone's clock has gained on the driver's. With clocks that keep
  pace a larger ring does not add delay, since the driver flushes when it
  connects. With clocks that drift it does: the ring takes what one clock gains
  until it is full, so its capacity is what bounds the delay of a long recording.
  This is what is left of the comment that a large buffer "only adds unnecessary
  delay" (`noise_bridge.cpp:188-190`): the flush answers for the stale audio, the
  small ring for the drift.
* `KeepsLiveProducer`: the stale count is a sound sign of death as long as its
  callbacks last longer than a buffer of the microphone (`NotTooShort`) and the
  ring has room for a write and a read (`RoomForBoth`), both with the drift to
  spare. `PipelineStale` shows that
  the first condition is needed with the code's constants.
* `GapsRunOut`: with buffers that suit each other, nothing but the driver's clock
  takes away from the ring's backlog while a client records, and an underrun, which
  needs a small backlog, adds a request to it. So the underruns of a recording are
  few for a bounded drift, and `MicrophoneHeard` is its consequence once callbacks
  keep coming. It presupposes `RoomForBoth`; what happens without is
  `AudioKeepsFlowing`.
* `MicrophoneHeard`: an underrun leaves more in the ring for the next callback, a
  dropout of the engine more in the line, so both come to an end.
* `AudioKeepsFlowing`: when the ring is so small that neither a write nor a read
  fits, both sides refuse; what resolves it is the stale count, since a dropped
  write does not beat. Without it (the mutant `QuietIgnored`) the audio stops for
  ever.
* `NoChangeMissed`, `DevicesSettle`: the list is right in the end although it is
  read in the middle of changes, because no step leaves a wrong list with no
  refresh to come.
* `CaptureFollowsSelection`: between handlers the two managers agree on the
  selected microphone, and whatever failed or changed before, a unit whose device
  was not refused captures it or nothing. A unit whose device was refused may
  capture another microphone than the one shown; it does so until the next stop.
* `AttachesEventually` says that a ring that stays on offer is attached infinitely
  often, not that the driver never leaves it: a producer that is silent for the
  stale count is dropped and found again. `ReconnectBound` names one bound for each
  kind of wait; with the thresholds of this run only that of the stale count is
  reached, the others are proved.

### Bounds

* `MCSharedRing`: 4 cells, chunks of 1 and 3 in, 2 and 3 out, the stream stops
  after `MaxPos` = 9 samples. The ring wraps twice, is full and empty, and the
  copies are split at every place. `MaxPos` is the only bound in the guards.
* `MCEngine`: frames of 3, callbacks of 1 to 4, so all residues and the
  boundary case of a frame and one; two slow frames trip, two frames cooldown.
  Nothing else bounds it: the backlog is finite because of the properties.
* `MCEngineReal`: no bound below the code's own constants; one callback length
  at a time, one mode. Used for the two counterexamples; that what `MCEngine`
  checks for frames of 3 holds for 480, and `ImplementsDelayLine` for callbacks
  of any length, is proved.
* `MCShmLink`: two segments, with freed ones reused: when one is opened the name
  leads nowhere, so only the driver can hold another (three where the
  application may still hold one, in `ShmLinkTwice`). Thresholds of 1, 2
  and 3 instead of 5, 47 and 50; the bound for all others, the case in which a retry
  interval is the longest wait included, is proved.
* `MCPipeline`: frames of 3, a ring of 15, a stale count of 6, a jitter of one, a
  drift of one (`MaxDrift`), to and fro without end; microphone buffers below and above a frame; a client's buffer that is too
  short for the longer one, one that suits both, and one that leaves no room
  for a write and a read together. `MaxDrift` is the only bound in the guards; the
  theorems hold for every value of it. Two clients are in the counterexample only.
* `MCPipelineReal`: the code's 480, 4800 and 50, all lengths in units of 32 frames.
* `MCAppControl`: two microphones, the fewest with a choice of fallback; two
  waiting refreshes are told apart (`MaxQueued`), as a third would read the same.
* Deadlock is checked everywhere but in `EngineRace`, where a crash ends the
  behaviour.

### Fairness

`Engine`'s `FairSpec` is weak fairness of `Process`: the audio device keeps
calling back, and each call returns (its loop has a decreasing measure). No
fairness is put on the control calls, and the liveness properties speak of
behaviours in which the user leaves them alone. `ShmLink`'s `FairSpec` is weak
fairness of `Callback`: while IO runs, the host keeps calling the driver.
Nothing is assumed of the application, of its failures or of starting IO. The
driver's own system calls may fail (`MapFails`); `AttachesEventually` speaks of
behaviours in which they do so only finitely often, and the reconnect bound
counts from the last such failure. `Pipeline`'s `FairSpec` is weak
fairness of `Audio`: time goes on and the callbacks that are due come. Neither
clock stands still while the other runs, as none gains more than `MaxDrift`, and
none has to gain anything. Which of
them comes first is not fixed, and none can be late for ever, because time does
not pass one that is due. Nothing is assumed of the user.

`AppControl`'s `FairSpec`: the main thread goes on with the handler it is in
(weak fairness) and comes to a waiting refresh even if the user keeps it busy
(strong fairness, as its queue is served in order); the listener queue runs;
callbacks return. Nothing is assumed of the user or the devices.

## 4. Findings

1. `EngineLatency`: two frames of prefill alone cost 18.7 ms at 128-sample
   callbacks; `README.md:9` and `tasks/todo.md:183` give 7 to 16 ms for the whole.
2. `EngineReserve`: at 1024 frames per callback `output_buffer_` outgrows its
   reserve on the audio thread, which `engine.cpp:179` means to avoid.
3. `EngineRace`: `set_mode()` is called on the main thread and is not kept apart
   from the callback: stale audio stays, and an erase can go out of range.
4. `ShmLinkTwice`: replacing a live or failed object in `noise_shm_create()`
   unlinks the new name. The application itself always destroys first; the
   interface does not say that it has to.
5. `AppFeedback`: without a microphone the capture falls back to the default
   input even if that is NoiseAI's own, and stays with it when a microphone
   comes: a selection of nil is never left without the user.
6. `PipelineStale`: `kStaleThreshold` counts the driver's callbacks and is meant as
   half a second; with short client buffers and a long microphone buffer a live
   producer that is on time is dropped between two of its buffers, with audio still
   in the ring.
7. `PipelineTwoClients`: the handler ignores which client reads, so two
   applications that record at once take each other's audio and underrun for ever.

Seen while reading, without a run: the comment in `noise_engine_start()`
(`noise_bridge.cpp:42`) says that it does not initialise again, and it does;
`start()` in `AudioManager.swift` overwrites the error that `setupAudioUnit()`
reports and ignores the engine's result; `setupAudioUnit()` goes on with a unit
whose device could not be set, and captures another microphone than the one shown;
`DeviceManager` lists the devices before
it listens for changes, and misses one in between; the localhost TCP control
channel of the README does not exist.

## 5. What is proved

All theorems hold for every value of the constants that meets the modules'
named assumptions (`RingAssumption`: a positive capacity, positive chunk sizes;
`AppAssumption`: the virtual microphone and "no device" are not microphones;
`EngineAssumption`: a positive frame size, callbacks, trigger count;
`LinkAssumption`: a positive stale count, retries, and markers that are not
segments; `PipelineAssumption`: positive lengths and threshold).

* `SharedRingProofs`. `Occupancy`, `UnreadIntact` and `ReadsInOrder` are not
  inductive: a writer in the middle of its copy is safe only because the room
  it found is still free. `CallsKeepTheirRoom` says so for each call under way,
  and `Inv` adds it to the others. `RingInvariant` proves `Inv` with one lemma
  per action that disturbs it; the arithmetic they rest on is `CellsDiffer`:
  positions less than a capacity apart have different cells. `NoDataRace` is a
  consequence. `RingTypes`, `RingKeepsUnread`, `RingReadsInOrder`,
  `RingBeatsHonestly`, `RingKeepsRoom` and `RingNoDataRace` state the parts one by
  one. `RingIsFresh` and `RingReadsForward` are action properties from
  the same invariant. `RingImplementsFifo` maps each step to a step of the queue
  or a stutter, with lemmas on stretches of consecutive positions
  (`StretchConcat`, `StretchSplit`).
* `DelayLineProofs`. `LineHeld` is proved of the contract: a line only grows
  while it fills or when a call finds less than `FrameSize - 1` samples, so it
  holds less than two frames, or than a frame and the longest call.
* `EngineProofs`. `EngineBuffers` proves types, `BuffersSound` and `Cushion`; the
  last is the inductive fact behind `EngineNoDropout`, and behind
  `EngineCushionKept`: between the call that starts output and the next mode
  switch, stop or restart, what is held back does not change. `EngineControl` proves
  `DenoiserReady`, `AttenuationApplied` and `DfStartsFresh`. `OverloadCounts` (the
  count of slow frames is no more than came in a row; cooldown left and frames
  bypassed add up to the cooldown) is the invariant behind `EngineTripsWhenSlow`
  and `EngineFallbackIsExact`. `EngineImplementsDelayLine` maps every step to a
  step of the line or a stutter. It needs the buffers' invariant: between calls
  less than a frame waits for the denoiser, so a call that cannot be answered
  found less than `FrameSize - 1` samples held back. `EngineLatency` follows from
  the refinement and `LineHeld`, for callbacks longer than a frame too; nothing
  about the engine's buffers enters again. Together with `WholeFrames` (while the
  line fills, the output buffer holds whole frames and none of them has been read)
  `EngineBuffersBounded` bounds both buffers, inside a call too, by four frames
  and twice the longest callback. `EngineReserve` shows that the four frames of
  the reserve are not enough by themselves.
* `EngineRaceProofs`. `ExclusionSuffices` is about the steps of `EngineRace` in
  which neither call begins before the other has returned: then no sample of the
  previous denoiser is left and no erase is out of range, for every frame size.
  So the order of the statements in `set_mode()` is right, and the missing
  exclusion alone explains the counterexample of `EngineRace`.
* `ShmLinkProofs`. `LinkInvariant`: which segments each side may hold at each of
  its steps, `HeadersComplete` (what is offered has its header, whatever is
  under construction has the fields that are not still to be stored) and
  `CountersSound` (no stale count and no countdown in the wrong state of the
  connection; the count never runs ahead of the silence) and `ActiveOnOffer` (a
  ring on offer has `active` set, although an older object's destructor may still be
  at work). `AudioHasCapacity` and `OnlySilentIsDropped` follow for every behaviour.
  For an application that
  destroys before it creates (`Recreate = FALSE`, as the code's only caller does)
  `NameLeads` (the name leads to the producer's object, made or in the making)
  gives `OfferedIsNamed`, and `WaitSound`, which bounds the callbacks waited at
  each state of the driver by what its counters have still to go, gives
  `ReconnectBound` for all values of the three thresholds.
* `PipelineProofs`. The backlog of the ring against the two clocks,
  `fill - capture_due + due[c]`, is left alone by time that passes for both, by a
  write and by a read; a dropped write lowers it, an underrun finds less than a
  request, and a frame that one clock gains changes it by one. `BacklogBound`
  bounds it up to `ahead`, `LineBound` the engine, and `EndToEndDelay` is their
  sum. The same measure gives `PipelineGapsRunOut`. `BeatsInTime` measures the
  callbacks without a beat in frames: with the time still to go they fit between
  two buffers of the microphone and what the driver's clock has gained (`behind`),
  so the count does not reach the threshold; it is inductive only with
  `BacklogBound`, which says that the write that is to beat has room. All of it
  holds for every `MaxDrift`. That the engine is a delay line, as this module takes
  for granted, is `EngineImplementsDelayLine`.
* `AppControlProofs`. What the callback uses is safe because of where the handler
  is: `ResourcesByPlace` says what exists at each place of `stop()` and `start()`,
  `RequestsByPlace` ties it to the toggle (only a handler that the toggle wants
  may start, and only one that restarts or was asked to stop may tear down),
  `SelectionByPlace` says that the device of the handler under way is the selected
  one, `CaptureByPlace` that with a selection no other microphone is captured
  while the handler is neither tearing down nor setting up, unless the unit's
  device was refused, and `NoticesByPlace`
  that a list about to be published is right or has a notice waiting behind it.
  Together with the types they are inductive (`AppInvariant`). `AppNoChangeMissed`
  is an action property from the same invariant: a list that was read before a
  change is published after it, and then `NoticesByPlace` says that the list will
  be read again.

Only model-checked are the five liveness properties, since liveness under fairness
is out of the prover's reach: `OverloadEnds`, `AttachesEventually`,
`DevicesSettle`, `MicrophoneHeard` and `AudioKeepsFlowing`. Of four of them the
safety half is proved: `PassthroughExact` (a fallback has so many frames),
`ReconnectBound` (the callbacks until the ring is found), `NoChangeMissed` and
`GapsRunOut`; what is left to TLC is that the steps they count are taken. The
counterexamples are TLC's as well. Nothing is assumed in a proof beyond the named
assumptions.

## 6. Plan

1. Done: the ring, the engine, the link, and their proofs.
2. Done: `AppControl` and its proofs. Left of it: a device that returns under
   another identifier and a capture that dies with its device.
3. Done: `Pipeline` with `DelayLine` as the contract between it and the engine,
   `PipelineProofs`, and the contract's own theorem.
4. Done: the safety half of four liveness properties, the delay for callbacks of
   every length, and what exclusion would give `set_mode()`.
5. Left to prove: that every create of `AppControl` follows a destroy, as a
   contract on the calls of the bridge that `ShmLink` with `Recreate = FALSE` takes
   for granted.
6. Left to model: `ShmLink` with a second application instance; the end of
   `set_mode()` against an inference under way.

## 7. What is not modelled, and why

* The inference, RNNoise, the dry mix and the sample values: data that no
  control depends on, in external libraries.
* Tensors, names and shapes of the ONNX session: passed on to the library.
* `RingBuffer` (`ring_buffer.cpp`): used by its unit test only; the same
  algorithm as the shared ring.
* `engineStatus`, the status icon and the start of the saved mode: shown or set,
  never tested. Quitting the application is `AppEnds` of `ShmLink`.
* The plug-in's registration beyond the one handler it makes, the stub sources
  (`inference.cpp`, `resampler.cpp`, `stft.cpp`, `post_process.cpp`), views,
  packaging: no state that changes while the program runs.
* 64-bit wrap-around of positions: at 96 000 samples a second it takes
  millions of years.
