----------------------------- MODULE AppControl -----------------------------
(***************************************************************************)
(* The application around the engine: AudioManager (start, stop, switch    *)
(* device), DeviceManager (the list of microphones and the selection) and  *)
(* the toggle and picker of the menu bar.                                  *)
(*                                                                         *)
(* The main thread runs one handler at a time, but each handler is cut     *)
(* where another actor can see the difference: the audio thread, whose     *)
(* callback uses the capture context, the engine and the ring, and the     *)
(* audio system, whose devices come and go while they are being listed.    *)
(* engineStatus is left out: it is written and never read.  A microphone   *)
(* keeps its object identifier, so the two stand for each other.           *)
(***************************************************************************)
EXTENDS Naturals

CONSTANTS
    Mics,       \* physical input devices
    Virtual,    \* the application's own "NoiseAI Microphone"
    NoDevice,
    MaxQueued   \* refreshes waiting on the main queue that are told apart

ASSUME AppAssumption ==
    /\ Virtual \notin Mics /\ NoDevice \notin Mics /\ Virtual # NoDevice
    /\ MaxQueued \in Nat \ {0}

VARIABLES
    plugged, defaultInput, noticed,           \* the audio system
    inputDevices, selected, refreshes,        \* DeviceManager
    defaultSeen, listSeen,                    \* locals of refreshDevices()
    listening,                                \* installListeners() was called
    launched, wantsProcessing,                \* AppDelegate, MenuBarView
    isProcessing, currentDevice,              \* AudioManager
    pc, target, restart,                      \* its handler under way
    ring, engine, context, unit, captured,    \* what it sets up
    refused,                                  \* history: the unit's device
                                              \* could not be set
    callback                                  \* the audio thread

system   == <<plugged, defaultInput, noticed>>
devices  == <<inputDevices, selected, defaultSeen, listSeen>>
ui       == <<listening, launched, wantsProcessing>>
manager  == <<isProcessing, currentDevice>>
handler  == <<pc, target, restart>>
resources == <<ring, engine, context, unit, captured, refused>>
vars == <<system, devices, refreshes, ui, manager, handler, resources,
          callback>>

MaybeMic == Mics \union {NoDevice}
Device   == MaybeMic \union {Virtual}

DeviceTypes ==
    /\ plugged \subseteq Mics /\ inputDevices \subseteq Mics /\ listSeen \subseteq Mics
    /\ defaultInput \in Device /\ defaultSeen \in Device /\ captured \in Device
    /\ selected \in MaybeMic /\ currentDevice \in MaybeMic
    /\ target \in MaybeMic

FlagTypes ==
    /\ noticed \in BOOLEAN /\ listening \in BOOLEAN /\ launched \in BOOLEAN
    /\ wantsProcessing \in BOOLEAN /\ isProcessing \in BOOLEAN
    /\ restart \in BOOLEAN /\ context \in BOOLEAN /\ refused \in BOOLEAN

PlaceTypes ==
    /\ refreshes \in 0..MaxQueued
    /\ pc \in {"idle", "list", "filter", "stop", "dispose", "release",
               "shutdown", "destroy", "create", "start", "setup"}
    /\ ring \in {"none", "valid", "failed"}
    /\ engine \in {"stopped", "running", "error"}
    /\ unit \in {"none", "created", "started", "stopping"}
    /\ callback \in {"out", "entered", "processing"}

(* Every variable keeps its type; in particular the own virtual microphone  *)
(* is never the selected device.                                            *)
TypeOK == DeviceTypes /\ FlagTypes /\ PlaceTypes

-----------------------------------------------------------------------------
(* Mutant of Fallbacks: the default device need not be in the list.         *)
FallbacksUnlisted(list, default) ==
    IF list = {} THEN {NoDevice} ELSE {default}

(* devices.first(where: { $0.isDefault }) ?? devices.first, in whatever     *)
(* order the system lists them.                                             *)
Fallbacks(list, default) ==
    IF list = {} THEN {NoDevice}
    ELSE IF default \in list THEN {default} ELSE list

(* restoreSelectedDevice(): saved is the preference of an earlier session.  *)
Restored(saved, list, default) ==
    IF saved \in list THEN {saved} ELSE Fallbacks(list, default)

Init ==
    /\ plugged \in SUBSET Mics
    /\ defaultInput \in plugged \union {Virtual}
    /\ noticed = FALSE
    /\ inputDevices = plugged
    /\ \E saved \in MaybeMic : selected \in Restored(saved, plugged, defaultInput)
    /\ refreshes = 0
    /\ defaultSeen = NoDevice /\ listSeen = {}
    /\ listening = FALSE /\ launched = FALSE /\ wantsProcessing = FALSE
    /\ isProcessing = FALSE /\ currentDevice = NoDevice
    /\ pc = "idle" /\ target = NoDevice /\ restart = FALSE
    /\ ring = "none" /\ engine \in {"running", "error"}
    /\ context = FALSE /\ unit = "none" /\ captured = NoDevice /\ refused = FALSE
    /\ callback = "out"

-----------------------------------------------------------------------------
(* The audio system.                                                        *)
Plug(m) ==
    /\ m \notin plugged
    /\ plugged' = plugged \union {m}
    /\ noticed' = listening
    /\ UNCHANGED <<defaultInput, devices, refreshes, ui, manager, handler,
                   resources, callback>>

Unplug(m) ==
    /\ m \in plugged
    /\ plugged' = plugged \ {m}
    /\ captured' = IF captured = m THEN NoDevice ELSE captured
    /\ noticed' = listening
    /\ UNCHANGED <<defaultInput, devices, refreshes, ui, manager, handler,
                   ring, engine, context, unit, refused, callback>>

DefaultMoves ==
    /\ defaultInput' \in (plugged \union {Virtual}) \ {defaultInput}
    /\ noticed' = listening
    /\ UNCHANGED <<plugged, devices, refreshes, ui, manager, handler,
                   resources, callback>>

(* The end of DeviceManager.init(), some time after its first list.         *)
InstallListeners ==
    /\ ~listening
    /\ listening' = TRUE
    /\ UNCHANGED <<system, devices, refreshes, launched, wantsProcessing,
                   manager, handler, resources, callback>>

(* A listener block on its own queue sends refreshDevices() to the main     *)
(* queue.  Notices that come close together may share one call.             *)
ListenerRuns ==
    /\ noticed
    /\ noticed' = FALSE
    /\ refreshes' = IF refreshes < MaxQueued THEN refreshes + 1 ELSE refreshes
    /\ UNCHANGED <<plugged, defaultInput, devices, ui, manager, handler,
                   resources, callback>>

-----------------------------------------------------------------------------
(* Mutant of SwitchDevice: starts on the new device over the old one.       *)
SwitchDeviceWithoutStop(d) ==
    /\ currentDevice' = d
    /\ restart' = FALSE
    /\ IF isProcessing
         THEN pc' = "create" /\ target' = d
         ELSE pc' = "idle" /\ UNCHANGED target

(* Mutant of SwitchDevice: the next start is the first to use the device.   *)
SwitchDeviceLater(d) ==
    currentDevice' = d /\ pc' = "idle" /\ UNCHANGED <<restart, target>>

(* switchDevice(to:) up to where it returns or enters stop().               *)
SwitchDevice(d) ==
    /\ currentDevice' = d
    /\ IF isProcessing
         THEN pc' = "stop" /\ restart' = TRUE /\ target' = d
         ELSE pc' = "idle" /\ UNCHANGED <<restart, target>>

(* refreshDevices() asks for the default device, then for the list, then    *)
(* for the streams and name of each device, which one that has gone in the  *)
(* meantime does not answer.                                                *)
RefreshBegin ==
    /\ pc = "idle" /\ refreshes > 0
    /\ refreshes' = refreshes - 1
    /\ defaultSeen' = defaultInput
    /\ pc' = "list"
    /\ UNCHANGED <<system, inputDevices, selected, listSeen, ui, manager, target,
                   restart, resources, callback>>

RefreshRead ==
    /\ pc = "list"
    /\ listSeen' = plugged
    /\ pc' = "filter"
    /\ UNCHANGED <<system, inputDevices, selected, defaultSeen, refreshes, ui,
                   manager, target, restart, resources, callback>>

(* The rest of refreshDevices(), which falls back when the selected         *)
(* microphone is no longer in the list.                                     *)
Publish(found) ==
    /\ inputDevices' = found
    /\ defaultSeen' = NoDevice /\ listSeen' = {}
    /\ IF selected \in found \union {NoDevice}
         THEN pc' = "idle" /\ UNCHANGED <<selected, currentDevice, target, restart>>
         ELSE \E d \in Fallbacks(found, defaultSeen) :
                /\ selected' = d
                /\ IF launched THEN SwitchDevice(d)
                   ELSE pc' = "idle" /\ UNCHANGED <<currentDevice, target, restart>>

(* Mutant of RefreshPublish: done, so nothing is left to refresh.           *)
RefreshPublishForAll ==
    /\ pc = "filter"
    /\ Publish(listSeen \intersect plugged)
    /\ refreshes' = 0
    /\ UNCHANGED <<system, ui, isProcessing, resources, callback>>

RefreshPublish ==
    /\ pc = "filter"
    /\ Publish(listSeen \intersect plugged)
    /\ UNCHANGED <<system, refreshes, ui, isProcessing, resources, callback>>

(* applicationDidFinishLaunching(): connects the two managers.              *)
Launch ==
    /\ listening /\ ~launched /\ pc = "idle"
    /\ launched' = TRUE
    /\ IF selected \in inputDevices
         THEN SwitchDevice(selected)
         ELSE UNCHANGED <<currentDevice, handler>>
    /\ UNCHANGED <<system, devices, refreshes, listening, wantsProcessing,
                   isProcessing, resources, callback>>

(* The microphone picker: selectDevice(uid:).                               *)
SelectDevice(m) ==
    /\ launched /\ pc = "idle"
    /\ m \in inputDevices
    /\ selected' = m
    /\ SwitchDevice(m)
    /\ UNCHANGED <<system, inputDevices, defaultSeen, listSeen, refreshes, ui,
                   isProcessing, resources, callback>>

(* The noise cancellation toggle.                                           *)
ToggleOn ==
    /\ launched /\ pc = "idle" /\ ~wantsProcessing
    /\ wantsProcessing' = TRUE
    /\ pc' = "create"
    /\ target' = IF selected \in inputDevices THEN selected ELSE NoDevice
    /\ UNCHANGED <<system, devices, refreshes, listening, launched, manager,
                   restart, resources, callback>>

(* Mutant of ToggleOff: skips stop() when nothing seems to run.             *)
ToggleOffIfProcessing ==
    /\ pc = "idle" /\ wantsProcessing
    /\ wantsProcessing' = FALSE
    /\ pc' = IF isProcessing THEN "stop" ELSE "idle"
    /\ UNCHANGED <<system, devices, refreshes, listening, launched, manager,
                   target, restart, resources, callback>>

ToggleOff ==
    /\ pc = "idle" /\ wantsProcessing
    /\ wantsProcessing' = FALSE
    /\ pc' = "stop"
    /\ UNCHANGED <<system, devices, refreshes, listening, launched, manager,
                   target, restart, resources, callback>>

-----------------------------------------------------------------------------
(* stop(), call by call.  AudioOutputUnitStop lets no new callback begin;   *)
(* the unit is disposed of when the last one has returned.                  *)
(* Mutant of StopUnit: the context is let go before the unit is stopped.    *)
StopUnitReleasesFirst ==
    /\ pc = "stop"
    /\ context' = FALSE
    /\ IF context
         THEN pc' = "dispose" /\ unit' = "stopping"
         ELSE pc' = "release" /\ UNCHANGED unit
    /\ UNCHANGED <<system, devices, refreshes, ui, manager, target, restart,
                   ring, engine, captured, refused, callback>>

StopUnit ==
    /\ pc = "stop"
    /\ IF context
         THEN pc' = "dispose" /\ unit' = "stopping"
         ELSE pc' = "release" /\ UNCHANGED unit
    /\ UNCHANGED <<system, devices, refreshes, ui, manager, target, restart,
                   ring, engine, context, captured, refused, callback>>

DisposeUnit ==
    /\ pc = "dispose" /\ callback = "out"
    /\ pc' = "release"
    /\ unit' = "none" /\ captured' = NoDevice /\ refused' = FALSE
    /\ UNCHANGED <<system, devices, refreshes, ui, manager, target, restart,
                   ring, engine, context, callback>>

ReleaseContext ==
    /\ pc = "release"
    /\ pc' = "shutdown"
    /\ context' = FALSE
    /\ UNCHANGED <<system, devices, refreshes, ui, manager, target, restart,
                   ring, engine, unit, captured, refused, callback>>

StopEngine ==
    /\ pc = "shutdown"
    /\ pc' = "destroy"
    /\ engine' = "stopped"
    /\ UNCHANGED <<system, devices, refreshes, ui, manager, target, restart,
                   ring, context, unit, captured, refused, callback>>

DestroyRing ==
    /\ pc = "destroy"
    /\ ring' = "none"
    /\ isProcessing' = FALSE
    /\ restart' = FALSE
    /\ pc' = IF restart THEN "create" ELSE "idle"
    /\ UNCHANGED <<system, devices, refreshes, ui, currentDevice, target,
                   engine, context, unit, captured, refused, callback>>

-----------------------------------------------------------------------------
(* start(withDeviceID:), call by call.  A failed constructor leaves an      *)
(* object behind that is not valid.                                         *)
CreateRing ==
    /\ pc = "create"
    /\ \/ ring' = "valid" /\ pc' = "start" /\ UNCHANGED <<isProcessing, target>>
       \/ /\ ring' = "failed" /\ pc' = "idle"
          /\ isProcessing' = FALSE /\ target' = NoDevice
    /\ UNCHANGED <<system, devices, refreshes, ui, currentDevice, restart,
                   engine, context, unit, captured, refused, callback>>

(* Its result is not looked at.                                             *)
StartEngine ==
    /\ pc = "start"
    /\ pc' = "setup"
    /\ engine' \in {"running", "error"}
    /\ UNCHANGED <<system, devices, refreshes, ui, manager, target, restart,
                   ring, context, unit, captured, refused, callback>>

(* findPhysicalInputDevice()                                                *)
PhysicalInputs ==
    IF defaultInput # Virtual THEN {defaultInput}
    ELSE IF plugged # {} THEN plugged ELSE {defaultInput}

(* What a unit that starts captures.  Its device may be refused, one that   *)
(* has gone always is, which is only logged: the unit then starts on the    *)
(* device it was made with, the default output, which may have a            *)
(* microphone, but is not the virtual one (that has no output).  That its   *)
(* input could not be enabled is only logged as well, and then there is     *)
(* nothing to capture.                                                      *)
Capture ==
    \/ /\ refused' = FALSE
       /\ \E d \in IF target # NoDevice THEN {target} ELSE PhysicalInputs :
            d \in plugged \union {Virtual} /\ captured' \in {d, NoDevice}
    \/ refused' = TRUE /\ captured' \in plugged \union {NoDevice}

(* setupAudioUnit(): there is no unit to be had, or it does not initialise  *)
(* or start, or it runs.  start() reports success in every case.            *)
SetupUnit ==
    /\ pc = "setup"
    /\ pc' = "idle" /\ target' = NoDevice
    /\ currentDevice' = target
    /\ isProcessing' = TRUE
    /\ \/ UNCHANGED <<context, unit, captured, refused>>
       \/ context' = TRUE /\ unit' = "created" /\ UNCHANGED <<captured, refused>>
       \/ context' = TRUE /\ unit' = "started" /\ Capture
    /\ UNCHANGED <<system, devices, refreshes, ui, restart, ring, engine, callback>>

-----------------------------------------------------------------------------
(* The audio thread: auhalInputCallback(), which renders and then calls     *)
(* process_and_write().                                                     *)
CallbackBegins ==
    /\ unit = "started" /\ callback = "out"
    /\ callback' = "entered"
    /\ UNCHANGED <<system, devices, refreshes, ui, manager, handler, resources>>

CallbackProcesses ==
    /\ callback = "entered" /\ ring = "valid"
    /\ callback' = "processing"
    /\ UNCHANGED <<system, devices, refreshes, ui, manager, handler, resources>>

(* At the end, or because rendering failed or there is no ring.             *)
CallbackReturns ==
    /\ callback # "out"
    /\ callback' = "out"
    /\ UNCHANGED <<system, devices, refreshes, ui, manager, handler, resources>>

System ==
    \/ \E m \in Mics : Plug(m) \/ Unplug(m)
    \/ DefaultMoves

User ==
    \/ Launch \/ ToggleOn \/ ToggleOff
    \/ \E m \in Mics : SelectDevice(m)

Handler ==
    \/ RefreshRead \/ RefreshPublish
    \/ StopUnit \/ DisposeUnit \/ ReleaseContext \/ StopEngine \/ DestroyRing
    \/ CreateRing \/ StartEngine \/ SetupUnit

Callback == CallbackBegins \/ CallbackProcesses \/ CallbackReturns

Next ==
    \/ System \/ InstallListeners \/ ListenerRuns
    \/ RefreshBegin \/ User \/ Handler \/ Callback

Spec == Init /\ [][Next]_vars

(* The main thread goes on with its handler and serves its queue, the       *)
(* listener queue runs, and a callback returns.  Nobody has to press        *)
(* anything, and no device has to come or go.                               *)
FairSpec ==
    /\ Spec
    /\ WF_vars(InstallListeners) /\ WF_vars(ListenerRuns)
    /\ WF_vars(Handler) /\ SF_vars(RefreshBegin)
    /\ WF_vars(CallbackReturns)

-----------------------------------------------------------------------------
(* What the audio thread uses stays while it uses it: the context from      *)
(* entry to return, the ring and the engine while it processes (stop()      *)
(* frees all three, AudioManager.swift:198).                                *)
CallbackSafe ==
    /\ callback # "out" => context /\ unit \in {"started", "stopping"}
    /\ callback = "processing" => ring = "valid" /\ engine # "stopped"

(* start() never finds anything of an earlier start: a ring would take the  *)
(* new one's name with it, a unit would run on unseen.  noise_shm_create()  *)
(* relies on it (see ShmLink), and the handler that starts does not check.  *)
StartsFromNothing ==
    pc = "create" => ring = "none" /\ unit = "none" /\ ~context

(* With the toggle off, nothing captures and nothing is offered, whatever   *)
(* failed before; and what is shown as active has a ring.                   *)
OffMeansOff ==
    pc = "idle" =>
      /\ ~wantsProcessing => ring = "none" /\ unit = "none" /\ ~isProcessing
      /\ isProcessing <=> ring = "valid"

(* The two managers agree on the microphone between handlers, whichever of  *)
(* them changed it last, before, during and after a capture; and when one   *)
(* is selected, a capture goes on with no other, unless the audio system    *)
(* refused it: then the unit runs on a device of its own.                   *)
CaptureFollowsSelection ==
    launched /\ pc = "idle" =>
      /\ currentDevice = selected
      /\ selected # NoDevice /\ ~refused => captured \in {selected, NoDevice}

RefreshPending == noticed \/ refreshes > 0 \/ pc \in {"list", "filter"}
ListRight == inputDevices = plugged /\ selected \in plugged \union {NoDevice}

(* No change is lost: a list that was right, or about to be read again,     *)
(* stays so, with the listeners installed.  One refresh may serve several   *)
(* notices, and a list read before a change is published after it.          *)
NoChangeMissed ==
    [][RefreshPending \/ (listening /\ ListRight) => (RefreshPending \/ ListRight)']_vars

(* When microphones stop coming and going, the list is right in the end,    *)
(* and the selection is in it, although lists are read in the middle of     *)
(* changes.  A change before the listeners are installed is seen with the   *)
(* next one only, hence the notice.                                         *)
DevicesSettle ==
    <>[][plugged' = plugged]_vars /\ <>noticed => <>[]ListRight

(* AudioManager.swift:380: the microphone is found "avoiding our own        *)
(* NoiseAI virtual mic".  When the application has come to rest and knows   *)
(* of a microphone, it does not capture its own output.                     *)
NeverHearsItself ==
    pc = "idle" /\ refreshes = 0 /\ ~noticed /\ inputDevices # {} =>
      captured # Virtual
=============================================================================
