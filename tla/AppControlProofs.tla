-------------------------- MODULE AppControlProofs --------------------------
(* Theorems about AppControl, for every set of microphones: what the audio  *)
(* thread uses is there, every start finds a clean state, off means off,    *)
(* and the two managers agree on the microphone.                            *)
EXTENDS AppControl, TLAPS

\* The handlers that list devices leave the capture as it is.
AtRest == pc \in {"idle", "list", "filter"}
Starting == pc \in {"create", "start", "setup"}
Capturing == AtRest \/ pc \in {"stop", "dispose", "release"}

\* What is there at each place of stop() and start().
ResourcesByPlace ==
    /\ unit # "none" => context
    /\ context => Capturing /\ ring = "valid"
    /\ ring = "valid" /\ Capturing => engine # "stopped"
    /\ pc = "dispose" <=> unit = "stopping"
    /\ pc = "release" => unit = "none"
    /\ pc = "create" => ring = "none"
    /\ pc \in {"start", "setup"} => ring = "valid"
    /\ pc = "setup" => engine # "stopped"

\* What the user asked for, and how far the handler is with it.
RequestsByPlace ==
    /\ AtRest => (isProcessing <=> ring = "valid") /\ ~restart
    /\ AtRest /\ ~wantsProcessing => ring = "none"
    /\ Starting \/ restart => wantsProcessing
    /\ Starting => ~restart
    /\ ~launched => AtRest /\ ~wantsProcessing

\* The device of the handler under way is the selected one.
SelectionByPlace ==
    /\ selected \in inputDevices \union {NoDevice}
    /\ currentDevice = IF launched THEN selected ELSE NoDevice
    /\ Starting \/ restart => target = selected

\* Only listeners cause refreshes, and a list about to be published is right
\* or will be read again.
NoticesByPlace ==
    /\ RefreshPending => listening
    /\ pc = "filter" => noticed \/ refreshes > 0 \/ listSeen = plugged

\* What the unit captures: the selected microphone or nothing; with none
\* selected, or the selected one refused, whatever it is given.
CaptureByPlace ==
    /\ unit = "none" => captured = NoDevice /\ ~refused
    /\ AtRest /\ selected # NoDevice /\ ~refused => captured \in {selected, NoDevice}

Inv == /\ TypeOK /\ CallbackSafe
       /\ ResourcesByPlace /\ RequestsByPlace /\ SelectionByPlace
       /\ NoticesByPlace /\ CaptureByPlace

\* The application just started satisfies the invariant.
LEMMA InitState ==
    ASSUME AppAssumption, Init PROVE Inv
<1> USE DEF AppAssumption, Init
<1>1. selected \in inputDevices \union {NoDevice}
  BY DEF Restored, Fallbacks
<1>2. DeviceTypes
  BY <1>1 DEF DeviceTypes, MaybeMic, Device
<1>3. FlagTypes
  BY DEF FlagTypes
<1>4. PlaceTypes
  BY DEF PlaceTypes
<1>5. CallbackSafe /\ ResourcesByPlace
  BY DEF CallbackSafe, ResourcesByPlace, Capturing, AtRest
<1>6. RequestsByPlace /\ SelectionByPlace /\ NoticesByPlace /\ CaptureByPlace
  BY <1>1 DEF RequestsByPlace, SelectionByPlace, Starting, AtRest, NoticesByPlace,
              CaptureByPlace, RefreshPending
<1>7. QED
  BY <1>2, <1>3, <1>4, <1>5, <1>6 DEF Inv, TypeOK

\* Devices stay devices: what falls back does so to a listed one.
LEMMA DeviceTypesStep ==
    ASSUME AppAssumption, DeviceTypes, SelectionByPlace, [Next]_vars PROVE DeviceTypes'
<1> USE DEF AppAssumption, DeviceTypes, SelectionByPlace, MaybeMic, Device,
            system, devices, ui, manager, handler, resources
<1>1. ASSUME NEW m \in Mics, Plug(m) PROVE DeviceTypes'
  BY <1>1 DEF Plug
<1>2. ASSUME NEW m \in Mics, Unplug(m) PROVE DeviceTypes'
  BY <1>2 DEF Unplug
<1>3. CASE DefaultMoves
  BY <1>3 DEF DefaultMoves
<1>4. CASE InstallListeners
  BY <1>4 DEF InstallListeners
<1>5. CASE ListenerRuns
  BY <1>5 DEF ListenerRuns
<1>6. CASE RefreshBegin
  BY <1>6 DEF RefreshBegin
<1>7. CASE RefreshRead
  BY <1>7 DEF RefreshRead
<1>8. CASE RefreshPublish
  BY <1>8 DEF RefreshPublish, Publish, Fallbacks, SwitchDevice
<1>9. CASE Launch
  BY <1>9 DEF Launch, SwitchDevice
<1>10. CASE ToggleOn
  BY <1>10 DEF ToggleOn
<1>11. CASE ToggleOff
  BY <1>11 DEF ToggleOff
<1>12. ASSUME NEW m \in Mics, SelectDevice(m) PROVE DeviceTypes'
  BY <1>12 DEF SelectDevice, SwitchDevice
<1>13. CASE StopUnit
  BY <1>13 DEF StopUnit
<1>14. CASE DisposeUnit
  BY <1>14 DEF DisposeUnit
<1>15. CASE ReleaseContext
  BY <1>15 DEF ReleaseContext
<1>16. CASE StopEngine
  BY <1>16 DEF StopEngine
<1>17. CASE DestroyRing
  BY <1>17 DEF DestroyRing
<1>18. CASE CreateRing
  BY <1>18 DEF CreateRing
<1>19. CASE StartEngine
  BY <1>19 DEF StartEngine
<1>20. CASE SetupUnit
  BY <1>20 DEF SetupUnit, Capture, PhysicalInputs
<1>21. CASE CallbackBegins
  BY <1>21 DEF CallbackBegins
<1>22. CASE CallbackProcesses
  BY <1>22 DEF CallbackProcesses
<1>23. CASE CallbackReturns
  BY <1>23 DEF CallbackReturns
<1>24. CASE UNCHANGED vars
  BY <1>24 DEF vars
<1>25. QED
  BY <1>1, <1>2, <1>3, <1>4, <1>5, <1>6, <1>7, <1>8, <1>9, <1>10, <1>11,
     <1>12, <1>13, <1>14, <1>15, <1>16, <1>17, <1>18, <1>19, <1>20, <1>21,
     <1>22, <1>23, <1>24
     DEF Next, System, User, Handler, Callback

\* Flags stay flags.
LEMMA FlagTypesStep ==
    ASSUME FlagTypes, [Next]_vars PROVE FlagTypes'
<1> USE DEF FlagTypes,
            system, devices, ui, manager, handler, resources
<1>1. ASSUME NEW m \in Mics, Plug(m) PROVE FlagTypes'
  BY <1>1 DEF Plug
<1>2. ASSUME NEW m \in Mics, Unplug(m) PROVE FlagTypes'
  BY <1>2 DEF Unplug
<1>3. CASE DefaultMoves
  BY <1>3 DEF DefaultMoves
<1>4. CASE InstallListeners
  BY <1>4 DEF InstallListeners
<1>5. CASE ListenerRuns
  BY <1>5 DEF ListenerRuns
<1>6. CASE RefreshBegin
  BY <1>6 DEF RefreshBegin
<1>7. CASE RefreshRead
  BY <1>7 DEF RefreshRead
<1>8. CASE RefreshPublish
  BY <1>8 DEF RefreshPublish, Publish, Fallbacks, SwitchDevice
<1>9. CASE Launch
  BY <1>9 DEF Launch, SwitchDevice
<1>10. CASE ToggleOn
  BY <1>10 DEF ToggleOn
<1>11. CASE ToggleOff
  BY <1>11 DEF ToggleOff
<1>12. ASSUME NEW m \in Mics, SelectDevice(m) PROVE FlagTypes'
  BY <1>12 DEF SelectDevice, SwitchDevice
<1>13. CASE StopUnit
  BY <1>13 DEF StopUnit
<1>14. CASE DisposeUnit
  BY <1>14 DEF DisposeUnit
<1>15. CASE ReleaseContext
  BY <1>15 DEF ReleaseContext
<1>16. CASE StopEngine
  BY <1>16 DEF StopEngine
<1>17. CASE DestroyRing
  BY <1>17 DEF DestroyRing
<1>18. CASE CreateRing
  BY <1>18 DEF CreateRing
<1>19. CASE StartEngine
  BY <1>19 DEF StartEngine
<1>20. CASE SetupUnit
  BY <1>20 DEF SetupUnit, Capture, PhysicalInputs
<1>21. CASE CallbackBegins
  BY <1>21 DEF CallbackBegins
<1>22. CASE CallbackProcesses
  BY <1>22 DEF CallbackProcesses
<1>23. CASE CallbackReturns
  BY <1>23 DEF CallbackReturns
<1>24. CASE UNCHANGED vars
  BY <1>24 DEF vars
<1>25. QED
  BY <1>1, <1>2, <1>3, <1>4, <1>5, <1>6, <1>7, <1>8, <1>9, <1>10, <1>11,
     <1>12, <1>13, <1>14, <1>15, <1>16, <1>17, <1>18, <1>19, <1>20, <1>21,
     <1>22, <1>23, <1>24
     DEF Next, System, User, Handler, Callback

\* Handlers go where there is a next step, and the queue keeps its bound.
LEMMA PlaceTypesStep ==
    ASSUME AppAssumption, PlaceTypes, [Next]_vars PROVE PlaceTypes'
<1> USE DEF AppAssumption, PlaceTypes,
            system, devices, ui, manager, handler, resources
<1>1. ASSUME NEW m \in Mics, Plug(m) PROVE PlaceTypes'
  BY <1>1 DEF Plug
<1>2. ASSUME NEW m \in Mics, Unplug(m) PROVE PlaceTypes'
  BY <1>2 DEF Unplug
<1>3. CASE DefaultMoves
  BY <1>3 DEF DefaultMoves
<1>4. CASE InstallListeners
  BY <1>4 DEF InstallListeners
<1>5. CASE ListenerRuns
  BY <1>5 DEF ListenerRuns
<1>6. CASE RefreshBegin
  BY <1>6 DEF RefreshBegin
<1>7. CASE RefreshRead
  BY <1>7 DEF RefreshRead
<1>8. CASE RefreshPublish
  BY <1>8 DEF RefreshPublish, Publish, Fallbacks, SwitchDevice
<1>9. CASE Launch
  BY <1>9 DEF Launch, SwitchDevice
<1>10. CASE ToggleOn
  BY <1>10 DEF ToggleOn
<1>11. CASE ToggleOff
  BY <1>11 DEF ToggleOff
<1>12. ASSUME NEW m \in Mics, SelectDevice(m) PROVE PlaceTypes'
  BY <1>12 DEF SelectDevice, SwitchDevice
<1>13. CASE StopUnit
  BY <1>13 DEF StopUnit
<1>14. CASE DisposeUnit
  BY <1>14 DEF DisposeUnit
<1>15. CASE ReleaseContext
  BY <1>15 DEF ReleaseContext
<1>16. CASE StopEngine
  BY <1>16 DEF StopEngine
<1>17. CASE DestroyRing
  BY <1>17 DEF DestroyRing
<1>18. CASE CreateRing
  BY <1>18 DEF CreateRing
<1>19. CASE StartEngine
  BY <1>19 DEF StartEngine
<1>20. CASE SetupUnit
  BY <1>20 DEF SetupUnit, Capture, PhysicalInputs
<1>21. CASE CallbackBegins
  BY <1>21 DEF CallbackBegins
<1>22. CASE CallbackProcesses
  BY <1>22 DEF CallbackProcesses
<1>23. CASE CallbackReturns
  BY <1>23 DEF CallbackReturns
<1>24. CASE UNCHANGED vars
  BY <1>24 DEF vars
<1>25. QED
  BY <1>1, <1>2, <1>3, <1>4, <1>5, <1>6, <1>7, <1>8, <1>9, <1>10, <1>11,
     <1>12, <1>13, <1>14, <1>15, <1>16, <1>17, <1>18, <1>19, <1>20, <1>21,
     <1>22, <1>23, <1>24
     DEF Next, System, User, Handler, Callback

\* Nothing is taken from under the callback.
LEMMA CallbackStep ==
    ASSUME CallbackSafe, ResourcesByPlace, [Next]_vars PROVE CallbackSafe'
<1> USE DEF CallbackSafe, ResourcesByPlace, Capturing, AtRest,
            system, devices, ui, manager, handler, resources
<1>1. ASSUME NEW m \in Mics, Plug(m) PROVE CallbackSafe'
  BY <1>1 DEF Plug
<1>2. ASSUME NEW m \in Mics, Unplug(m) PROVE CallbackSafe'
  BY <1>2 DEF Unplug
<1>3. CASE DefaultMoves
  BY <1>3 DEF DefaultMoves
<1>4. CASE InstallListeners
  BY <1>4 DEF InstallListeners
<1>5. CASE ListenerRuns
  BY <1>5 DEF ListenerRuns
<1>6. CASE RefreshBegin
  BY <1>6 DEF RefreshBegin
<1>7. CASE RefreshRead
  BY <1>7 DEF RefreshRead
<1>8. CASE RefreshPublish
  BY <1>8 DEF RefreshPublish, Publish, Fallbacks, SwitchDevice
<1>9. CASE Launch
  BY <1>9 DEF Launch, SwitchDevice
<1>10. CASE ToggleOn
  BY <1>10 DEF ToggleOn
<1>11. CASE ToggleOff
  BY <1>11 DEF ToggleOff
<1>12. ASSUME NEW m \in Mics, SelectDevice(m) PROVE CallbackSafe'
  BY <1>12 DEF SelectDevice, SwitchDevice
<1>13. CASE StopUnit
  BY <1>13 DEF StopUnit
<1>14. CASE DisposeUnit
  BY <1>14 DEF DisposeUnit
<1>15. CASE ReleaseContext
  BY <1>15 DEF ReleaseContext
<1>16. CASE StopEngine
  BY <1>16 DEF StopEngine
<1>17. CASE DestroyRing
  BY <1>17 DEF DestroyRing
<1>18. CASE CreateRing
  BY <1>18 DEF CreateRing
<1>19. CASE StartEngine
  BY <1>19 DEF StartEngine
<1>20. CASE SetupUnit
  BY <1>20 DEF SetupUnit, Capture, PhysicalInputs
<1>21. CASE CallbackBegins
  BY <1>21 DEF CallbackBegins
<1>22. CASE CallbackProcesses
  BY <1>22 DEF CallbackProcesses
<1>23. CASE CallbackReturns
  BY <1>23 DEF CallbackReturns
<1>24. CASE UNCHANGED vars
  BY <1>24 DEF vars
<1>25. QED
  BY <1>1, <1>2, <1>3, <1>4, <1>5, <1>6, <1>7, <1>8, <1>9, <1>10, <1>11,
     <1>12, <1>13, <1>14, <1>15, <1>16, <1>17, <1>18, <1>19, <1>20, <1>21,
     <1>22, <1>23, <1>24
     DEF Next, System, User, Handler, Callback

\* stop() takes down what start() sets up.
LEMMA ResourcesStep ==
    ASSUME ResourcesByPlace, RequestsByPlace, [Next]_vars PROVE ResourcesByPlace'
<1> USE DEF ResourcesByPlace, RequestsByPlace,
            Capturing, AtRest, Starting,
            system, devices, ui, manager, handler, resources
<1>1. ASSUME NEW m \in Mics, Plug(m) PROVE ResourcesByPlace'
  BY <1>1 DEF Plug
<1>2. ASSUME NEW m \in Mics, Unplug(m) PROVE ResourcesByPlace'
  BY <1>2 DEF Unplug
<1>3. CASE DefaultMoves
  BY <1>3 DEF DefaultMoves
<1>4. CASE InstallListeners
  BY <1>4 DEF InstallListeners
<1>5. CASE ListenerRuns
  BY <1>5 DEF ListenerRuns
<1>6. CASE RefreshBegin
  BY <1>6 DEF RefreshBegin
<1>7. CASE RefreshRead
  BY <1>7 DEF RefreshRead
<1>8. CASE RefreshPublish
  BY <1>8 DEF RefreshPublish, Publish, Fallbacks, SwitchDevice
<1>9. CASE Launch
  BY <1>9 DEF Launch, SwitchDevice
<1>10. CASE ToggleOn
  BY <1>10 DEF ToggleOn
<1>11. CASE ToggleOff
  BY <1>11 DEF ToggleOff
<1>12. ASSUME NEW m \in Mics, SelectDevice(m) PROVE ResourcesByPlace'
  BY <1>12 DEF SelectDevice, SwitchDevice
<1>13. CASE StopUnit
  BY <1>13 DEF StopUnit
<1>14. CASE DisposeUnit
  BY <1>14 DEF DisposeUnit
<1>15. CASE ReleaseContext
  BY <1>15 DEF ReleaseContext
<1>16. CASE StopEngine
  BY <1>16 DEF StopEngine
<1>17. CASE DestroyRing
  BY <1>17 DEF DestroyRing
<1>18. CASE CreateRing
  BY <1>18 DEF CreateRing
<1>19. CASE StartEngine
  BY <1>19 DEF StartEngine
<1>20. CASE SetupUnit
  BY <1>20 DEF SetupUnit, Capture, PhysicalInputs
<1>21. CASE CallbackBegins
  BY <1>21 DEF CallbackBegins
<1>22. CASE CallbackProcesses
  BY <1>22 DEF CallbackProcesses
<1>23. CASE CallbackReturns
  BY <1>23 DEF CallbackReturns
<1>24. CASE UNCHANGED vars
  BY <1>24 DEF vars
<1>25. QED
  BY <1>1, <1>2, <1>3, <1>4, <1>5, <1>6, <1>7, <1>8, <1>9, <1>10, <1>11,
     <1>12, <1>13, <1>14, <1>15, <1>16, <1>17, <1>18, <1>19, <1>20, <1>21,
     <1>22, <1>23, <1>24
     DEF Next, System, User, Handler, Callback

\* A handler that starts was asked to by the toggle.
LEMMA RequestsStep ==
    ASSUME ResourcesByPlace, RequestsByPlace, [Next]_vars PROVE RequestsByPlace'
<1> USE DEF ResourcesByPlace, RequestsByPlace, AtRest, Starting,
            system, devices, ui, manager, handler, resources
<1>1. ASSUME NEW m \in Mics, Plug(m) PROVE RequestsByPlace'
  BY <1>1 DEF Plug
<1>2. ASSUME NEW m \in Mics, Unplug(m) PROVE RequestsByPlace'
  BY <1>2 DEF Unplug
<1>3. CASE DefaultMoves
  BY <1>3 DEF DefaultMoves
<1>4. CASE InstallListeners
  BY <1>4 DEF InstallListeners
<1>5. CASE ListenerRuns
  BY <1>5 DEF ListenerRuns
<1>6. CASE RefreshBegin
  BY <1>6 DEF RefreshBegin
<1>7. CASE RefreshRead
  BY <1>7 DEF RefreshRead
<1>8. CASE RefreshPublish
  BY <1>8 DEF RefreshPublish, Publish, Fallbacks, SwitchDevice
<1>9. CASE Launch
  BY <1>9 DEF Launch, SwitchDevice
<1>10. CASE ToggleOn
  BY <1>10 DEF ToggleOn
<1>11. CASE ToggleOff
  BY <1>11 DEF ToggleOff
<1>12. ASSUME NEW m \in Mics, SelectDevice(m) PROVE RequestsByPlace'
  BY <1>12 DEF SelectDevice, SwitchDevice
<1>13. CASE StopUnit
  BY <1>13 DEF StopUnit
<1>14. CASE DisposeUnit
  BY <1>14 DEF DisposeUnit
<1>15. CASE ReleaseContext
  BY <1>15 DEF ReleaseContext
<1>16. CASE StopEngine
  BY <1>16 DEF StopEngine
<1>17. CASE DestroyRing
  BY <1>17 DEF DestroyRing
<1>18. CASE CreateRing
  BY <1>18 DEF CreateRing
<1>19. CASE StartEngine
  BY <1>19 DEF StartEngine
<1>20. CASE SetupUnit
  BY <1>20 DEF SetupUnit, Capture, PhysicalInputs
<1>21. CASE CallbackBegins
  BY <1>21 DEF CallbackBegins
<1>22. CASE CallbackProcesses
  BY <1>22 DEF CallbackProcesses
<1>23. CASE CallbackReturns
  BY <1>23 DEF CallbackReturns
<1>24. CASE UNCHANGED vars
  BY <1>24 DEF vars
<1>25. QED
  BY <1>1, <1>2, <1>3, <1>4, <1>5, <1>6, <1>7, <1>8, <1>9, <1>10, <1>11,
     <1>12, <1>13, <1>14, <1>15, <1>16, <1>17, <1>18, <1>19, <1>20, <1>21,
     <1>22, <1>23, <1>24
     DEF Next, System, User, Handler, Callback

\* The selection changes together with the device of the capture.
LEMMA SelectionStep ==
    ASSUME DeviceTypes, RequestsByPlace, SelectionByPlace, [Next]_vars PROVE SelectionByPlace'
<1> USE DEF DeviceTypes, RequestsByPlace, SelectionByPlace,
            AtRest, Starting, MaybeMic,
            system, devices, ui, manager, handler, resources
<1>1. ASSUME NEW m \in Mics, Plug(m) PROVE SelectionByPlace'
  BY <1>1 DEF Plug
<1>2. ASSUME NEW m \in Mics, Unplug(m) PROVE SelectionByPlace'
  BY <1>2 DEF Unplug
<1>3. CASE DefaultMoves
  BY <1>3 DEF DefaultMoves
<1>4. CASE InstallListeners
  BY <1>4 DEF InstallListeners
<1>5. CASE ListenerRuns
  BY <1>5 DEF ListenerRuns
<1>6. CASE RefreshBegin
  BY <1>6 DEF RefreshBegin
<1>7. CASE RefreshRead
  BY <1>7 DEF RefreshRead
<1>8. CASE RefreshPublish
  BY <1>8 DEF RefreshPublish, Publish, Fallbacks, SwitchDevice
<1>9. CASE Launch
  BY <1>9 DEF Launch, SwitchDevice
<1>10. CASE ToggleOn
  BY <1>10 DEF ToggleOn
<1>11. CASE ToggleOff
  BY <1>11 DEF ToggleOff
<1>12. ASSUME NEW m \in Mics, SelectDevice(m) PROVE SelectionByPlace'
  BY <1>12 DEF SelectDevice, SwitchDevice
<1>13. CASE StopUnit
  BY <1>13 DEF StopUnit
<1>14. CASE DisposeUnit
  BY <1>14 DEF DisposeUnit
<1>15. CASE ReleaseContext
  BY <1>15 DEF ReleaseContext
<1>16. CASE StopEngine
  BY <1>16 DEF StopEngine
<1>17. CASE DestroyRing
  BY <1>17 DEF DestroyRing
<1>18. CASE CreateRing
  BY <1>18 DEF CreateRing
<1>19. CASE StartEngine
  BY <1>19 DEF StartEngine
<1>20. CASE SetupUnit
  BY <1>20 DEF SetupUnit, Capture, PhysicalInputs
<1>21. CASE CallbackBegins
  BY <1>21 DEF CallbackBegins
<1>22. CASE CallbackProcesses
  BY <1>22 DEF CallbackProcesses
<1>23. CASE CallbackReturns
  BY <1>23 DEF CallbackReturns
<1>24. CASE UNCHANGED vars
  BY <1>24 DEF vars
<1>25. QED
  BY <1>1, <1>2, <1>3, <1>4, <1>5, <1>6, <1>7, <1>8, <1>9, <1>10, <1>11,
     <1>12, <1>13, <1>14, <1>15, <1>16, <1>17, <1>18, <1>19, <1>20, <1>21,
     <1>22, <1>23, <1>24
     DEF Next, System, User, Handler, Callback

\* A step that changes the selection while something is captured stops that.
LEMMA CaptureStep ==
    ASSUME AppAssumption, ResourcesByPlace, RequestsByPlace, SelectionByPlace,
           CaptureByPlace, [Next]_vars
    PROVE  CaptureByPlace'
<1> USE DEF ResourcesByPlace, RequestsByPlace, SelectionByPlace, CaptureByPlace,
            AtRest, Starting, Capturing,
            system, devices, ui, manager, handler, resources
<1>1. CASE UNCHANGED <<unit, captured, refused, selected>> /\ (AtRest' => AtRest)
  BY <1>1
<1>2. ASSUME NEW m \in Mics, Plug(m) PROVE CaptureByPlace'
  BY <1>1, <1>2 DEF Plug
<1>3. ASSUME NEW m \in Mics, Unplug(m) PROVE CaptureByPlace'
  BY <1>3 DEF Unplug
<1>4. CASE DefaultMoves \/ InstallListeners \/ ListenerRuns \/ RefreshBegin \/ RefreshRead
  BY <1>1, <1>4 DEF DefaultMoves, InstallListeners, ListenerRuns, RefreshBegin, RefreshRead
<1>5. CASE RefreshPublish
  BY <1>5 DEF RefreshPublish, Publish, Fallbacks, SwitchDevice
<1>6. CASE Launch \/ ToggleOn \/ ToggleOff
  BY <1>6 DEF Launch, SwitchDevice, ToggleOn, ToggleOff
<1>7. ASSUME NEW m \in Mics, SelectDevice(m) PROVE CaptureByPlace'
  BY <1>7 DEF SelectDevice, SwitchDevice
<1>8. CASE StopUnit \/ DisposeUnit \/ ReleaseContext \/ StopEngine \/ DestroyRing
  BY <1>8 DEF StopUnit, DisposeUnit, ReleaseContext, StopEngine, DestroyRing
<1>9. CASE CreateRing \/ StartEngine
  BY <1>9 DEF CreateRing, StartEngine
<1>10. CASE SetupUnit
  BY <1>10 DEF SetupUnit, Capture, PhysicalInputs
<1>11. CASE CallbackBegins \/ CallbackProcesses \/ CallbackReturns
  BY <1>1, <1>11 DEF CallbackBegins, CallbackProcesses, CallbackReturns
<1>12. CASE UNCHANGED vars
  BY <1>1, <1>12 DEF vars
<1>13. QED
  BY <1>2, <1>3, <1>4, <1>5, <1>6, <1>7, <1>8, <1>9, <1>10, <1>11, <1>12
     DEF Next, System, User, Handler, Callback

\* What a handler has read is current, or a notice of the change is under way.
LEMMA NoticesStep ==
    ASSUME AppAssumption, PlaceTypes, NoticesByPlace, RequestsByPlace, [Next]_vars
    PROVE  NoticesByPlace'
<1> USE DEF AppAssumption, PlaceTypes, NoticesByPlace, RequestsByPlace, RefreshPending,
            AtRest, Starting, system, devices, ui, manager, handler, resources
<1>1. ASSUME NEW m \in Mics, Plug(m) PROVE NoticesByPlace'
  BY <1>1 DEF Plug
<1>2. ASSUME NEW m \in Mics, Unplug(m) PROVE NoticesByPlace'
  BY <1>2 DEF Unplug
<1>3. CASE DefaultMoves
  BY <1>3 DEF DefaultMoves
<1>4. CASE InstallListeners
  BY <1>4 DEF InstallListeners
<1>5. CASE ListenerRuns
  BY <1>5 DEF ListenerRuns
<1>6. CASE RefreshBegin
  BY <1>6 DEF RefreshBegin
<1>7. CASE RefreshRead
  BY <1>7 DEF RefreshRead
<1>8. CASE RefreshPublish
  BY <1>8 DEF RefreshPublish, Publish, Fallbacks, SwitchDevice
<1>9. CASE Launch
  BY <1>9 DEF Launch, SwitchDevice
<1>10. CASE ToggleOn
  BY <1>10 DEF ToggleOn
<1>11. CASE ToggleOff
  BY <1>11 DEF ToggleOff
<1>12. ASSUME NEW m \in Mics, SelectDevice(m) PROVE NoticesByPlace'
  BY <1>12 DEF SelectDevice, SwitchDevice
<1>13. CASE StopUnit
  BY <1>13 DEF StopUnit
<1>14. CASE DisposeUnit
  BY <1>14 DEF DisposeUnit
<1>15. CASE ReleaseContext
  BY <1>15 DEF ReleaseContext
<1>16. CASE StopEngine
  BY <1>16 DEF StopEngine
<1>17. CASE DestroyRing
  BY <1>17 DEF DestroyRing
<1>18. CASE CreateRing
  BY <1>18 DEF CreateRing
<1>19. CASE StartEngine
  BY <1>19 DEF StartEngine
<1>20. CASE SetupUnit
  BY <1>20 DEF SetupUnit, Capture, PhysicalInputs
<1>21. CASE CallbackBegins
  BY <1>21 DEF CallbackBegins
<1>22. CASE CallbackProcesses
  BY <1>22 DEF CallbackProcesses
<1>23. CASE CallbackReturns
  BY <1>23 DEF CallbackReturns
<1>24. CASE UNCHANGED vars
  BY <1>24 DEF vars
<1>25. QED
  BY <1>1, <1>2, <1>3, <1>4, <1>5, <1>6, <1>7, <1>8, <1>9, <1>10, <1>11,
     <1>12, <1>13, <1>14, <1>15, <1>16, <1>17, <1>18, <1>19, <1>20, <1>21,
     <1>22, <1>23, <1>24
     DEF Next, System, User, Handler, Callback

\* A step that leaves no refresh behind publishes the list as it is, and one
\* that changes the microphones leaves a notice behind.
LEMMA ListStep ==
    ASSUME AppAssumption, PlaceTypes, NoticesByPlace, [Next]_vars,
           RefreshPending \/ (listening /\ inputDevices = plugged)
    PROVE  RefreshPending' \/ inputDevices' = plugged'
<1> DEFINE Goal == RefreshPending' \/ inputDevices' = plugged'
<1> USE DEF AppAssumption, PlaceTypes, NoticesByPlace, RefreshPending, AtRest,
            system, devices, ui, manager, handler, resources
<1>1. ASSUME NEW m \in Mics, Plug(m) PROVE Goal
  BY <1>1 DEF Plug
<1>2. ASSUME NEW m \in Mics, Unplug(m) PROVE Goal
  BY <1>2 DEF Unplug
<1>3. CASE DefaultMoves
  BY <1>3 DEF DefaultMoves
<1>4. CASE InstallListeners
  BY <1>4 DEF InstallListeners
<1>5. CASE ListenerRuns
  BY <1>5 DEF ListenerRuns
<1>6. CASE RefreshBegin
  BY <1>6 DEF RefreshBegin
<1>7. CASE RefreshRead
  BY <1>7 DEF RefreshRead
<1>8. CASE RefreshPublish
  BY <1>8 DEF RefreshPublish, Publish, Fallbacks, SwitchDevice
<1>9. CASE Launch
  BY <1>9 DEF Launch, SwitchDevice
<1>10. CASE ToggleOn
  BY <1>10 DEF ToggleOn
<1>11. CASE ToggleOff
  BY <1>11 DEF ToggleOff
<1>12. ASSUME NEW m \in Mics, SelectDevice(m) PROVE Goal
  BY <1>12 DEF SelectDevice, SwitchDevice
<1>13. CASE StopUnit
  BY <1>13 DEF StopUnit
<1>14. CASE DisposeUnit
  BY <1>14 DEF DisposeUnit
<1>15. CASE ReleaseContext
  BY <1>15 DEF ReleaseContext
<1>16. CASE StopEngine
  BY <1>16 DEF StopEngine
<1>17. CASE DestroyRing
  BY <1>17 DEF DestroyRing
<1>18. CASE CreateRing
  BY <1>18 DEF CreateRing
<1>19. CASE StartEngine
  BY <1>19 DEF StartEngine
<1>20. CASE SetupUnit
  BY <1>20 DEF SetupUnit, Capture, PhysicalInputs
<1>21. CASE CallbackBegins
  BY <1>21 DEF CallbackBegins
<1>22. CASE CallbackProcesses
  BY <1>22 DEF CallbackProcesses
<1>23. CASE CallbackReturns
  BY <1>23 DEF CallbackReturns
<1>24. CASE UNCHANGED vars
  BY <1>24 DEF vars
<1>25. QED
  BY <1>1, <1>2, <1>3, <1>4, <1>5, <1>6, <1>7, <1>8, <1>9, <1>10, <1>11,
     <1>12, <1>13, <1>14, <1>15, <1>16, <1>17, <1>18, <1>19, <1>20, <1>21,
     <1>22, <1>23, <1>24
     DEF Next, System, User, Handler, Callback

\* The inductive invariant behind the theorems below: what is there at each
\* place of the handlers, what was asked for, and for which device.
THEOREM AppInvariant == Spec => []Inv
<1>1. Init => Inv
  BY AppAssumption, InitState
<1>2. Inv /\ [Next]_vars => Inv'
  BY AppAssumption, DeviceTypesStep, FlagTypesStep, PlaceTypesStep,
     CallbackStep, ResourcesStep, RequestsStep, SelectionStep, NoticesStep,
     CaptureStep DEF Inv, TypeOK
<1>3. QED
  BY <1>1, <1>2, PTL DEF Spec

\* Every handler is at a place it has, with the values it needs there.
THEOREM AppTypes == Spec => []TypeOK
<1>1. Inv => TypeOK
  BY DEF Inv
<1>2. QED
  BY <1>1, AppInvariant, PTL

\* What the callback uses stays while it uses it, however stop(), start() and
\* the device's thread interleave.
THEOREM AppCallbackSafe == Spec => []CallbackSafe
<1>1. Inv => CallbackSafe
  BY DEF Inv
<1>2. QED
  BY <1>1, AppInvariant, PTL

\* Every start finds neither ring nor unit nor context of an earlier one,
\* whatever failed before.
THEOREM AppStartsFromNothing == Spec => []StartsFromNothing
<1>1. Inv => StartsFromNothing
  BY DEF Inv, StartsFromNothing, ResourcesByPlace, Capturing, AtRest
<1>2. QED
  BY <1>1, AppInvariant, PTL

\* With the toggle off nothing captures and nothing is offered.
THEOREM AppOffMeansOff == Spec => []OffMeansOff
<1>1. Inv => OffMeansOff
  BY DEF Inv, OffMeansOff, ResourcesByPlace, RequestsByPlace, AtRest
<1>2. QED
  BY <1>1, AppInvariant, PTL

\* The two managers agree on the microphone between handlers, and unless the
\* audio system refused the selected one, no other is captured.
THEOREM AppFollowsSelection == Spec => []CaptureFollowsSelection
<1>1. Inv => CaptureFollowsSelection
  BY DEF Inv, CaptureFollowsSelection, SelectionByPlace, CaptureByPlace, AtRest
<1>2. QED
  BY <1>1, AppInvariant, PTL

\* No change of the microphones is lost between the listeners, the queue and
\* the handler that lists them, for every number of refreshes told apart.
THEOREM AppNoChangeMissed == Spec => NoChangeMissed
<1> DEFINE Step == RefreshPending \/ (listening /\ ListRight)
                     => (RefreshPending \/ ListRight)'
<1>1. Inv /\ Inv' /\ [Next]_vars => [Step]_vars
  <2> SUFFICES ASSUME Inv, Inv', [Next]_vars, RefreshPending \/ (listening /\ ListRight)
               PROVE  RefreshPending' \/ ListRight'
    OBVIOUS
  <2>1. RefreshPending' \/ inputDevices' = plugged'
    BY AppAssumption, ListStep DEF Inv, TypeOK, ListRight
  <2>2. selected' \in inputDevices' \union {NoDevice}
    BY DEF Inv, SelectionByPlace
  <2>3. QED
    BY <2>1, <2>2 DEF ListRight
<1>2. QED
  BY <1>1, AppInvariant, PTL DEF Spec, NoChangeMissed
=============================================================================
