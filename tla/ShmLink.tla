------------------------------ MODULE ShmLink ------------------------------
(***************************************************************************)
(* How the driver finds the application's ring: the life of the shared     *)
(* memory segments behind the name "/com.noiseai.audio".                   *)
(*                                                                         *)
(* The producer is the application: noise_shm_create() and                 *)
(* noise_shm_destroy(), which construct and destroy a SharedRingBuffer     *)
(* system call by system call, and may fail; write(), of which only the    *)
(* heartbeat matters here; and the end of the process at any point, which  *)
(* is also how the application quits.                                      *)
(*                                                                         *)
(* The consumer is the driver's IOHandler in coreaudiod: OnStartIO,        *)
(* OnStopIO and OnReadClientInput, access by access to what the processes  *)
(* share, with its retry countdown and its stale count; and the death of   *)
(* coreaudiod at any point.  The host does not run two of them at a time.  *)
(*                                                                         *)
(* A heartbeat is compared with the last one seen only for equality, so    *)
(* two bits stand for it: has this segment any beat (heartbeat # 0), and   *)
(* is there one the driver has not seen (heartbeat # last_heartbeat_, the  *)
(* latter being 0 whenever the driver is not connected).                   *)
(***************************************************************************)
EXTENDS Integers, FiniteSets

CONSTANTS Segments,        \* shared memory objects; freed ones are reused
          NoSegment,       \* what an unlinked name or a failed object has
          NoObject,        \* a null shared_buffer
          StaleThreshold,  \* kStaleThreshold, 50 in the code
          FastRetry,       \* countdown before the first connection, 5
          SlowRetry,       \* countdown afterwards, 47
          Recreate,        \* may noise_shm_create() replace a live object?
          DriverFails      \* may the driver's system calls fail?

ASSUME LinkAssumption ==
    /\ NoSegment \notin Segments /\ NoObject \notin Segments \cup {NoSegment}
    /\ StaleThreshold \in Nat /\ StaleThreshold > 0
    /\ FastRetry \in Nat /\ SlowRetry \in Nat
    /\ Recreate \in BOOLEAN /\ DriverFails \in BOOLEAN

VARIABLES
    name,      \* the segment the name is linked to
    seg,       \* header and size of every segment
    ppc,       \* producer: the next step of its call
    pobj,      \* ctx->shared_buffer: its segment
    pnew,      \* the segment of the object under construction
    pdead,     \* the segment of the object under destruction
    ptodo,     \* header fields the constructor has still to store
    io,        \* driver: is IO running?
    dpc, dcall,    \* driver: the next step of its call, and which call
    dseg,          \* shared_buffer_: its segment
    countdown, ever,   \* reconnect_countdown_, was_ever_connected_
    stale, news,       \* stale_count_, heartbeat # last_heartbeat_
    waited,    \* history: callbacks in a row that missed the ring on offer
    quiet      \* history: heartbeat tests since the last beat of this ring

producer == <<ppc, pobj, pnew, pdead, ptodo>>
driver == <<io, dpc, dcall, dseg, countdown, ever, stale, news, quiet>>
vars == <<name, seg, producer, driver, waited>>

Blank == [sized |-> FALSE, capacity |-> FALSE, active |-> FALSE,
          beaten |-> FALSE, unread |-> FALSE]

Init ==
    /\ name = NoSegment
    /\ seg = [s \in Segments |-> Blank]
    /\ ppc = "ready" /\ pobj = NoObject /\ pnew = NoObject /\ pdead = NoObject
    /\ ptodo = {}
    /\ io = FALSE /\ dpc = "idle" /\ dcall = "read" /\ dseg = NoSegment
    /\ countdown = 0 /\ ever = FALSE /\ stale = 0 /\ news = FALSE
    /\ waited = 0 /\ quiet = 0

\* A segment that no name, descriptor or mapping refers to.
Unused == Segments \ {name, pobj, pnew, pdead, dseg}

\* The segment of a producer that is between two calls: the ring it offers.
Offered == IF ppc = "ready" /\ pobj \in Segments THEN pobj ELSE NoSegment

----------------------------------------------------------------------------
\* The producer.  Its steps start the count of missed callbacks anew when
\* they change the ring on offer.
Unlink == name' = NoSegment

ProducerStep == UNCHANGED driver /\ waited' = 0

CreateBegin ==
    /\ ppc = "ready"
    /\ Recreate \/ pobj = NoObject
    /\ Unlink
    /\ ppc' = "open"
    /\ UNCHANGED <<seg, pobj, pnew, pdead, ptodo>> /\ ProducerStep

CreateOpen ==
    /\ ppc = "open"
    /\ \/ \E s \in Unused :
              /\ name' = s /\ pnew' = s
              /\ seg' = [seg EXCEPT ![s] = Blank]
              /\ ppc' = "truncate"
       \/ /\ pnew' = NoSegment
          /\ ppc' = "assign"
          /\ UNCHANGED <<name, seg>>
    /\ UNCHANGED <<pobj, pdead, ptodo>> /\ ProducerStep

\* ftruncate() or mmap() fails: the name is removed again.
CreateFails ==
    /\ ppc \in {"truncate", "map"}
    /\ Unlink
    /\ pnew' = NoSegment
    /\ ppc' = "assign"
    /\ UNCHANGED <<seg, pobj, pdead, ptodo>> /\ ProducerStep

CreateTruncate ==
    /\ ppc = "truncate"
    /\ seg' = [seg EXCEPT ![pnew].sized = TRUE]
    /\ ppc' = "map"
    /\ UNCHANGED <<name, pobj, pnew, pdead, ptodo>> /\ ProducerStep

CreateMap ==
    /\ ppc = "map"
    /\ ptodo' = {"capacity", "active"}
    /\ ppc' = "header"
    /\ UNCHANGED <<name, seg, pobj, pnew, pdead>> /\ ProducerStep

\* Mutant: the object is published with a half-written header.
CreateHeaderPartial(field) ==
    /\ ppc = "header"
    /\ seg' = [seg EXCEPT ![pnew][field] = TRUE]
    /\ ptodo' = {}
    /\ ppc' = "assign"
    /\ UNCHANGED <<name, pobj, pnew, pdead>> /\ ProducerStep

\* The header fields are plain stores: another process may see them in any
\* order.
CreateHeader(field) ==
    /\ ppc = "header"
    /\ seg' = [seg EXCEPT ![pnew][field] = TRUE]
    /\ ptodo' = ptodo \ {field}
    /\ ppc' = IF ptodo' = {} THEN "assign" ELSE "header"
    /\ UNCHANGED <<name, pobj, pnew, pdead>> /\ ProducerStep

\* Mutant: the name is cleaned up after the segment was made, not before.
CreateAssignUnlinks ==
    /\ ppc = "assign"
    /\ Unlink
    /\ pobj' = pnew /\ pnew' = NoObject /\ pdead' = pobj
    /\ ppc' = IF pobj = NoObject THEN "ready" ELSE "deactivate"
    /\ UNCHANGED <<seg, ptodo>> /\ ProducerStep

\* The new object replaces the old one, which is destroyed after that.
CreateAssign ==
    /\ ppc = "assign"
    /\ pobj' = pnew /\ pnew' = NoObject /\ pdead' = pobj
    /\ ppc' = IF pobj = NoObject THEN "ready" ELSE "deactivate"
    /\ UNCHANGED <<name, seg, ptodo>> /\ ProducerStep

DestroyBegin ==
    /\ ppc = "ready" /\ pobj # NoObject
    /\ pdead' = pobj /\ pobj' = NoObject
    /\ ppc' = "deactivate"
    /\ UNCHANGED <<name, seg, pnew, ptodo>> /\ ProducerStep

Deactivate ==
    /\ ppc = "deactivate"
    /\ seg' = IF pdead \in Segments
              THEN [seg EXCEPT ![pdead].active = FALSE] ELSE seg
    /\ ppc' = "unlink"
    /\ UNCHANGED <<name, pobj, pnew, pdead, ptodo>> /\ ProducerStep

\* A creator unlinks the name even when it never got a segment.
DestroyUnlink ==
    /\ ppc = "unlink"
    /\ Unlink
    /\ pdead' = NoObject
    /\ ppc' = "ready"
    /\ UNCHANGED <<seg, pobj, pnew, ptodo>> /\ ProducerStep

Write ==
    /\ Offered # NoSegment
    /\ seg' = [seg EXCEPT ![pobj].beaten = TRUE, ![pobj].unread = TRUE]
    /\ news' = (news \/ dseg = pobj)
    /\ quiet' = IF dseg = pobj THEN 0 ELSE quiet
    /\ UNCHANGED <<name, producer, waited, io, dpc, dcall, dseg, countdown,
                   ever, stale>>

\* The application quits or crashes: no destructor runs, the name stays.
AppEnds ==
    /\ ppc # "ready" \/ pobj # NoObject
    /\ ppc' = "ready" /\ pobj' = NoObject /\ pnew' = NoObject /\ pdead' = NoObject
    /\ ptodo' = {}
    /\ UNCHANGED <<name, seg>> /\ ProducerStep

----------------------------------------------------------------------------
\* The driver.

\* shared_buffer_.reset() with what goes with it.
Disconnect == dseg' = NoSegment /\ stale' = 0 /\ news' = FALSE

\* Bound: waited counts no further than this.
MaxWaited == StaleThreshold + FastRetry + SlowRetry + 3

\* The driver's call returns.
CallbackEnds ==
    /\ dpc' = "idle"
    /\ waited' = IF Offered \in {NoSegment, dseg'} THEN 0
                 ELSE IF waited < MaxWaited THEN waited + 1 ELSE waited

\* Mutant: the countdown does not count down.
TryOpenOnce(count, connected_before) ==
    IF count > 0
    THEN /\ countdown' = count
         /\ dseg' = NoSegment
         /\ CallbackEnds
    ELSE /\ countdown' = IF connected_before THEN SlowRetry ELSE FastRetry
         /\ dseg' = name
         /\ IF name = NoSegment THEN CallbackEnds
                                ELSE dpc' = "map" /\ UNCHANGED waited

\* ensureConnected() when it is not connected, up to shm_open().
TryOpen(count, connected_before) ==
    IF count > 0
    THEN /\ countdown' = count - 1
         /\ dseg' = NoSegment
         /\ CallbackEnds
    ELSE /\ countdown' = IF connected_before THEN SlowRetry ELSE FastRetry
         /\ dseg' = name
         /\ IF name = NoSegment THEN CallbackEnds
                                ELSE dpc' = "map" /\ UNCHANGED waited

ReadBegin ==
    /\ io /\ dpc = "idle"
    /\ dcall' = "read"
    /\ IF dseg = NoSegment
       THEN TryOpen(countdown, ever)
       ELSE dpc' = "active" /\ UNCHANGED <<countdown, dseg, waited>>
    /\ UNCHANGED <<name, seg, producer, io, ever, stale, news, quiet>>

\* Also while IO is running already.
OnStartIO ==
    /\ dpc = "idle"
    /\ io' = TRUE /\ dcall' = "start"
    /\ ever' = FALSE /\ stale' = 0 /\ news' = FALSE
    /\ TryOpen(0, FALSE)
    /\ UNCHANGED <<name, seg, producer, quiet>>

OnStopIO ==
    /\ io /\ dpc = "idle"
    /\ io' = FALSE
    /\ Disconnect
    /\ countdown' = 0 /\ waited' = 0
    /\ UNCHANGED <<name, seg, producer, dpc, dcall, ever, quiet>>

\* A segment without size cannot be mapped.
MapSegment ==
    /\ dpc = "map"
    /\ \/ seg[dseg].sized /\ dpc' = "flush" /\ UNCHANGED <<dseg, waited>>
       \/ ~seg[dseg].sized /\ dseg' = NoSegment /\ CallbackEnds
    /\ UNCHANGED <<name, seg, producer, io, dcall, countdown, ever, stale,
                   news, quiet>>

\* Any of the driver's system calls may fail with the same outcome, which
\* starts the count of missed callbacks anew.
MapFails ==
    /\ DriverFails /\ dpc = "map"
    /\ dseg' = NoSegment /\ dpc' = "idle" /\ waited' = 0
    /\ UNCHANGED <<name, seg, producer, io, dcall, countdown, ever, stale,
                   news, quiet>>

\* Mutant: the countdown of the attempt that succeeded stays.
FlushKeepsCountdown ==
    /\ dpc = "flush"
    /\ seg' = [seg EXCEPT ![dseg].unread = FALSE]
    /\ ever' = TRUE
    /\ news' = seg[dseg].beaten /\ quiet' = 0
    /\ IF dcall = "read"
       THEN /\ dpc' = "active" /\ UNCHANGED dseg
            /\ waited' = IF dseg = Offered THEN 0 ELSE waited
       ELSE UNCHANGED dseg /\ CallbackEnds
    /\ UNCHANGED <<name, producer, io, dcall, countdown, stale>>

\* flush(), and the driver is connected.
Flush ==
    /\ dpc = "flush"
    /\ seg' = [seg EXCEPT ![dseg].unread = FALSE]
    /\ countdown' = 0 /\ ever' = TRUE
    /\ news' = seg[dseg].beaten /\ quiet' = 0
    /\ IF dcall = "read"
       THEN /\ dpc' = "active" /\ UNCHANGED dseg
            /\ waited' = IF dseg = Offered THEN 0 ELSE waited
       ELSE UNCHANGED dseg /\ CallbackEnds
    /\ UNCHANGED <<name, producer, io, dcall, stale>>

\* Mutant: the callback goes on with the ring it has just given up.
CheckActiveGoesOn ==
    /\ dpc = "active"
    /\ dpc' = "beat" /\ UNCHANGED waited
    /\ IF seg[dseg].active THEN UNCHANGED <<dseg, stale, news>> ELSE Disconnect
    /\ UNCHANGED <<name, seg, producer, io, dcall, countdown, ever, quiet>>

CheckActive ==
    /\ dpc = "active"
    /\ IF seg[dseg].active
       THEN dpc' = "beat" /\ UNCHANGED <<dseg, stale, news, waited>>
       ELSE Disconnect /\ CallbackEnds
    /\ UNCHANGED <<name, seg, producer, io, dcall, countdown, ever, quiet>>

\* Mutant: a beat does not reset the stale count.
CheckHeartbeatKeepsCount ==
    /\ dpc = "beat"
    /\ quiet' = quiet + 1
    /\ IF news
       THEN /\ news' = FALSE
            /\ dpc' = "read" /\ UNCHANGED <<dseg, stale, waited>>
       ELSE IF stale + 1 >= StaleThreshold
            THEN Disconnect /\ CallbackEnds
            ELSE /\ stale' = stale + 1
                 /\ dpc' = "read" /\ UNCHANGED <<dseg, news, waited>>
    /\ UNCHANGED <<name, seg, producer, io, dcall, countdown, ever>>

\* Mutant: a stale ring is not given up.
CheckHeartbeatOnly ==
    /\ dpc = "beat"
    /\ quiet' = quiet + 1
    /\ news' = FALSE
    /\ stale' = IF news THEN 0 ELSE stale + 1
    /\ dpc' = "read"
    /\ UNCHANGED <<name, seg, producer, io, dcall, dseg, countdown, ever, waited>>

CheckHeartbeat ==
    /\ dpc = "beat"
    /\ quiet' = quiet + 1
    /\ IF news
       THEN /\ news' = FALSE /\ stale' = 0
            /\ dpc' = "read" /\ UNCHANGED <<dseg, waited>>
       ELSE IF stale + 1 >= StaleThreshold
            THEN Disconnect /\ CallbackEnds
            ELSE /\ stale' = stale + 1
                 /\ dpc' = "read" /\ UNCHANGED <<dseg, news, waited>>
    /\ UNCHANGED <<name, seg, producer, io, dcall, countdown, ever>>

\* read(): an underrun leaves the ring alone.
Read ==
    /\ dpc = "read"
    /\ \/ UNCHANGED seg
       \/ /\ seg[dseg].unread
          /\ \E more \in BOOLEAN : seg' = [seg EXCEPT ![dseg].unread = more]
    /\ UNCHANGED dseg /\ CallbackEnds
    /\ UNCHANGED <<name, producer, io, dcall, countdown, ever, stale, news,
                   quiet>>

\* coreaudiod is killed; launchd starts another one.
DriverDies ==
    /\ io' = FALSE /\ dpc' = "idle" /\ dcall' = "read"
    /\ Disconnect
    /\ countdown' = 0 /\ ever' = FALSE /\ waited' = 0 /\ quiet' = 0
    /\ UNCHANGED <<name, seg, producer>>

----------------------------------------------------------------------------
Producer == \/ CreateBegin \/ CreateOpen \/ CreateFails
            \/ CreateTruncate \/ CreateMap
            \/ \E field \in ptodo : CreateHeader(field)
            \/ CreateAssign
            \/ DestroyBegin \/ Deactivate \/ DestroyUnlink
            \/ Write \/ AppEnds

Callback == \/ ReadBegin \/ MapSegment \/ MapFails \/ Flush
            \/ CheckActive \/ CheckHeartbeat \/ Read

Driver == Callback \/ OnStartIO \/ OnStopIO \/ DriverDies

Next == Producer \/ Driver

Spec == Init /\ [][Next]_vars

\* While IO runs, the host keeps calling the driver, and its calls return.
FairSpec == Spec /\ WF_vars(Callback)

----------------------------------------------------------------------------
(***************************************************************************)
(* Properties.                                                             *)
(***************************************************************************)

\* Every variable has its type, and a step that uses a segment has one.
TypeOK ==
    /\ name \in Segments \cup {NoSegment}
    /\ seg \in [Segments -> [sized : BOOLEAN, capacity : BOOLEAN,
                             active : BOOLEAN, beaten : BOOLEAN,
                             unread : BOOLEAN]]
    /\ ppc \in {"ready", "open", "truncate", "map", "header", "assign",
                "deactivate", "unlink"}
    /\ {pobj, pnew, pdead} \subseteq Segments \cup {NoSegment, NoObject}
    /\ ppc \in {"truncate", "map", "header"} => pnew \in Segments
    /\ ptodo \subseteq {"capacity", "active"}
    /\ io \in BOOLEAN
    /\ dpc \in {"idle", "map", "flush", "active", "beat", "read"}
    /\ dcall \in {"read", "start"}
    /\ dseg \in Segments \cup {NoSegment}
    /\ dpc # "idle" => dseg \in Segments
    /\ countdown \in Nat /\ ever \in BOOLEAN /\ stale \in Nat /\ news \in BOOLEAN
    /\ waited \in Nat /\ quiet \in Nat

\* A ring on offer can be found under its name.
OfferedIsNamed == Offered # NoSegment => name = Offered

\* Whatever became of the producers before it, of coreaudiod and of the
\* driver's connection, a ring on offer is found within this many callbacks:
\* the one that was under way when the ring came on offer, then the stale
\* count of a dead ring with one beat still unseen, or one retry interval.
ReconnectBound ==
    \/ waited <= 1 + 1 + StaleThreshold
    \/ waited <= 1 + FastRetry
    \/ waited <= 1 + SlowRetry

\* A callback gives up a ring as stale only if StaleThreshold of its tests came
\* after the ring's last beat, and a ring on offer for no other reason: it is
\* active, whichever of its header's stores the driver saw first, and although
\* an earlier object may be destroyed after it was made.
Attached(s) == dseg = s /\ dpc \notin {"map", "flush"}

OnlySilentIsDropped ==
    [][dpc # "idle" /\ io' /\
          \/ dpc = "beat" /\ dpc' = "idle"
          \/ Offered \in Segments /\ Attached(Offered) /\ dseg' = NoSegment
       => quiet' >= StaleThreshold]_vars

\* There is audio only in a ring whose header is complete, so the driver never
\* divides by a capacity that is not there, although it may map the ring and
\* read its header before the producer has filled it in.
AudioHasCapacity == \A s \in Segments : seg[s].unread => seg[s].capacity

\* A ring that stays on offer while IO runs is attached again and again,
\* whatever the driver was attached to before, unless the driver's system
\* calls fail forever.
AttachesEventually ==
    <>[][~MapFails]_vars =>
        \A s \in Segments : <>[](io /\ Offered = s) => []<>Attached(s)
============================================================================
