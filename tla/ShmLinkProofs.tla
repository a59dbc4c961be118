-------------------------- MODULE ShmLinkProofs --------------------------
(***************************************************************************)
(* Theorems about ShmLink, for any number of segments and all thresholds.  *)
(* Those about the name need an application that destroys its ring before  *)
(* it creates another one (Recreate = FALSE), as the one of this           *)
(* repository does.                                                        *)
(***************************************************************************)
EXTENDS ShmLink, TLAPS

\* TypeOK in parts.
Places == {"ready", "open", "truncate", "map", "header", "assign",
           "deactivate", "unlink"}
Header == [sized : BOOLEAN, capacity : BOOLEAN, active : BOOLEAN,
           beaten : BOOLEAN, unread : BOOLEAN]
NameType == name \in Segments \cup {NoSegment}
SegType == seg \in [Segments -> Header]
Anything == Segments \cup {NoSegment, NoObject}
ProducerType ==
    /\ ppc \in Places
    /\ pobj \in Anything /\ pnew \in Anything /\ pdead \in Anything
    /\ ppc \in {"truncate", "map", "header"} => pnew \in Segments
    /\ ptodo \subseteq {"capacity", "active"}
CallType ==
    /\ dpc \in {"idle", "map", "flush", "active", "beat", "read"}
    /\ dcall \in {"read", "start"}
    /\ dseg \in Segments \cup {NoSegment}
    /\ dpc # "idle" => dseg \in Segments
FlagType == io \in BOOLEAN /\ ever \in BOOLEAN /\ news \in BOOLEAN
CountType == countdown \in Nat /\ stale \in Nat /\ waited \in Nat /\ quiet \in Nat

\* Headers are complete where they are offered, and the object under
\* construction has those fields that are not still to be stored.
HeadersComplete ==
    /\ pobj \in Segments => seg[pobj].sized /\ seg[pobj].capacity
    /\ ppc \in {"map", "header"} => seg[pnew].sized
    /\ ppc = "header" /\ "capacity" \notin ptodo => seg[pnew].capacity
    /\ ppc = "assign" /\ pnew \in Segments => seg[pnew].sized /\ seg[pnew].capacity

\* So is the active flag of the producer's object, which is neither under
\* construction nor under destruction.
ActiveOnOffer ==
    /\ pobj \in Segments => seg[pobj].active /\ pobj \notin {pnew, pdead}
    /\ ppc = "header" /\ "active" \notin ptodo => seg[pnew].active
    /\ ppc = "assign" /\ pnew \in Segments => seg[pnew].active

\* The name leads to the producer's object, made or in the making, and there
\* is no other object.
NameLeads ==
    /\ ppc \notin {"ready"} => pobj = NoObject
    /\ ppc = "ready" /\ pobj \in Segments => name = pobj
    /\ ppc \in {"truncate", "map", "header"} => name = pnew
    /\ ppc = "assign" /\ pnew \in Segments => name = pnew

Connected == dseg # NoSegment /\ dpc \notin {"map", "flush"}

\* The driver's counters: before a connection and after it.
CountersSound ==
    /\ stale < StaleThreshold
    /\ ~Connected => stale = 0
    /\ Connected => countdown = 0
    /\ countdown <= FastRetry \/ countdown <= SlowRetry
    /\ Connected /\ ~news => stale <= quiet

\* No bound but the largest of the three is passed.
Within(n) ==
    n <= 1 + 1 + StaleThreshold \/ n <= 1 + FastRetry \/ n <= 1 + SlowRetry

\* How long the driver has missed the ring on offer.
WaitSound ==
    /\ Offered = NoSegment => waited = 0
    /\ Offered # NoSegment =>
        /\ dseg = NoSegment => Within(waited + countdown)
        /\ dseg = Offered /\ ~Connected => Within(waited)
        /\ dseg = Offered /\ Connected => waited = 0
        /\ dseg \notin {Offered, NoSegment} =>
            /\ ~Connected => waited = 0
            /\ Connected /\ dpc = "read" => waited <= IF news THEN 0 ELSE 1 + stale
            /\ Connected /\ dpc # "read" => waited <= IF news THEN 1 ELSE 2 + stale

----------------------------------------------------------------------------
LEMMA Numbers ==
    ASSUME LinkAssumption
    PROVE  /\ NoSegment \notin Segments /\ NoObject \notin Segments
           /\ NoObject # NoSegment
           /\ StaleThreshold \in Nat /\ StaleThreshold > 0
           /\ FastRetry \in Nat /\ SlowRetry \in Nat
  BY DEF LinkAssumption

LEMMA TypeParts ==
    /\ TypeOK <=> /\ NameType /\ SegType /\ ProducerType /\ CallType
                  /\ FlagType /\ CountType
    /\ TypeOK' <=> /\ NameType' /\ SegType' /\ ProducerType' /\ CallType'
                   /\ FlagType' /\ CountType'
  BY DEF TypeOK, NameType, SegType, Header, ProducerType, Places, Anything,
         CallType, FlagType, CountType

\* A header stays one when its fields change.
LEMMA HeaderFields ==
    ASSUME NEW h \in Header, NEW b \in BOOLEAN
    PROVE  /\ [h EXCEPT !.sized = b] \in Header
           /\ [h EXCEPT !.active = b] \in Header
           /\ [h EXCEPT !.unread = b] \in Header
           /\ [h EXCEPT !.beaten = TRUE, !.unread = TRUE] \in Header
  BY DEF Header

\* Every step leaves the segments alone, makes one blank that is not in use,
\* or changes fields of one: what the constructor stores, the destructor's
\* active flag, a write, or what the driver reads.
LEMMA SegSteps ==
    ASSUME SegType, ProducerType, CallType, [Next]_vars
    PROVE  \/ seg' = seg
           \/ CreateOpen /\ \E s \in Unused : seg' = [seg EXCEPT ![s] = Blank]
           \/ CreateTruncate /\ seg' = [seg EXCEPT ![pnew].sized = TRUE]
           \/ \E field \in ptodo : CreateHeader(field)
           \/ Deactivate /\ seg' = [seg EXCEPT ![pdead].active = FALSE]
           \/ Write
           \/ /\ dseg \in Segments /\ seg[dseg].unread
              /\ seg' = [seg EXCEPT ![dseg].unread = TRUE]
           \/ /\ dseg \in Segments
              /\ seg' = [seg EXCEPT ![dseg].unread = FALSE]
<1>1. CASE Producer
  BY <1>1 DEF Producer, CreateBegin, CreateOpen, CreateFails, CreateTruncate,
             CreateMap, CreateAssign, DestroyBegin, Deactivate, DestroyUnlink, AppEnds
<1>2. CASE Flush
  BY <1>2 DEF Flush, CallType
<1>3. CASE Read
  BY <1>3 DEF Read, CallType
<1>4. CASE UNCHANGED vars
  BY <1>4 DEF vars
<1>5. CASE Driver /\ ~Flush /\ ~Read
  BY <1>5 DEF Driver, Callback, ReadBegin, MapSegment, MapFails, CheckActive,
             CheckHeartbeat, OnStartIO, OnStopIO, DriverDies
<1>6. QED
  BY <1>1, <1>2, <1>3, <1>4, <1>5 DEF Next

LEMMA NameStep ==
    ASSUME LinkAssumption, NameType, ProducerType, [Next]_vars
    PROVE  NameType'
<1>1. CASE CreateOpen
  BY <1>1 DEF CreateOpen, Unused, NameType
<1>2. CASE name' \in {name, NoSegment}
  BY <1>2 DEF NameType
<1>3. CASE Producer /\ ~CreateOpen
  BY <1>2, <1>3 DEF Producer, CreateBegin, CreateFails, CreateTruncate, CreateMap,
     CreateHeader, CreateAssign, DestroyBegin, Deactivate, DestroyUnlink, Write,
     AppEnds, Unlink
<1>4. CASE Driver
  BY <1>2, <1>4 DEF Driver, Callback, ReadBegin, MapSegment, MapFails, Flush,
     CheckActive, CheckHeartbeat, Read, OnStartIO, OnStopIO, DriverDies
<1>5. CASE UNCHANGED vars
  BY <1>2, <1>5 DEF vars
<1>6. QED
  BY <1>1, <1>3, <1>4, <1>5 DEF Next

LEMMA SegStep ==
    ASSUME SegType, ProducerType, CallType, [Next]_vars PROVE SegType'
<1> USE DEF SegType
<1>1. ASSUME NEW s \in Unused, seg' = [seg EXCEPT ![s] = Blank] PROVE SegType'
  <2>1. Blank \in Header
    BY DEF Blank, Header
  <2>2. QED
    BY <1>1, <2>1
<1>2. CASE CreateTruncate /\ seg' = [seg EXCEPT ![pnew].sized = TRUE]
  <2>1. pnew \in Segments
    BY <1>2 DEF CreateTruncate, ProducerType
  <2>2. QED
    BY <1>2, <2>1, HeaderFields
<1>3. ASSUME NEW field \in ptodo, CreateHeader(field) PROVE SegType'
  <2>1. pnew \in Segments
    BY <1>3 DEF CreateHeader, ProducerType
  <2>2. field \in {"capacity", "active"} /\ seg' = [seg EXCEPT ![pnew][field] = TRUE]
    BY <1>3 DEF CreateHeader, ProducerType
  <2>3. [seg[pnew] EXCEPT ![field] = TRUE] \in Header
    BY <2>1, <2>2 DEF Header
  <2>4. QED
    BY <2>1, <2>2, <2>3
<1>4. CASE Deactivate /\ seg' = [seg EXCEPT ![pdead].active = FALSE]
  BY <1>4, HeaderFields
<1>5. CASE Write
  <2>1. pobj \in Segments
    BY <1>5 DEF Write, Offered
  <2>2. seg' = [seg EXCEPT ![pobj] = [seg[pobj] EXCEPT !.beaten = TRUE, !.unread = TRUE]]
    BY <1>5, <2>1 DEF Write
  <2>3. QED
    BY <2>1, <2>2, HeaderFields
<1>6. CASE seg' = seg
  BY <1>6
<1>7. CASE \E s \in Unused : seg' = [seg EXCEPT ![s] = Blank]
  BY <1>1, <1>7
<1>8. CASE \E field \in ptodo : CreateHeader(field)
  BY <1>3, <1>8
<1>9. CASE dseg \in Segments /\ seg' = [seg EXCEPT ![dseg].unread = TRUE]
  BY <1>9, HeaderFields
<1>10. CASE dseg \in Segments /\ seg' = [seg EXCEPT ![dseg].unread = FALSE]
  BY <1>10, HeaderFields
<1>11. QED
  BY <1>2, <1>4, <1>5, <1>6, <1>7, <1>8, <1>9, <1>10, SegSteps

LEMMA ProducerStepType ==
    ASSUME LinkAssumption, ProducerType, NameType, [Next]_vars
    PROVE  ProducerType'
<1> USE DEF ProducerType, Places, Anything
<1>1. CASE CreateBegin \/ CreateFails \/ CreateTruncate \/ CreateMap \/ CreateAssign
  BY <1>1 DEF CreateBegin, CreateFails, CreateTruncate, CreateMap, CreateAssign
<1>2. CASE CreateOpen
  BY <1>2 DEF CreateOpen, Unused
<1>3. ASSUME NEW field \in ptodo, CreateHeader(field) PROVE ProducerType'
  BY <1>3 DEF CreateHeader
<1>4. CASE DestroyBegin \/ Deactivate \/ DestroyUnlink \/ AppEnds
  BY <1>4 DEF DestroyBegin, Deactivate, DestroyUnlink, AppEnds
<1>5. CASE UNCHANGED producer
  BY <1>5 DEF producer
<1>6. CASE Write \/ Driver \/ UNCHANGED vars
  BY <1>5, <1>6 DEF Write, Driver, Callback, ReadBegin, MapSegment, MapFails, Flush,
     CheckActive, CheckHeartbeat, Read, OnStartIO, OnStopIO, DriverDies, vars
<1>7. QED
  BY <1>1, <1>2, <1>3, <1>4, <1>6 DEF Next, Producer

\* A step of the producer other than a write leaves the driver as it is.
LEMMA ProducerLeavesDriver ==
    ASSUME Producer, ~Write
    PROVE  UNCHANGED driver /\ waited' = 0
  BY DEF Producer, ProducerStep, CreateBegin, CreateOpen, CreateFails, CreateTruncate,
     CreateMap, CreateHeader, CreateAssign, DestroyBegin, Deactivate, DestroyUnlink,
     AppEnds

LEMMA CallStep ==
    ASSUME LinkAssumption, CallType, NameType, [Next]_vars PROVE CallType'
<1> USE DEF CallType, NameType, CallbackEnds, Disconnect
<1>1. CASE ReadBegin
  BY <1>1 DEF ReadBegin, TryOpen
<1>2. CASE MapSegment \/ MapFails
  BY <1>2 DEF MapSegment, MapFails
<1>3. CASE Flush
  BY <1>3 DEF Flush
<1>4. CASE CheckActive
  BY <1>4 DEF CheckActive
<1>5. CASE CheckHeartbeat
  BY <1>5 DEF CheckHeartbeat
<1>6. CASE Read
  BY <1>6 DEF Read
<1>7. CASE OnStartIO
  BY <1>7 DEF OnStartIO, TryOpen
<1>8. CASE OnStopIO \/ DriverDies
  BY <1>8 DEF OnStopIO, DriverDies
<1>9. CASE UNCHANGED <<dpc, dcall, dseg>>
  BY <1>9
<1>10. CASE Producer \/ UNCHANGED vars
  BY <1>9, <1>10, ProducerLeavesDriver DEF Write, driver, vars
<1>11. QED
  BY <1>1, <1>2, <1>3, <1>4, <1>5, <1>6, <1>7, <1>8, <1>10 DEF Next, Driver, Callback

LEMMA FlagStep ==
    ASSUME LinkAssumption, FlagType, SegType, CallType, [Next]_vars
    PROVE  FlagType'
<1> USE DEF FlagType, Disconnect
<1>1. CASE Write
  BY <1>1 DEF Write
<1>2. CASE Flush
  <2>1. seg[dseg].beaten \in BOOLEAN
    BY <1>2 DEF Flush, SegType, Header, CallType
  <2>2. io' = io /\ ever' = TRUE /\ news' = seg[dseg].beaten
    BY <1>2 DEF Flush
  <2>3. QED
    BY <2>1, <2>2
<1>3. CASE UNCHANGED <<io, ever, news>>
  BY <1>3
<1>4. CASE ReadBegin \/ MapSegment \/ MapFails \/ Read
  BY <1>3, <1>4 DEF ReadBegin, MapSegment, MapFails, Read
<1>5. CASE CheckActive \/ CheckHeartbeat
  BY <1>5 DEF CheckActive, CheckHeartbeat
<1>6. CASE OnStartIO \/ OnStopIO \/ DriverDies
  BY <1>6 DEF OnStartIO, OnStopIO, DriverDies
<1>7. CASE (Producer /\ ~Write) \/ UNCHANGED vars
  BY <1>3, <1>7, ProducerLeavesDriver DEF driver, vars
<1>8. QED
  BY <1>1, <1>2, <1>4, <1>5, <1>6, <1>7 DEF Next, Driver, Callback

\* What the end of a callback does to the count of missed ones.
LEMMA CallbackEndsCounts ==
    ASSUME CountType, CallbackEnds
    PROVE  /\ waited' \in {0, waited, waited + 1}
           /\ Offered \in {NoSegment, dseg'} => waited' = 0
  BY DEF CallbackEnds, CountType

LEMMA CountStep ==
    ASSUME LinkAssumption, CountType, [Next]_vars PROVE CountType'
<1> USE Numbers, CallbackEndsCounts
<1>1. CASE ReadBegin
  <2>1. countdown' \in {countdown, countdown - 1, FastRetry, SlowRetry} /\ countdown' >= 0
    BY <1>1 DEF ReadBegin, TryOpen, CountType
  <2>2. CallbackEnds \/ waited' = waited
    BY <1>1 DEF ReadBegin, TryOpen
  <2>3. stale' = stale /\ quiet' = quiet
    BY <1>1 DEF ReadBegin
  <2>4. QED
    BY <2>1, <2>2, <2>3 DEF CountType
<1>2. CASE MapSegment \/ MapFails
  BY <1>2 DEF MapSegment, MapFails, CountType
<1>3. CASE Flush
  BY <1>3 DEF Flush, CountType
<1>4. CASE CheckActive
  BY <1>4 DEF CheckActive, Disconnect, CountType
<1>5. CASE CheckHeartbeat
  <2>1. stale' \in {0, stale + 1} /\ quiet' = quiet + 1 /\ countdown' = countdown
    BY <1>5 DEF CheckHeartbeat, Disconnect
  <2>2. CallbackEnds \/ waited' = waited
    BY <1>5 DEF CheckHeartbeat
  <2>3. QED
    BY <2>1, <2>2 DEF CountType
<1>6. CASE Read
  BY <1>6 DEF Read, CountType
<1>7. CASE OnStartIO
  <2>1. stale' = 0 /\ quiet' = quiet /\ countdown' = FastRetry
    BY <1>7 DEF OnStartIO, TryOpen
  <2>2. CallbackEnds \/ waited' = waited
    BY <1>7 DEF OnStartIO, TryOpen
  <2>3. QED
    BY <2>1, <2>2 DEF CountType
<1>8. CASE OnStopIO \/ DriverDies
  BY <1>8 DEF OnStopIO, DriverDies, Disconnect, CountType
<1>9. CASE Write
  BY <1>9 DEF Write, CountType
<1>10. CASE (Producer /\ ~Write) \/ UNCHANGED vars
  BY <1>10, ProducerLeavesDriver DEF driver, vars, CountType
<1>11. QED
  BY <1>1, <1>2, <1>3, <1>4, <1>5, <1>6, <1>7, <1>8, <1>9, <1>10
     DEF Next, Driver, Callback

LEMMA TypeStep == ASSUME LinkAssumption, TypeOK, [Next]_vars PROVE TypeOK'
  BY TypeParts, NameStep, SegStep, ProducerStepType, CallStep, FlagStep, CountStep

----------------------------------------------------------------------------
\* Only the steps of the driver touch what the driver keeps, and they leave
\* the producer as it is.
LEMMA DriverLeavesProducer ==
    ASSUME Driver PROVE UNCHANGED producer /\ name' = name
  BY DEF Driver, Callback, ReadBegin, MapSegment, MapFails, Flush, CheckActive,
     CheckHeartbeat, Read, OnStartIO, OnStopIO, DriverDies

LEMMA WriteLeaves ==
    ASSUME Write
    PROVE  /\ UNCHANGED <<producer, name, waited, dpc, dseg, countdown, stale>>
           /\ pobj \in Segments /\ Offered = pobj
           /\ news' = (news \/ dseg = pobj)
           /\ quiet' = IF dseg = pobj THEN 0 ELSE quiet
  BY DEF Write, Offered

\* No field that makes a header complete is taken back while the segment is
\* in use, the active flag only by its destruction, and only a write or what
\* the driver reads is audio in it.
LEMMA FieldSteps ==
    ASSUME SegType, ProducerType, CallType, [Next]_vars,
           NEW s \in Segments, s \notin Unused
    PROVE  /\ seg[s].sized => seg'[s].sized
           /\ seg[s].capacity => seg'[s].capacity
           /\ seg[s].active => seg'[s].active \/ (Deactivate /\ s = pdead)
           /\ seg'[s].unread => seg[s].unread \/ (Write /\ s = pobj)
<1> USE DEF SegType
<1>1. CASE seg' = seg
  BY <1>1
<1>2. ASSUME NEW t \in Unused, seg' = [seg EXCEPT ![t] = Blank]
      PROVE  seg'[s] = seg[s]
  BY <1>2
<1>3. CASE CreateTruncate /\ seg' = [seg EXCEPT ![pnew].sized = TRUE]
  BY <1>3 DEF Header
<1>4. ASSUME NEW field \in ptodo, CreateHeader(field)
      PROVE  /\ seg[s].sized => seg'[s].sized
             /\ seg[s].capacity => seg'[s].capacity
             /\ seg[s].active => seg'[s].active
             /\ seg'[s].unread => seg[s].unread
  <2>1. field \in {"capacity", "active"} /\ seg' = [seg EXCEPT ![pnew][field] = TRUE]
    BY <1>4 DEF CreateHeader, ProducerType
  <2>2. QED
    BY <2>1 DEF Header
<1>5. CASE Deactivate /\ seg' = [seg EXCEPT ![pdead].active = FALSE]
  BY <1>5 DEF Header
<1>6. CASE Write
  <2>1. pobj \in Segments
    BY <1>6, WriteLeaves
  <2>2. seg' = [seg EXCEPT ![pobj].beaten = TRUE, ![pobj].unread = TRUE]
    BY <1>6 DEF Write
  <2>3. QED
    BY <1>6, <2>1, <2>2 DEF Header
<1>7. CASE \/ /\ dseg \in Segments /\ seg[dseg].unread
              /\ seg' = [seg EXCEPT ![dseg].unread = TRUE]
           \/ /\ dseg \in Segments
              /\ seg' = [seg EXCEPT ![dseg].unread = FALSE]
  <2>1. CASE s = dseg
    BY <1>7, <2>1 DEF Header
  <2>2. CASE s # dseg
    BY <1>7, <2>2
  <2>3. QED
    BY <2>1, <2>2
<1>8. CASE \E t \in Unused : seg' = [seg EXCEPT ![t] = Blank]
  BY <1>2, <1>8
<1>9. CASE \E field \in ptodo : CreateHeader(field)
  BY <1>4, <1>9
<1>10. QED
  BY <1>1, <1>3, <1>5, <1>6, <1>7, <1>8, <1>9, SegSteps

LEMMA HeadersStep ==
    ASSUME LinkAssumption, TypeOK, HeadersComplete, [Next]_vars
    PROVE  HeadersComplete'
<1>0. SegType /\ ProducerType /\ CallType
  BY TypeParts
<1>1. \A s \in Segments \cap {pobj, pnew} :
          /\ seg[s].sized => seg'[s].sized
          /\ seg[s].capacity => seg'[s].capacity
  BY <1>0, FieldSteps DEF Unused
<1> USE DEF HeadersComplete, ProducerType
<1>2. CASE CreateBegin \/ CreateFails \/ DestroyBegin \/ Deactivate
             \/ DestroyUnlink \/ AppEnds
  BY <1>0, <1>1, <1>2, Numbers DEF CreateBegin, CreateFails, DestroyBegin,
     Deactivate, DestroyUnlink, AppEnds
<1>3. CASE CreateOpen
  BY <1>0, <1>1, <1>3, Numbers DEF CreateOpen, Unused
<1>4. CASE CreateTruncate
  <2>1. pnew \in Segments /\ seg'[pnew].sized
    BY <1>0, <1>4 DEF CreateTruncate, SegType, Header
  <2>2. QED
    BY <1>0, <1>1, <1>4, <2>1 DEF CreateTruncate
<1>5. CASE CreateMap
  BY <1>0, <1>1, <1>5 DEF CreateMap
<1>6. ASSUME NEW field \in ptodo, CreateHeader(field) PROVE HeadersComplete'
  <2>1. /\ pnew \in Segments /\ seg[pnew].sized /\ field \in {"capacity", "active"}
        /\ seg' = [seg EXCEPT ![pnew][field] = TRUE]
        /\ ppc = "header" /\ ppc' \in {"header", "assign"}
        /\ ppc' = "assign" => ptodo' = {}
        /\ ptodo' = ptodo \ {field} /\ pnew' = pnew /\ pobj' = pobj
    BY <1>0, <1>6 DEF CreateHeader
  <2>2. "capacity" \notin ptodo' => seg'[pnew].capacity
    <3>1. CASE field = "capacity"
      BY <1>0, <2>1, <3>1 DEF SegType, Header
    <3>2. CASE field # "capacity"
      BY <1>1, <2>1, <3>2
    <3>3. QED
      BY <3>1, <3>2
  <2>3. QED
    BY <1>1, <2>1, <2>2
<1>7. CASE CreateAssign
  BY <1>0, <1>1, <1>7 DEF CreateAssign
<1>8. CASE UNCHANGED producer
  BY <1>0, <1>1, <1>8 DEF producer
<1>9. QED
  BY <1>2, <1>3, <1>4, <1>5, <1>6, <1>7, <1>8, WriteLeaves, DriverLeavesProducer
     DEF Next, Producer, vars

LEMMA ActiveStep ==
    ASSUME LinkAssumption, TypeOK, ActiveOnOffer, [Next]_vars
    PROVE  ActiveOnOffer'
<1>0. SegType /\ ProducerType /\ CallType
  BY TypeParts
<1>1. \A s \in Segments \cap {pobj, pnew} :
          seg[s].active => seg'[s].active \/ (Deactivate /\ s = pdead)
  BY <1>0, FieldSteps DEF Unused
<1> USE DEF ActiveOnOffer, ProducerType
<1>2. CASE CreateBegin \/ CreateFails \/ CreateTruncate \/ CreateMap
             \/ DestroyBegin \/ DestroyUnlink \/ AppEnds
  BY <1>0, <1>1, <1>2, Numbers DEF CreateBegin, CreateFails, CreateTruncate, CreateMap,
     DestroyBegin, Deactivate, DestroyUnlink, AppEnds
<1>3. CASE Deactivate
  <2>1. ppc' = "unlink" /\ UNCHANGED <<pobj, pnew, pdead, ptodo>>
    BY <1>3 DEF Deactivate
  <2>2. QED
    BY <1>0, <1>1, <2>1
<1>4. CASE CreateOpen
  <2>1. /\ pnew' \in Segments => pnew' \in Unused
        /\ ppc' = "truncate" \/ pnew' \notin Segments
        /\ ppc' # "header" /\ UNCHANGED <<pobj, pdead>>
    BY <1>4, Numbers DEF CreateOpen
  <2>2. ~Deactivate
    BY <1>4 DEF CreateOpen, Deactivate
  <2>3. QED
    BY <1>0, <1>1, <2>1, <2>2 DEF Unused
<1>5. ASSUME NEW field \in ptodo, CreateHeader(field) PROVE ActiveOnOffer'
  <2>1. /\ pnew \in Segments /\ field \in {"capacity", "active"}
        /\ seg' = [seg EXCEPT ![pnew][field] = TRUE]
        /\ ppc = "header" /\ ppc' \in {"header", "assign"}
        /\ ppc' = "assign" => ptodo' = {}
        /\ ptodo' = ptodo \ {field} /\ UNCHANGED <<pnew, pobj, pdead>>
    BY <1>0, <1>5 DEF CreateHeader
  <2>2. ~Deactivate
    BY <2>1 DEF Deactivate
  <2>3. "active" \notin ptodo' => seg'[pnew].active
    <3>1. CASE field = "active"
      BY <1>0, <2>1, <3>1 DEF SegType, Header
    <3>2. CASE field # "active"
      BY <1>1, <2>1, <2>2, <3>2
    <3>3. QED
      BY <3>1, <3>2
  <2>4. QED
    BY <1>1, <2>1, <2>2, <2>3
<1>6. CASE CreateAssign
  BY <1>0, <1>1, <1>6, Numbers DEF CreateAssign, Deactivate
<1>7. CASE UNCHANGED producer /\ ~Deactivate
  BY <1>0, <1>1, <1>7 DEF producer
<1>8. CASE Write \/ Driver \/ UNCHANGED vars
  <2>1. UNCHANGED producer
    BY <1>8, WriteLeaves, DriverLeavesProducer DEF vars
  <2>2. ~Deactivate
    BY <2>1 DEF Deactivate, producer
  <2>3. QED
    BY <1>7, <2>1, <2>2
<1>9. QED
  BY <1>2, <1>3, <1>4, <1>5, <1>6, <1>8 DEF Next, Producer

\* Every segment: unread audio is in a complete header.
LEMMA CapacityStep ==
    ASSUME LinkAssumption, TypeOK, HeadersComplete, AudioHasCapacity, [Next]_vars
    PROVE  AudioHasCapacity'
<1>0. SegType /\ ProducerType /\ CallType
  BY TypeParts
<1> SUFFICES ASSUME NEW s \in Segments, seg'[s].unread PROVE seg'[s].capacity
  BY DEF AudioHasCapacity
<1>1. CASE s \notin Unused
  BY <1>0, <1>1, FieldSteps DEF AudioHasCapacity, HeadersComplete
<1>2. CASE s \in Unused
  <2> USE DEF SegType, Header
  <2>1. s \notin {pnew, pdead, pobj, dseg}
    BY <1>2 DEF Unused
  <2>2. seg'[s] = seg[s] \/ seg'[s] = Blank
    <3>1. CASE \E t \in Unused : seg' = [seg EXCEPT ![t] = Blank]
      BY <1>0, <3>1
    <3>2. ASSUME NEW field \in ptodo, CreateHeader(field) PROVE seg'[s] = seg[s]
      BY <1>0, <2>1, <3>2 DEF CreateHeader
    <3>3. CASE Write
      BY <1>0, <2>1, <3>3 DEF Write
    <3>4. CASE \/ seg' = [seg EXCEPT ![dseg].unread = TRUE]
               \/ seg' = [seg EXCEPT ![dseg].unread = FALSE]
      BY <1>0, <2>1, <3>4
    <3>5. CASE seg' = seg \/ seg' = [seg EXCEPT ![pnew].sized = TRUE]
                 \/ seg' = [seg EXCEPT ![pdead].active = FALSE]
      BY <1>0, <2>1, <3>5
    <3>6. CASE \E field \in ptodo : CreateHeader(field)
      BY <3>2, <3>6
    <3>7. QED
      BY <1>0, <3>1, <3>3, <3>4, <3>5, <3>6, SegSteps
  <2>3. seg'[s] = seg[s]
    BY <2>2 DEF Blank
  <2>4. QED
    BY <2>3 DEF AudioHasCapacity
<1>3. QED
  BY <1>1, <1>2

----------------------------------------------------------------------------
\* An application that destroys before it creates keeps the name at its ring.
LEMMA NameLeadsStep ==
    ASSUME LinkAssumption, Recreate = FALSE, TypeOK, NameLeads, [Next]_vars
    PROVE  NameLeads'
<1>0. ProducerType
  BY TypeParts
<1> USE DEF NameLeads, ProducerType
<1>1. CASE CreateBegin \/ CreateFails \/ CreateTruncate \/ CreateMap \/ CreateAssign
  BY <1>0, <1>1, Numbers
     DEF CreateBegin, CreateFails, CreateTruncate, CreateMap, CreateAssign, Unlink
<1>2. CASE CreateOpen
  BY <1>0, <1>2, Numbers DEF CreateOpen
<1>3. ASSUME NEW field \in ptodo, CreateHeader(field) PROVE NameLeads'
  BY <1>0, <1>3 DEF CreateHeader
<1>4. CASE DestroyBegin \/ Deactivate \/ DestroyUnlink \/ AppEnds
  BY <1>0, <1>4, Numbers DEF DestroyBegin, Deactivate, DestroyUnlink, AppEnds, Unlink
<1>5. CASE UNCHANGED producer /\ name' = name
  BY <1>5 DEF producer
<1>6. QED
  BY <1>1, <1>2, <1>3, <1>4, <1>5, WriteLeaves, DriverLeavesProducer
     DEF Next, Producer, vars

LEMMA LeadsToOffer == ASSUME NameLeads PROVE OfferedIsNamed
  BY DEF NameLeads, OfferedIsNamed, Offered

----------------------------------------------------------------------------
\* The outcomes of TryOpen.
LEMMA TryOpenSteps ==
    ASSUME NEW count \in Nat, NEW before \in BOOLEAN, TryOpen(count, before)
    PROVE  \/ /\ count > 0 /\ countdown' = count - 1
              /\ dseg' = NoSegment /\ CallbackEnds
           \/ /\ count = 0 /\ countdown' \in {FastRetry, SlowRetry}
              /\ dseg' = name /\ name = NoSegment /\ CallbackEnds
           \/ /\ count = 0 /\ countdown' \in {FastRetry, SlowRetry}
              /\ dseg' = name /\ name # NoSegment
              /\ dpc' = "map" /\ waited' = waited
  BY DEF TryOpen

LEMMA OpensAtOnce ==
    ASSUME TryOpen(0, FALSE)
    PROVE  /\ countdown' = FastRetry /\ dseg' = name
           /\ \/ name = NoSegment /\ CallbackEnds
              \/ name # NoSegment /\ dpc' = "map" /\ waited' = waited
  BY DEF TryOpen

LEMMA CountersStep ==
    ASSUME LinkAssumption, TypeOK, CountersSound, [Next]_vars
    PROVE  CountersSound'
<1>0. /\ CallType /\ FlagType /\ CountType
      /\ countdown \in Nat /\ stale \in Nat /\ quiet \in Nat
  BY TypeParts DEF CountType
<1> USE Numbers DEF CountersSound, Connected, CallbackEnds
<1>1. CASE ReadBegin
  <2>1. CASE dseg = NoSegment
    <3>1. TryOpen(countdown, ever) /\ UNCHANGED <<stale, news, quiet>>
      BY <1>1, <2>1 DEF ReadBegin
    <3>2. QED
      BY <1>0, <2>1, <3>1, TryOpenSteps DEF FlagType
  <2>2. CASE dseg # NoSegment
    <3>1. dpc = "idle" /\ dpc' = "active"
          /\ UNCHANGED <<countdown, dseg, stale, news, quiet>>
      BY <1>1, <2>2 DEF ReadBegin
    <3>2. QED
      BY <2>2, <3>1
  <2>3. QED
    BY <2>1, <2>2
<1>2. CASE OnStartIO
  <2>1. TryOpen(0, FALSE) /\ stale' = 0 /\ quiet' = quiet
    BY <1>2 DEF OnStartIO
  <2>2. QED
    BY <1>0, <2>1, OpensAtOnce
<1>3. CASE OnStopIO \/ DriverDies
  BY <1>3 DEF OnStopIO, DriverDies, Disconnect
<1>4. CASE MapSegment \/ MapFails
  BY <1>0, <1>4 DEF MapSegment, MapFails, CallType
<1>5. CASE Flush
  BY <1>0, <1>5 DEF Flush, CallType
<1>6. CASE CheckActive
  BY <1>0, <1>6 DEF CheckActive, Disconnect, CallType
<1>7. CASE CheckHeartbeat
  BY <1>0, <1>7 DEF CheckHeartbeat, Disconnect, CallType, FlagType
<1>8. CASE Read
  BY <1>0, <1>8 DEF Read, CallType
<1>9. CASE Write
  <2>1. UNCHANGED <<dpc, dseg, countdown, stale>> /\ (~news' => ~news /\ quiet' = quiet)
    BY <1>9, WriteLeaves DEF Write
  <2>2. QED
    BY <2>1
<1>10. CASE (Producer /\ ~Write) \/ UNCHANGED vars
  BY <1>10, ProducerLeavesDriver DEF driver, vars
<1>11. QED
  BY <1>1, <1>2, <1>3, <1>4, <1>5, <1>6, <1>7, <1>8, <1>9, <1>10
     DEF Next, Driver, Callback

----------------------------------------------------------------------------
\* A retry interval fits into the bound.
LEMMA RetryWithin ==
    ASSUME LinkAssumption, NEW k \in Nat, k <= FastRetry \/ k <= SlowRetry
    PROVE  Within(k) /\ Within(1 + k)
  BY Numbers DEF Within

LEMMA SmallWithin == ASSUME LinkAssumption PROVE Within(0) /\ Within(1)
  BY Numbers DEF Within

LEMMA ZeroWaits ==
    ASSUME NEW k \in Nat, NEW b
    PROVE  0 <= (IF b THEN 0 ELSE 1 + k) /\ 0 <= (IF b THEN 1 ELSE 2 + k)
<1>1. CASE b
  BY <1>1
<1>2. CASE ~b
  BY <1>2
<1>3. QED
  BY <1>1, <1>2

LEMMA WaitStep ==
    ASSUME LinkAssumption, TypeOK, TypeOK', HeadersComplete, NameLeads,
           CountersSound, CountersSound', WaitSound, [Next]_vars
    PROVE  WaitSound'
<1>0. /\ CallType /\ FlagType /\ CountType /\ ProducerType
      /\ countdown \in Nat /\ stale \in Nat /\ waited \in Nat
      /\ countdown' \in Nat /\ stale' \in Nat /\ CountType'
  BY TypeParts DEF CountType
<1>1. Offered # NoSegment => name = Offered /\ Offered \in Segments /\ seg[Offered].sized
  BY DEF NameLeads, HeadersComplete, Offered
<1>2. Within(countdown') /\ Within(1 + countdown') /\ Within(0) /\ Within(1)
  BY <1>0, RetryWithin, SmallWithin DEF CountersSound
<1>3. CASE waited' = 0
  <2>1. Within(waited' + countdown') /\ Within(waited')
    BY <1>0, <1>2, <1>3
  <2>2. /\ waited' <= IF news' THEN 0 ELSE 1 + stale'
        /\ waited' <= IF news' THEN 1 ELSE 2 + stale'
    BY <1>0, <1>3, ZeroWaits DEF FlagType
  <2>3. QED
    BY <1>3, <2>1, <2>2 DEF WaitSound
<1>4. CASE UNCHANGED <<Offered, waited, dseg, dpc, countdown, stale, news>>
  BY <1>4 DEF WaitSound, Connected
<1>5. CASE Write
  <2>1. /\ Offered' = Offered /\ Offered = pobj
        /\ UNCHANGED <<waited, dpc, dseg, countdown, stale>>
        /\ news' = (news \/ dseg = pobj)
    BY <1>5, WriteLeaves DEF Offered, producer
  <2>2. dseg # Offered => news' = news
    BY <1>0, <2>1 DEF FlagType
  <2>3. QED
    BY <2>1, <2>2 DEF WaitSound, Connected
<1>6. ASSUME Driver, Offered # NoSegment, waited' # 0
      PROVE  WaitSound'
  <2> USE DEF Connected, WaitSound
  <2>0. Offered' = Offered /\ UNCHANGED producer
    BY <1>6, DriverLeavesProducer DEF Offered, producer
  <2>1. CallbackEnds => waited' \in {waited, waited + 1} /\ dseg' # Offered /\ dpc' = "idle"
    BY <1>0, <1>6, CallbackEndsCounts DEF CallbackEnds
  <2>2. CASE ReadBegin
    <3>1. CASE dseg = NoSegment
      <4>1. TryOpen(countdown, ever)
        BY <2>2, <3>1 DEF ReadBegin
      <4>2. \/ countdown' = countdown - 1 /\ dseg' = NoSegment /\ CallbackEnds
            \/ dseg' = name /\ dpc' = "map" /\ waited' = waited
        BY <1>0, <1>1, <1>6, <4>1, TryOpenSteps DEF FlagType
      <4>3. CASE countdown' = countdown - 1 /\ dseg' = NoSegment /\ CallbackEnds
        <5>1. dseg' = NoSegment /\ ~Connected' /\ Within(waited + countdown)
          BY <1>6, <3>1, <4>3
        <5>2. waited' + countdown' \in {waited + countdown - 1, waited + countdown}
          BY <1>0, <2>1, <4>3
        <5>3. Within(waited' + countdown')
          BY <1>0, <5>1, <5>2, Numbers DEF Within
        <5>4. QED
          BY <1>6, <2>0, <5>1, <5>3
      <4>4. CASE dseg' = name /\ dpc' = "map" /\ waited' = waited
        <5>1. dseg' = Offered /\ ~Connected' /\ Within(waited + countdown)
          BY <1>1, <1>6, <3>1, <4>4
        <5>2. Within(waited')
          BY <1>0, <4>4, <5>1, Numbers DEF Within
        <5>3. QED
          BY <1>1, <1>6, <2>0, <5>1, <5>2, Numbers
      <4>5. QED
        BY <4>2, <4>3, <4>4
    <3>2. CASE dseg # NoSegment
      <4>1. dpc = "idle" /\ dpc' = "active"
            /\ UNCHANGED <<countdown, dseg, waited, stale, news>>
        BY <2>2, <3>2 DEF ReadBegin
      <4>2. QED
        BY <1>0, <1>6, <2>0, <3>2, <4>1
    <3>3. QED
      BY <3>1, <3>2
  <2>3. CASE OnStartIO
    <3>1. TryOpen(0, FALSE) /\ dpc = "idle"
      BY <2>3 DEF OnStartIO
    <3>2. dseg' = name /\ dpc' = "map" /\ waited' = waited
      BY <1>1, <1>6, <3>1, OpensAtOnce
    <3>3. Within(waited)
      BY <1>0, <1>6, <3>1, Numbers DEF Within, CallType, CountersSound
    <3>4. QED
      BY <1>0, <1>1, <1>6, <2>0, <3>2, <3>3
  <2>4. CASE OnStopIO \/ DriverDies
    BY <1>6, <2>4 DEF OnStopIO, DriverDies
  <2>5. CASE MapSegment
    <3>1. CASE seg[dseg].sized /\ dpc' = "flush" /\ UNCHANGED <<dseg, waited>>
      BY <1>0, <1>6, <2>0, <2>5, <3>1 DEF MapSegment
    <3>2. CASE ~seg[dseg].sized /\ dseg' = NoSegment /\ CallbackEnds
      <4>1. dseg # Offered /\ dseg # NoSegment /\ dpc = "map"
        BY <1>0, <1>1, <1>6, <2>5, <3>2, Numbers DEF MapSegment, CallType
      <4>2. waited = 0
        BY <1>6, <4>1
      <4>3. QED
        BY <1>0, <1>2, <1>6, <2>0, <2>1, <3>2, <4>2, Numbers
    <3>3. QED
      BY <2>5, <3>1, <3>2 DEF MapSegment
  <2>6. CASE MapFails
    BY <1>6, <2>6 DEF MapFails
  <2>7. CASE Flush
    <3>1. dpc = "flush" /\ dseg' = dseg /\ dseg \in Segments /\ dseg # NoSegment
      BY <1>0, <2>7, Numbers DEF Flush, CallType
    <3>2. dseg # Offered
      BY <1>6, <2>1, <2>7, <3>1 DEF Flush
    <3>3. waited = 0
      BY <1>6, <3>1, <3>2
    <3>4. CallbackEnds
      BY <1>6, <2>7, <3>1, <3>2, <3>3 DEF Flush
    <3>5. waited' = 1 /\ dpc' = "idle"
      BY <1>0, <1>6, <2>1, <3>3, <3>4
    <3>6. stale' = stale
      BY <2>7 DEF Flush
    <3>7. QED
      BY <1>0, <1>2, <1>6, <2>0, <3>1, <3>2, <3>5, <3>6
  <2>8. CASE CheckActive \/ CheckHeartbeat
    <3>1. /\ dpc \in {"active", "beat"} /\ dseg # NoSegment
          /\ stale < StaleThreshold /\ countdown = 0 /\ countdown' = 0
      BY <1>0, <2>8, Numbers DEF CheckActive, CheckHeartbeat, CallType, CountersSound
    <3>2. waited <= IF news THEN 1 ELSE 2 + stale
      BY <1>0, <1>6, <3>1
    <3>3. CASE dseg' = NoSegment /\ CallbackEnds
      BY <1>0, <1>6, <2>0, <2>1, <3>1, <3>2, <3>3, Numbers DEF Within
    <3>4. CASE CheckActive /\ dpc' = "beat" /\ UNCHANGED <<dseg, stale, news, waited>>
      BY <1>0, <1>6, <2>0, <3>1, <3>4
    <3>5. CASE CheckHeartbeat /\ dpc' = "read" /\ UNCHANGED <<dseg, waited>>
      <4>1. IF news THEN news' = FALSE /\ stale' = 0
                    ELSE news' = news /\ stale' = stale + 1
        <5>1. CASE news
          BY <3>5, <5>1 DEF CheckHeartbeat
        <5>2. CASE ~news
          BY <3>1, <3>5, <5>2 DEF CheckHeartbeat, CallbackEnds
        <5>3. QED
          BY <5>1, <5>2
      <4>2. dseg # Offered
        BY <1>6, <3>1, <3>5
      <4>3. CASE news
        BY <1>0, <1>6, <2>0, <3>1, <3>2, <3>5, <4>1, <4>2, <4>3
      <4>4. CASE ~news
        BY <1>0, <1>6, <2>0, <3>1, <3>2, <3>5, <4>1, <4>2, <4>4
      <4>5. QED
        BY <4>3, <4>4
    <3>6. CASE CheckActive
      BY <3>3, <3>4, <3>6 DEF CheckActive, Disconnect
    <3>7. CASE CheckHeartbeat
      BY <3>3, <3>5, <3>7 DEF CheckHeartbeat, Disconnect
    <3>8. QED
      BY <2>8, <3>6, <3>7
  <2>9. CASE Read
    <3>1. /\ dpc = "read" /\ dseg' = dseg /\ CallbackEnds /\ dseg # NoSegment
          /\ UNCHANGED <<stale, news>>
      BY <1>0, <2>9, Numbers DEF Read, CallType
    <3>2. waited <= IF news THEN 0 ELSE 1 + stale
      BY <1>0, <1>6, <2>1, <3>1
    <3>3. QED
      BY <1>0, <1>6, <2>0, <2>1, <3>1, <3>2
  <2>10. QED
    BY <1>6, <2>2, <2>3, <2>4, <2>5, <2>6, <2>7, <2>8, <2>9 DEF Driver, Callback
<1>7. ASSUME Driver, Offered = NoSegment PROVE waited' = 0
  <2>1. waited = 0
    BY <1>7 DEF WaitSound
  <2>2. CallbackEnds => waited' = 0
    BY <1>0, <1>7, CallbackEndsCounts
  <2>3. CASE CallbackEnds \/ waited' = waited \/ waited' = 0
    BY <2>1, <2>2, <2>3
  <2>4. QED
    BY <1>7, <2>1, <2>3 DEF Driver, Callback, ReadBegin, TryOpen, MapSegment, MapFails,
       Flush, CheckActive, CheckHeartbeat, Read, OnStartIO, OnStopIO, DriverDies
<1>8. CASE Driver
  BY <1>3, <1>6, <1>7, <1>8
<1>9. CASE Producer /\ ~Write
  BY <1>3, <1>9, ProducerLeavesDriver
<1>10. CASE UNCHANGED vars
  BY <1>4, <1>10 DEF vars, Offered, producer, driver
<1>11. QED
  BY <1>5, <1>8, <1>9, <1>10 DEF Next

----------------------------------------------------------------------------
\* Types, headers, counters and the audio's capacity: the invariant that needs
\* nothing of the application.
LinkInv == /\ TypeOK /\ HeadersComplete /\ ActiveOnOffer
           /\ CountersSound /\ AudioHasCapacity

LEMMA InitState ==
    ASSUME LinkAssumption, Init PROVE LinkInv /\ NameLeads /\ WaitSound
<1> USE Numbers DEF Init
<1>1. NameType /\ FlagType /\ CountType
  BY DEF NameType, FlagType, CountType
<1>2. SegType
  BY DEF SegType, Header, Blank
<1>3. ProducerType
  BY DEF ProducerType, Places, Anything
<1>4. CallType
  BY DEF CallType
<1>5. HeadersComplete /\ ActiveOnOffer /\ NameLeads
  BY DEF HeadersComplete, ActiveOnOffer, NameLeads
<1>6. CountersSound
  BY DEF CountersSound, Connected
<1>7. AudioHasCapacity
  BY DEF AudioHasCapacity, Blank
<1>8. WaitSound
  BY DEF WaitSound, Offered
<1>9. QED
  BY <1>1, <1>2, <1>3, <1>4, <1>5, <1>6, <1>7, <1>8, TypeParts DEF LinkInv

LEMMA LinkStep == ASSUME LinkAssumption, LinkInv, [Next]_vars PROVE LinkInv'
  BY TypeStep, HeadersStep, ActiveStep, CountersStep, CapacityStep DEF LinkInv

\* The inductive invariant of the link that holds whatever the application does.
THEOREM LinkInvariant == ASSUME LinkAssumption PROVE Spec => []LinkInv
<1>1. Init => LinkInv
  BY InitState
<1>2. LinkInv /\ [Next]_vars => LinkInv'
  BY LinkStep
<1>3. QED
  BY <1>1, <1>2, PTL DEF Spec

\* SharedRingBuffer, noise_bridge.cpp, io_handler.cpp: every step of a call that
\* uses a segment has one, for any number of segments, whatever fails or crashes.
THEOREM LinkTypes == ASSUME LinkAssumption PROVE Spec => []TypeOK
<1>1. LinkInv => TypeOK
  BY DEF LinkInv
<1>2. QED
  BY <1>1, LinkInvariant, PTL

\* read(): the driver finds audio only in a ring whose capacity is stored, even
\* though the header's stores reach it in any order and rings are replaced.
THEOREM LinkAudioHasCapacity ==
    ASSUME LinkAssumption PROVE Spec => []AudioHasCapacity
<1>1. LinkInv => AudioHasCapacity
  BY DEF LinkInv
<1>2. QED
  BY <1>1, LinkInvariant, PTL

\* OnReadClientInput(): for every threshold, a ring given up as stale had no beat
\* for that many tests, across reconnections and restarts of IO, and a ring on
\* offer is given up for no other reason.
THEOREM LinkDropsOnlySilent == ASSUME LinkAssumption PROVE Spec => OnlySilentIsDropped
<1> DEFINE Dropped == /\ dpc # "idle" /\ io'
                      /\ \/ dpc = "beat" /\ dpc' = "idle"
                         \/ /\ Offered \in Segments /\ Attached(Offered)
                            /\ dseg' = NoSegment
<1>1. LinkInv /\ [Next]_vars => [Dropped => quiet' >= StaleThreshold]_vars
  <2> SUFFICES ASSUME LinkInv, [Next]_vars, Dropped PROVE quiet' >= StaleThreshold
    OBVIOUS
  <2>0. /\ stale \in Nat /\ quiet \in Nat /\ dseg \in Segments /\ CountersSound
        /\ NoSegment \notin Segments
    BY TypeParts, Numbers DEF LinkInv, CountType, CallType
  <2>1. CASE CheckHeartbeat
    <3>1. ~news /\ stale + 1 >= StaleThreshold /\ quiet' = quiet + 1
      BY <2>0, <2>1 DEF CheckHeartbeat
    <3>2. stale <= quiet
      BY <2>0, <2>1, <3>1 DEF CountersSound, Connected, CheckHeartbeat
    <3>3. QED
      BY <2>0, <3>1, <3>2, Numbers
  <2>2. CASE CheckActive
    <3>1. Offered \in Segments /\ dseg = Offered /\ dseg' = NoSegment
      BY <2>2 DEF CheckActive, Attached
    <3>2. seg[dseg].active
      BY <2>0, <3>1 DEF LinkInv, ActiveOnOffer, Offered
    <3>3. QED
      BY <2>0, <2>2, <3>1, <3>2 DEF CheckActive
  <2>3. ~(Producer /\ ~Write) /\ ~Write /\ ~UNCHANGED vars
    BY <2>0, ProducerLeavesDriver, WriteLeaves DEF driver, vars
  <2>4. QED
    BY <2>0, <2>1, <2>2, <2>3 DEF Next, Driver, Callback, ReadBegin, MapSegment,
       MapFails, Flush, Read, OnStartIO, OnStopIO, DriverDies, Attached
<1>2. QED
  BY <1>1, LinkInvariant, PTL DEF Spec, OnlySilentIsDropped

\* noise_shm_create(), noise_shm_destroy(): an application that destroys before
\* it creates offers its ring under the name, whatever failed, crashed or was
\* left behind before; and the driver finds it within the longest of the stale
\* count and the two retry intervals, for all values of the three.
THEOREM LinkNameAndWait ==
    ASSUME LinkAssumption, Recreate = FALSE
    PROVE  Spec => [](LinkInv /\ NameLeads /\ WaitSound)
<1>1. Init => LinkInv /\ NameLeads /\ WaitSound
  BY InitState
<1>2. LinkInv /\ NameLeads /\ WaitSound /\ [Next]_vars
          => LinkInv' /\ NameLeads' /\ WaitSound'
  BY LinkStep, NameLeadsStep, WaitStep DEF LinkInv
<1>3. QED
  BY <1>1, <1>2, PTL DEF Spec

\* noise_shm_create() and the constructor: a ring on offer has the name.
THEOREM LinkOfferedIsNamed ==
    ASSUME LinkAssumption, Recreate = FALSE PROVE Spec => []OfferedIsNamed
<1>1. NameLeads => OfferedIsNamed
  BY LeadsToOffer
<1>2. QED
  BY <1>1, LinkNameAndWait, PTL

\* ensureConnected(), OnReadClientInput(): the driver finds a ring on offer within
\* the stale count and two callbacks, or one callback and a retry interval.
THEOREM LinkReconnectBound ==
    ASSUME LinkAssumption, Recreate = FALSE PROVE Spec => []ReconnectBound
<1>1. LinkInv /\ WaitSound => ReconnectBound
  <2> SUFFICES ASSUME LinkInv, WaitSound PROVE Within(waited)
    BY DEF ReconnectBound, Within
  <2>1. /\ waited \in Nat /\ countdown \in Nat /\ stale \in Nat
        /\ stale < StaleThreshold
    BY TypeParts DEF LinkInv, CountType, CountersSound
  <2>2. Within(0)
    BY SmallWithin
  <2>3. CASE Offered = NoSegment \/ waited = 0
    BY <2>2, <2>3 DEF WaitSound
  <2>4. CASE dseg = NoSegment
    BY <2>1, <2>3, <2>4, Numbers DEF WaitSound, Within
  <2>5. CASE dseg = Offered
    BY <2>3, <2>5 DEF WaitSound
  <2>6. CASE Offered # NoSegment /\ dseg \notin {Offered, NoSegment}
    <3>1. waited <= 2 + stale
      <4>1. CASE news
        BY <2>1, <2>6, <4>1 DEF WaitSound
      <4>2. CASE ~news
        BY <2>1, <2>6, <4>2 DEF WaitSound
      <4>3. QED
        BY <4>1, <4>2
    <3>2. QED
      BY <2>1, <3>1, Numbers DEF Within
  <2>7. QED
    BY <2>3, <2>4, <2>5, <2>6
<1>2. QED
  BY <1>1, LinkNameAndWait, PTL
==========================================================================
