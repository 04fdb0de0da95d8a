------------------------- MODULE OwnBeaconStoreProofs -------------------------
(***************************************************************************)
(* Proofs about live location sharing, for every set of rooms and every    *)
(* value of the bounds.                                                    *)
(***************************************************************************)
EXTENDS OwnBeaconStore, TLAPS

(* Type correctness: every variable of the store, of its calls and of the  *)
(* homeserver keeps its type, whatever answers, events and errors come.    *)
THEOREM TypeCorrect == Spec => []TypeOK
(* What checkLiveness leaves in the variables it sets. *)
<1>CheckType.
      ASSUME MemoryType, CheckLiveness
      PROVE  /\ liveBeaconIds' \subseteq Rooms /\ watching' \in BOOLEAN /\ locating' \in BOOLEAN
             /\ lastPublished' \in Taken /\ debounced' \in Taken
  BY <1>CheckType DEF MemoryType, CheckLiveness, LiveHere, StartPollingLocation, StopPollingLocation, Taken
(* A call of stopBeacon is one of the known kinds. *)
<1>StopCallsType.
      ASSUME NEW rooms \in SUBSET Rooms, NEW by \in {"user", "expiry", "denial", "create"}
      PROVE  StopCalls(rooms, by) \subseteq StopCall
  <2> USE <1>StopCallsType
  <2>1. \A x \in StopCalls(rooms, by) : \E r \in rooms : x = [room |-> r, by |-> by, done |-> FALSE]
    BY DEF StopCalls
  <2>2. \A r \in rooms : [room |-> r, by |-> by, done |-> FALSE] \in StopCall
    BY DEF StopCall
  <2> QED BY <2>1, <2>2
(* Whatever is counted stays within its bound. *)
<1>OnceType. ASSUME CountType, NEW k \in Bounded, Once(k) PROVE CountType'
  <2> USE <1>OnceType
  <2>1. count \in [Bounded -> Nat] /\ \A j \in Bounded : count[j] <= Bound[j]
    BY DEF CountType
  <2>2. \A j \in Bounded : Bound[j] \in Nat
    BY BeaconAssumption DEF Bounded, Bound
  <2>3. count[k] < Bound[k] /\ count' = [count EXCEPT ![k] = @ + 1]
    BY DEF Once
  <2>4. count' \in [Bounded -> Nat]
    BY <2>1, <2>3
  <2>5. \A j \in Bounded : count'[j] <= Bound[j]
    BY <2>1, <2>2, <2>3
  <2> QED BY <2>4, <2>5 DEF CountType, Bounded, Bound
(* A new beacon_info gets an id of its own. *)
<1>HasEventType. ASSUME EventType, NEW r \in Rooms, NEW b \in BOOLEAN, HasEvent(r, b)
                 PROVE  /\ n' \in Id /\ n' = n + 1 /\ n + 1 \in Id
                        /\ server' \in [Rooms -> Info] /\ timeline' \in [Rooms -> Seq(Info)]
  <2> USE <1>HasEventType
  <2>1. n \in Id /\ n < MaxEvents /\ n' = n + 1 /\ MaxEvents \in Nat
    BY BeaconAssumption DEF EventType, HasEvent
  <2>2. n + 1 \in Id
    BY <2>1 DEF Id
  <2>3. [id |-> n + 1, live |-> b] \in Info
    BY <2>2 DEF Info
  <2>4. server' = [server EXCEPT ![r] = [id |-> n + 1, live |-> b]] /\ server \in [Rooms -> Info]
    BY DEF EventType, HasEvent
  <2>5. server' \in [Rooms -> Info] /\ server'[r] \in Info
    BY <2>3, <2>4
  <2>6. timeline \in [Rooms -> Seq(Info)] /\ timeline' = [timeline EXCEPT ![r] = Append(@, server'[r])]
    BY DEF EventType, HasEvent
  <2>7. timeline' \in [Rooms -> Seq(Info)]
    BY <2>5, <2>6
  <2> QED BY <2>1, <2>2, <2>5, <2>7
(* publishLocationToBeacons, whatever position it is given. *)
<1>PublishType.
      ASSUME EventType, MemoryType, NEW taken \in Taken, PublishLocation(taken)
      PROVE  /\ lastPublished' \in Taken /\ sends' \in [Rooms -> 0 .. MaxSends] /\ positioned' \subseteq Id
  <2> USE <1>PublishType
  <2>1. lastPublished' \in Taken
    BY DEF PublishLocation
  <2>2. sends' \in [Rooms -> 0 .. MaxSends]
    BY DEF PublishLocation, MemoryType, MaxSends
  <2>3. positioned' \subseteq Id
    BY DEF PublishLocation, EventType, MemoryType, HealthyLiveBeaconIds, Info
  <2> QED BY <2>1, <2>2, <2>3
<1>1. Init => TypeOK
  <2> SUFFICES ASSUME Init PROVE TypeOK
    OBVIOUS
  <2>1. 0 \in Id /\ NoInfo \in Info /\ Idle \in Create
    BY BeaconAssumption DEF Id, NoInfo, Info, Idle, Create
  <2>2. EventType
    <3>1. <<>> \in Seq(Info)
      OBVIOUS
    <3>2. timeline \in [Rooms -> Seq(Info)]
      BY <3>1 DEF Init
    <3> QED BY <2>1, <3>2 DEF Init, EventType
  <2>3. MemoryType
    <3>1. sends = [r \in Rooms |-> 0] /\ publishErrors = sends
      BY DEF Init
    <3>2. sends \in [Rooms -> 0 .. MaxSends] /\ publishErrors \in [Rooms -> 0 .. BailAfter]
      BY <3>1 DEF MaxSends, BailAfter
    <3> QED BY <2>1, <3>2 DEF Init, MemoryType, Taken
  <2>4. CallType
    BY <2>1 DEF Init, CallType
  <2>5. CountType
    <3>1. \A k \in Bounded : Bound[k] \in Nat
      BY BeaconAssumption DEF Bounded, Bound
    <3>2. count \in [Bounded -> Nat] /\ \A k \in Bounded : count[k] = 0
      BY DEF Init
    <3> QED BY <3>1, <3>2 DEF CountType
  <2> QED BY <2>2, <2>3, <2>4, <2>5 DEF TypeOK
<1>2. TypeOK /\ [Next]_vars => TypeOK'
  <2> SUFFICES ASSUME EventType, MemoryType, CallType, CountType, [Next]_vars
               PROVE  TypeOK'
    BY DEF TypeOK
  <2>1. ASSUME NEW r \in Rooms, Sync(r) PROVE TypeOK'
    <3>1. EventType'
      BY <2>1 DEF Sync, EventType, memory, calls, history
    <3>2. MemoryType'
      <4>1. Head(timeline[r]) \in Info
        BY <2>1 DEF Sync, EventType
      <4>2. beacons' \in [Rooms -> Info]
        BY <2>1, <4>1 DEF Sync, MemoryType
      <4> QED BY <2>1, <4>2, <1>CheckType DEF Sync, MemoryType
    <3>3. CallType'
      BY <2>1, <1>StopCallsType DEF Sync, CallType, memory, calls, history
    <3>4. CountType'
      BY <2>1, <1>OnceType DEF Sync, CountType, Bounded
    <3> QED BY <3>1, <3>2, <3>3, <3>4 DEF TypeOK
  <2>2. ASSUME NEW r \in Rooms, Expire(r) PROVE TypeOK'
    <3>1. EventType'
      <4>1. server[r].id \in Id /\ beacons[r].id \in Id
        BY DEF EventType, MemoryType, Info
      <4>2. expired' \subseteq Id
        BY <2>2, <4>1 DEF Expire, EventType
      <4> QED BY <2>2, <4>2 DEF Expire, EventType, history
    <3>2. MemoryType'
      BY <2>2, <1>CheckType DEF Expire, MemoryType, memory, calls, history
    <3>3. CallType'
      BY <2>2, <1>StopCallsType DEF Expire, CallType, memory, calls, history
    <3>4. CountType'
      BY <2>2 DEF Expire, CountType
    <3> QED BY <3>1, <3>2, <3>3, <3>4 DEF TypeOK
  <2>3. ASSUME NEW r \in Rooms, StopBeacon(r) PROVE TypeOK'
    <3>1. EventType'
      BY <2>3 DEF StopBeacon, EventType, memory, calls, history
    <3>2. MemoryType'
      BY <2>3 DEF StopBeacon, MemoryType, memory, calls, history
    <3>3. CallType'
      BY <2>3, <1>StopCallsType DEF StopBeacon, CallType, memory, calls, history
    <3>4. CountType'
      BY <2>3, <1>OnceType DEF StopBeacon, Bounded
    <3> QED BY <3>1, <3>2, <3>3, <3>4 DEF TypeOK
  <2>4. ASSUME NEW r \in Rooms, CreateLiveBeacon(r) PROVE TypeOK'
    <3>1. EventType'
      BY <2>4 DEF CreateLiveBeacon, EventType, memory, calls, history
    <3>2. MemoryType'
      BY <2>4 DEF CreateLiveBeacon, MemoryType, memory, calls, history
    <3>3. CallType'
      <4>1. StopCalls({r} \cap liveBeaconIds, "create") \subseteq StopCall
        BY <1>StopCallsType
      <4>2. creates' \in [Rooms -> Create]
        BY <2>4 DEF CreateLiveBeacon, CallType, Create
      <4> QED BY <2>4, <4>1, <4>2 DEF CreateLiveBeacon, CallType
    <3>4. CountType'
      BY <2>4, <1>OnceType DEF CreateLiveBeacon, Bounded
    <3> QED BY <3>1, <3>2, <3>3, <3>4 DEF TypeOK
  <2>5. ASSUME NEW r \in Rooms, CreateAccepted(r) PROVE TypeOK'
    <3>1. EventType'
      BY <2>5, <1>HasEventType DEF CreateAccepted, EventType, memory, calls, history
    <3>2. MemoryType'
      BY <2>5 DEF CreateAccepted, MemoryType, memory, calls, history
    <3>3. CallType'
      <4>1. [at |-> "answered", id |-> n + 1] \in Create
        BY <2>5, <1>HasEventType DEF CreateAccepted, Create
      <4> QED BY <2>5, <4>1 DEF CreateAccepted, CallType
    <3>4. CountType'
      BY <2>5 DEF CreateAccepted, CountType
    <3> QED BY <3>1, <3>2, <3>3, <3>4 DEF TypeOK
  <2>6. ASSUME NEW r \in Rooms, CreateAnswered(r) PROVE TypeOK'
    <3>1. EventType'
      BY <2>6 DEF CreateAnswered, EventType, CallType, Create, history
    <3>2. MemoryType'
      BY <2>6 DEF CreateAnswered, MemoryType, memory, calls, history
    <3>3. CallType'
      <4>1. Idle \in Create
        BY BeaconAssumption DEF Idle, Create, Id
      <4> QED BY <2>6, <4>1 DEF CreateAnswered, CallType
    <3>4. CountType'
      BY <2>6 DEF CreateAnswered, CountType
    <3> QED BY <3>1, <3>2, <3>3, <3>4 DEF TypeOK
  <2>7. ASSUME NEW r \in Rooms, CreateFailed(r) PROVE TypeOK'
    <3>1. EventType'
      BY <2>7 DEF CreateFailed, EventType, memory, calls, history
    <3>2. MemoryType'
      BY <2>7 DEF CreateFailed, MemoryType, memory, calls, history
    <3>3. CallType'
      <4>1. Idle \in Create
        BY BeaconAssumption DEF Idle, Create, Id
      <4> QED BY <2>7, <4>1 DEF CreateFailed, CallType
    <3>4. CountType'
      BY <2>7, <1>OnceType DEF CreateFailed, Bounded
    <3> QED BY <3>1, <3>2, <3>3, <3>4 DEF TypeOK
  <2>8. ASSUME NEW r \in Rooms, ForeignBeacon(r) PROVE TypeOK'
    <3>1. EventType'
      BY <2>8, <1>HasEventType DEF ForeignBeacon, EventType, memory, calls, history
    <3>2. MemoryType'
      BY <2>8 DEF ForeignBeacon, MemoryType, memory, calls, history
    <3>3. CallType'
      BY <2>8 DEF ForeignBeacon, CallType, memory, calls, history
    <3>4. CountType'
      BY <2>8, <1>OnceType DEF ForeignBeacon, Bounded
    <3> QED BY <3>1, <3>2, <3>3, <3>4 DEF TypeOK
  <2>9. ASSUME NEW r \in Rooms, SendAnswered(r) PROVE TypeOK'
    <3>1. EventType'
      BY <2>9 DEF SendAnswered, EventType, memory, calls, history
    <3>2. MemoryType'
      BY <2>9 DEF SendAnswered, MemoryType, MaxSends, BailAfter
    <3>3. CallType'
      BY <2>9 DEF SendAnswered, CallType, memory, calls, history
    <3>4. CountType'
      BY <2>9, <1>OnceType DEF SendAnswered, Bounded, CountType
    <3> QED BY <3>1, <3>2, <3>3, <3>4 DEF TypeOK
  <2>10. ASSUME NEW r \in Rooms, ResetLocationPublishError(r) PROVE TypeOK'
    <3>1. EventType'
      BY <2>10 DEF ResetLocationPublishError, EventType, memory, calls, history
    <3>2. MemoryType'
      BY <2>10 DEF ResetLocationPublishError, MemoryType, BailAfter
    <3>3. CallType'
      BY <2>10 DEF ResetLocationPublishError, CallType, memory, calls, history
    <3>4. CountType'
      BY <2>10 DEF ResetLocationPublishError, CountType
    <3> QED BY <3>1, <3>2, <3>3, <3>4 DEF TypeOK
  <2>11. ASSUME NEW s \in stops, StopAccepted(s) PROVE TypeOK'
    <3>1. EventType'
      <4>1. s.room \in Rooms /\ HasEvent(s.room, FALSE)
        BY <2>11 DEF StopAccepted, CallType, StopCall
      <4>2. n' \in Id /\ server' \in [Rooms -> Info] /\ timeline' \in [Rooms -> Seq(Info)]
        BY <4>1, <1>HasEventType
      <4> QED BY <2>11, <4>2 DEF StopAccepted, EventType, history
    <3>2. MemoryType'
      BY <2>11 DEF StopAccepted, MemoryType, memory, calls, history
    <3>3. CallType'
      <4>1. [s EXCEPT !.done = TRUE] \in StopCall
        BY <2>11 DEF CallType, StopCall
      <4> QED BY <2>11, <4>1 DEF StopAccepted, CallType
    <3>4. CountType'
      BY <2>11 DEF StopAccepted, CountType
    <3> QED BY <3>1, <3>2, <3>3, <3>4 DEF TypeOK
  <2>12. ASSUME NEW s \in stops, StopAnswered(s) PROVE TypeOK'
    <3>1. EventType'
      BY <2>12 DEF StopAnswered, EventType, PrunedOf, history
    <3>2. MemoryType'
      BY <2>12 DEF StopAnswered, MemoryType, memory, calls, history
    <3>3. CallType'
      <4>1. s.room \in Rooms /\ Idle \in Create
        BY BeaconAssumption DEF CallType, StopCall, Idle, Create, Id
      <4>2. creates' \in [Rooms -> Create]
        BY <2>12, <4>1 DEF StopAnswered, CallType, Create
      <4> QED BY <2>12, <4>2 DEF StopAnswered, CallType
    <3>4. CountType'
      BY <2>12 DEF StopAnswered, CountType
    <3> QED BY <3>1, <3>2, <3>3, <3>4 DEF TypeOK
  <2>13. ASSUME NEW s \in stops, StopFailed(s) PROVE TypeOK'
    <3>1. EventType'
      BY <2>13 DEF StopFailed, EventType, memory, calls, history
    <3>2. MemoryType'
      BY <2>13 DEF StopFailed, MemoryType, CallType, StopCall
    <3>3. CallType'
      <4>1. s.room \in Rooms /\ Idle \in Create
        BY BeaconAssumption DEF CallType, StopCall, Idle, Create, Id
      <4>2. creates' \in [Rooms -> Create]
        BY <2>13, <4>1 DEF StopFailed, CallType, Create
      <4> QED BY <2>13, <4>2 DEF StopFailed, CallType
    <3>4. CountType'
      BY <2>13, <1>OnceType DEF StopFailed, Bounded
    <3> QED BY <3>1, <3>2, <3>3, <3>4 DEF TypeOK
  <2>14. ASSUME OnWatchedPosition PROVE TypeOK'
    <3>1. EventType'
      BY <2>14, <1>PublishType DEF OnWatchedPosition, PublishLocation, EventType, MemoryType, Taken, history
    <3>2. MemoryType'
      BY <2>14, <1>PublishType DEF OnWatchedPosition, PublishLocation, EventType, MemoryType, Taken
    <3>3. CallType'
      BY <2>14 DEF OnWatchedPosition, PublishLocation, CallType, calls
    <3>4. CountType'
      BY <2>14 DEF OnWatchedPosition, CountType
    <3> QED BY <3>1, <3>2, <3>3, <3>4 DEF TypeOK
  <2>15. ASSUME DebounceEnds PROVE TypeOK'
    <3>1. EventType'
      BY <2>15, <1>PublishType DEF DebounceEnds, PublishLocation, EventType, MemoryType, Taken, history
    <3>2. MemoryType'
      BY <2>15, <1>PublishType DEF DebounceEnds, PublishLocation, EventType, MemoryType, Taken
    <3>3. CallType'
      BY <2>15 DEF DebounceEnds, PublishLocation, CallType, calls
    <3>4. CountType'
      BY <2>15 DEF DebounceEnds, CountType
    <3> QED BY <3>1, <3>2, <3>3, <3>4 DEF TypeOK
  <2>16. ASSUME StaticInterval PROVE TypeOK'
    <3>1. EventType'
      BY <2>16 DEF StaticInterval, EventType, memory, calls, history
    <3>2. MemoryType'
      BY <2>16 DEF StaticInterval, MemoryType, memory, calls, history
    <3>3. CallType'
      BY <2>16 DEF StaticInterval, CallType, memory, calls, history
    <3>4. CountType'
      BY <2>16 DEF StaticInterval, CountType
    <3> QED BY <3>1, <3>2, <3>3, <3>4 DEF TypeOK
  <2>17. ASSUME Located PROVE TypeOK'
    <3>1. EventType'
      BY <2>17, <1>PublishType DEF Located, PublishLocation, EventType, MemoryType, Taken, history
    <3>2. MemoryType'
      BY <2>17, <1>PublishType DEF Located, PublishLocation, EventType, MemoryType, Taken
    <3>3. CallType'
      BY <2>17 DEF Located, PublishLocation, CallType, calls
    <3>4. CountType'
      BY <2>17 DEF Located, CountType
    <3> QED BY <3>1, <3>2, <3>3, <3>4 DEF TypeOK
  <2>18. ASSUME PermissionDenied PROVE TypeOK'
    <3>1. EventType'
      BY <2>18 DEF PermissionDenied, EventType, memory, calls, history
    <3>2. MemoryType'
      BY <2>18 DEF PermissionDenied, StopPollingLocation, MemoryType, Taken
    <3>3. CallType'
      <4>1. StopCalls(liveBeaconIds, "denial") \subseteq StopCall
        BY <1>StopCallsType DEF MemoryType
      <4> QED BY <2>18, <4>1 DEF PermissionDenied, CallType
    <3>4. CountType'
      BY <2>18, <1>OnceType DEF PermissionDenied, Bounded
    <3> QED BY <3>1, <3>2, <3>3, <3>4 DEF TypeOK
  <2>19. ASSUME Reload PROVE TypeOK'
    <3>1. EventType'
      BY <2>19 DEF Reload, EventType, memory, calls, history
    <3>2. MemoryType'
      <4>1. sends' = [r \in Rooms |-> 0] /\ publishErrors' = sends'
        BY <2>19 DEF Reload
      <4>2. sends' \in [Rooms -> 0 .. MaxSends] /\ publishErrors' \in [Rooms -> 0 .. BailAfter]
        BY <4>1 DEF MaxSends, BailAfter
      <4> QED BY <2>19, <4>2 DEF Reload, MemoryType, EventType, Taken
    <3>3. CallType'
      <4>1. Idle \in Create
        BY BeaconAssumption DEF Idle, Create, Id
      <4> QED BY <2>19, <4>1 DEF Reload, CallType
    <3>4. CountType'
      BY <2>19, <1>OnceType DEF Reload, Bounded
    <3> QED BY <3>1, <3>2, <3>3, <3>4 DEF TypeOK
  <2>20. CASE UNCHANGED vars
    BY <2>20 DEF vars, TypeOK, EventType, MemoryType, CallType, CountType, memory, calls, history
  <2> QED BY <2>1, <2>2, <2>3, <2>4, <2>5, <2>6, <2>7, <2>8, <2>9, <2>10, <2>11, <2>12, <2>13, <2>14, <2>15, <2>16, <2>17, <2>18, <2>19, <2>20 DEF Next
<1> QED BY <1>1, <1>2, PTL DEF Spec

(* Only what was created here gets into localStorage and the live list. *)
OwnInv ==
    /\ local \subseteq own /\ positioned \subseteq own
    /\ \A r \in Rooms : creates[r].at = "answered" => creates[r].id \in own
    /\ \A r \in liveBeaconIds : beacons[r].id \in own

(* The device sends its location to beacons that were created on it, and   *)
(* to no other, also while several devices replace the beacon of a room.   *)
THEOREM OnlyOwn == Spec => []OnlyOwnPositioned
<1>1. Init => OwnInv
  BY DEF Init, OwnInv, Idle
<1>2. OwnInv => OnlyOwnPositioned
  BY DEF OwnInv, OnlyOwnPositioned
<1>3. TypeOK /\ OwnInv /\ [Next]_vars => OwnInv'
  <2> SUFFICES ASSUME EventType, MemoryType, CallType, CountType, OwnInv, [Next]_vars
               PROVE  OwnInv'
    BY DEF TypeOK
  <2>1. ASSUME NEW r \in Rooms, Sync(r) PROVE OwnInv'
    BY <2>1 DEF Sync, OwnInv, memory, calls, history, CheckLiveness, LiveHere
  <2>2. ASSUME NEW r \in Rooms, Expire(r) PROVE OwnInv'
    BY <2>2 DEF Expire, OwnInv, memory, calls, history, CheckLiveness, LiveHere
  <2>3. ASSUME NEW r \in Rooms, StopBeacon(r) PROVE OwnInv'
    BY <2>3 DEF StopBeacon, OwnInv, memory, calls, history
  <2>4. ASSUME NEW r \in Rooms, CreateLiveBeacon(r) PROVE OwnInv'
    BY <2>4 DEF CreateLiveBeacon, OwnInv, memory, calls, history, CallType, Create, StopCall, Idle
  <2>5. ASSUME NEW r \in Rooms, CreateAccepted(r) PROVE OwnInv'
    BY <2>5 DEF CreateAccepted, OwnInv, memory, calls, history, HasEvent, CallType, Create, StopCall, Idle
  <2>6. ASSUME NEW r \in Rooms, CreateAnswered(r) PROVE OwnInv'
    BY <2>6 DEF CreateAnswered, OwnInv, memory, calls, history, CallType, Create, StopCall, Idle
  <2>7. ASSUME NEW r \in Rooms, CreateFailed(r) PROVE OwnInv'
    BY <2>7 DEF CreateFailed, OwnInv, memory, calls, history, CallType, Create, StopCall, Idle
  <2>8. ASSUME NEW r \in Rooms, ForeignBeacon(r) PROVE OwnInv'
    BY <2>8 DEF ForeignBeacon, OwnInv, memory, calls, history, HasEvent
  <2>9. ASSUME NEW r \in Rooms, SendAnswered(r) PROVE OwnInv'
    BY <2>9 DEF SendAnswered, OwnInv, memory, calls, history
  <2>10. ASSUME NEW r \in Rooms, ResetLocationPublishError(r) PROVE OwnInv'
    BY <2>10 DEF ResetLocationPublishError, OwnInv, memory, calls, history
  <2>11. ASSUME NEW s \in stops, StopAccepted(s) PROVE OwnInv'
    BY <2>11 DEF StopAccepted, OwnInv, memory, calls, history, HasEvent
  <2>12. ASSUME NEW s \in stops, StopAnswered(s) PROVE OwnInv'
    BY <2>12 DEF StopAnswered, OwnInv, memory, calls, history, PrunedOf, CallType, Create, StopCall, Idle
  <2>13. ASSUME NEW s \in stops, StopFailed(s) PROVE OwnInv'
    BY <2>13 DEF StopFailed, OwnInv, memory, calls, history, CallType, Create, StopCall, Idle
  <2>14. ASSUME OnWatchedPosition PROVE OwnInv'
    BY <2>14 DEF OnWatchedPosition, OwnInv, memory, calls, history, PublishLocation, HealthyLiveBeaconIds
  <2>15. ASSUME DebounceEnds PROVE OwnInv'
    BY <2>15 DEF DebounceEnds, OwnInv, memory, calls, history, PublishLocation, HealthyLiveBeaconIds
  <2>16. ASSUME StaticInterval PROVE OwnInv'
    BY <2>16 DEF StaticInterval, OwnInv, memory, calls, history
  <2>17. ASSUME Located PROVE OwnInv'
    BY <2>17 DEF Located, OwnInv, memory, calls, history, PublishLocation, HealthyLiveBeaconIds
  <2>18. ASSUME PermissionDenied PROVE OwnInv'
    BY <2>18 DEF PermissionDenied, OwnInv, memory, calls, history
  <2>19. ASSUME Reload PROVE OwnInv'
    BY <2>19 DEF Reload, OwnInv, memory, calls, history, CallType, Create, StopCall, Idle
  <2>20. CASE UNCHANGED vars
    BY <2>20 DEF vars, memory, calls, history, OwnInv
  <2> QED BY <2>1, <2>2, <2>3, <2>4, <2>5, <2>6, <2>7, <2>8, <2>9, <2>10, <2>11, <2>12, <2>13, <2>14, <2>15, <2>16, <2>17, <2>18, <2>19, <2>20 DEF Next
<1> QED BY <1>1, <1>2, <1>3, TypeCorrect, PTL DEF Spec

(* The position is watched while this device shares it and not longer.     *)
THEOREM Watches == Spec => []WatchesWhileLive
<1>1. Init => WatchesWhileLive
  BY DEF Init, WatchesWhileLive
<1>2. TypeOK /\ WatchesWhileLive /\ [Next]_vars => WatchesWhileLive'
  <2> SUFFICES ASSUME EventType, MemoryType, CallType, CountType, WatchesWhileLive, [Next]_vars
               PROVE  WatchesWhileLive'
    BY DEF TypeOK
  <2>1. ASSUME NEW r \in Rooms, Sync(r) PROVE WatchesWhileLive'
    BY <2>1 DEF Sync, WatchesWhileLive, memory, calls, history, Once, CountType, Bounded, CheckLiveness, StartPollingLocation, StopPollingLocation
  <2>2. ASSUME NEW r \in Rooms, Expire(r) PROVE WatchesWhileLive'
    BY <2>2 DEF Expire, WatchesWhileLive, memory, calls, history, CheckLiveness, StartPollingLocation, StopPollingLocation
  <2>3. ASSUME NEW r \in Rooms, StopBeacon(r) PROVE WatchesWhileLive'
    BY <2>3 DEF StopBeacon, WatchesWhileLive, memory, calls, history, Once, CountType, Bounded
  <2>4. ASSUME NEW r \in Rooms, CreateLiveBeacon(r) PROVE WatchesWhileLive'
    BY <2>4 DEF CreateLiveBeacon, WatchesWhileLive, memory, calls, history, Once, CountType, Bounded
  <2>5. ASSUME NEW r \in Rooms, CreateAccepted(r) PROVE WatchesWhileLive'
    BY <2>5 DEF CreateAccepted, WatchesWhileLive, memory, calls, history
  <2>6. ASSUME NEW r \in Rooms, CreateAnswered(r) PROVE WatchesWhileLive'
    BY <2>6 DEF CreateAnswered, WatchesWhileLive, memory, calls, history
  <2>7. ASSUME NEW r \in Rooms, CreateFailed(r) PROVE WatchesWhileLive'
    BY <2>7 DEF CreateFailed, WatchesWhileLive, memory, calls, history, Once, CountType, Bounded
  <2>8. ASSUME NEW r \in Rooms, ForeignBeacon(r) PROVE WatchesWhileLive'
    BY <2>8 DEF ForeignBeacon, WatchesWhileLive, memory, calls, history, Once, CountType, Bounded
  <2>9. ASSUME NEW r \in Rooms, SendAnswered(r) PROVE WatchesWhileLive'
    BY <2>9 DEF SendAnswered, WatchesWhileLive, memory, calls, history, Once, CountType, Bounded
  <2>10. ASSUME NEW r \in Rooms, ResetLocationPublishError(r) PROVE WatchesWhileLive'
    BY <2>10 DEF ResetLocationPublishError, WatchesWhileLive, memory, calls, history
  <2>11. ASSUME NEW s \in stops, StopAccepted(s) PROVE WatchesWhileLive'
    BY <2>11 DEF StopAccepted, WatchesWhileLive, memory, calls, history
  <2>12. ASSUME NEW s \in stops, StopAnswered(s) PROVE WatchesWhileLive'
    BY <2>12 DEF StopAnswered, WatchesWhileLive, memory, calls, history
  <2>13. ASSUME NEW s \in stops, StopFailed(s) PROVE WatchesWhileLive'
    BY <2>13 DEF StopFailed, WatchesWhileLive, memory, calls, history, Once, CountType, Bounded
  <2>14. ASSUME OnWatchedPosition PROVE WatchesWhileLive'
    BY <2>14 DEF OnWatchedPosition, WatchesWhileLive, memory, calls, history, PublishLocation
  <2>15. ASSUME DebounceEnds PROVE WatchesWhileLive'
    BY <2>15 DEF DebounceEnds, WatchesWhileLive, memory, calls, history, PublishLocation
  <2>16. ASSUME StaticInterval PROVE WatchesWhileLive'
    BY <2>16 DEF StaticInterval, WatchesWhileLive, memory, calls, history
  <2>17. ASSUME Located PROVE WatchesWhileLive'
    BY <2>17 DEF Located, WatchesWhileLive, memory, calls, history, PublishLocation
  <2>18. ASSUME PermissionDenied PROVE WatchesWhileLive'
    BY <2>18 DEF PermissionDenied, WatchesWhileLive, memory, calls, history, Once, CountType, Bounded, StopPollingLocation
  <2>19. ASSUME Reload PROVE WatchesWhileLive'
    BY <2>19 DEF Reload, WatchesWhileLive, memory, calls, history, Once, CountType, Bounded
  <2>20. CASE UNCHANGED vars
    BY <2>20 DEF vars, memory, calls, history, WatchesWhileLive
  <2> QED BY <2>1, <2>2, <2>3, <2>4, <2>5, <2>6, <2>7, <2>8, <2>9, <2>10, <2>11, <2>12, <2>13, <2>14, <2>15, <2>16, <2>17, <2>18, <2>19, <2>20 DEF Next
<1> QED BY <1>1, <1>2, TypeCorrect, PTL DEF Spec

----------------------------------------------------------------------------
(* The ids of the events that /sync has still to bring, and the client's.  *)
Coming(r) == {timeline[r][i].id : i \in DOMAIN timeline[r]}
Known(r) == {beacons[r].id} \cup Coming(r)

(* Ids grow, no two rooms have one in common, and the client that has      *)
(* caught up has what the homeserver has.                                  *)
InOrder ==
    /\ own \subseteq 1 .. n
    /\ \A r \in Rooms :
        /\ beacons[r].id \in 0 .. n
        /\ \A i \in DOMAIN timeline[r] : timeline[r][i].id \in (beacons[r].id + 1) .. n
        /\ \A i, j \in DOMAIN timeline[r] : i < j => timeline[r][i].id < timeline[r][j].id
        /\ server[r] = IF timeline[r] = <<>> THEN beacons[r] ELSE timeline[r][Len(timeline[r])]
    /\ \A r, q \in Rooms : r # q => Known(r) \cap Known(q) \subseteq {0}

(* What CreatedIsShared assumes. *)
Prompt == \A k \in {"overtakes", "faults", "reloads"} : count[k] = 0

(* Until a request is answered its event is to come; a beacon that is      *)
(* created waits for one stop; and one that was created and is live has    *)
(* its id in localStorage or is about to, and is shared to if the client   *)
(* knows both.                                                             *)
Answers ==
    /\ \A s \in stops : s.done => timeline[s.room] # <<>>
    /\ \A r \in Rooms : creates[r].at = "answered" => creates[r].id \in Coming(r)
Stopping ==
    /\ \A s \in stops : s.by = "create" => creates[s.room].at = "stopping"
    /\ \A s, t \in stops : s.by = "create" /\ t.by = "create" /\ s.room = t.room => s = t
Stored ==
    \A r \in Rooms : server[r].live /\ server[r].id \in own =>
        server[r].id \in local \/ (creates[r].at = "answered" /\ creates[r].id = server[r].id)
Shared ==
    \A r \in Rooms : IsLive(beacons[r], expired) /\ beacons[r].id \in local => r \in liveBeaconIds

Sharing == Prompt => Answers /\ Stopping /\ Stored /\ Shared

(* The events of a room come in the order of their ids, whatever is sent   *)
(* and wherever the client is.                                             *)
THEOREM EventsInOrder == Spec => []InOrder
<1>1. Init => InOrder
  <2> SUFFICES ASSUME Init PROVE InOrder
    OBVIOUS
  <2>1. /\ own = {} /\ n = 0 /\ \A r \in Rooms : server[r] = NoInfo /\ beacons[r] = NoInfo /\ timeline[r] = <<>>
    BY DEF Init
  <2>2. \A r \in Rooms : DOMAIN timeline[r] = {} /\ Coming(r) = {} /\ Known(r) = {0}
    BY <2>1 DEF Coming, Known, NoInfo
  <2> QED BY <2>1, <2>2 DEF InOrder, NoInfo
<1>2. ASSUME InOrder, server' = server, timeline' = timeline, beacons' = beacons, own' = own, n' = n
      PROVE  InOrder'
  <2>1. \A r \in Rooms : Known(r)' = Known(r)
    BY <1>2 DEF Known, Coming
  <2> QED BY <1>2, <2>1 DEF InOrder
<1>3. ASSUME TypeOK
      PROVE  /\ n \in Nat
             /\ \A r \in Rooms : /\ timeline[r] \in Seq(Info) /\ server[r] \in Info /\ beacons[r] \in Info
                                 /\ beacons[r].id \in Nat /\ server[r].id \in Nat
                                 /\ \A i \in DOMAIN timeline[r] : timeline[r][i].id \in Nat
  <2>1. /\ n \in Id /\ MaxEvents \in Nat
        /\ \A r \in Rooms : timeline[r] \in Seq(Info) /\ server[r] \in Info /\ beacons[r] \in Info
    BY <1>3, BeaconAssumption DEF TypeOK, EventType, MemoryType
  <2>2. \A x \in Info : x.id \in Nat
    BY <2>1 DEF Info, Id
  <2>3. \A r \in Rooms : \A i \in DOMAIN timeline[r] : timeline[r][i] \in Info
    BY <2>1
  <2> QED BY <2>1, <2>2, <2>3 DEF Id
(* A new event has an id that no room has seen. *)
<1>4. ASSUME TypeOK, InOrder, NEW r \in Rooms, NEW b \in BOOLEAN, HasEvent(r, b),
             beacons' = beacons, own' \subseteq own \cup {n + 1}
      PROVE  InOrder'
  <2> DEFINE e == [id |-> n + 1, live |-> b]
  <2>1. /\ n' = n + 1 /\ n \in Nat /\ e \in Info /\ e.id = n + 1
        /\ server' = [server EXCEPT ![r] = e] /\ server'[r] = e
        /\ timeline' = [timeline EXCEPT ![r] = Append(@, e)]
    <3>1. /\ n' = n + 1 /\ n \in Nat /\ n + 1 \in Id
      BY <1>3, <1>4, BeaconAssumption DEF HasEvent, TypeOK, EventType, Id
    <3>2. server' = [server EXCEPT ![r] = e] /\ server'[r] = e
      BY <1>4 DEF HasEvent, TypeOK, EventType
    <3> QED BY <1>4, <3>1, <3>2 DEF HasEvent, Info
  <2> HIDE DEF e
  <2>2. /\ timeline'[r] = Append(timeline[r], e) /\ \A q \in Rooms \ {r} : timeline'[q] = timeline[q]
        /\ \A q \in Rooms \ {r} : server'[q] = server[q]
    BY <1>4, <2>1 DEF TypeOK, EventType
  <2>3. /\ DOMAIN timeline'[r] = DOMAIN timeline[r] \cup {Len(timeline[r]) + 1}
        /\ Len(timeline'[r]) = Len(timeline[r]) + 1 /\ timeline'[r] # <<>>
        /\ timeline'[r][Len(timeline[r]) + 1] = e
        /\ \A i \in DOMAIN timeline[r] : timeline'[r][i] = timeline[r][i] /\ i \in 1 .. Len(timeline[r])
        /\ Len(timeline[r]) \in Nat
    BY <1>3, <1>4, <2>1, <2>2
  <2>4. Known(r)' = Known(r) \cup {n + 1} /\ \A q \in Rooms \ {r} : Known(q)' = Known(q)
    BY <1>4, <2>1, <2>2, <2>3 DEF Known, Coming
  <2>5. \A q \in Rooms : \A x \in Known(q) : x \in Nat /\ x <= n
    BY <1>3, <1>4 DEF Known, Coming, InOrder
  <2>6. \A p, q \in Rooms : p # q => Known(p)' \cap Known(q)' \subseteq {0}
    BY <1>4, <2>1, <2>4, <2>5 DEF InOrder
  <2>7. ASSUME NEW q \in Rooms
        PROVE  /\ beacons'[q].id \in 0 .. n'
               /\ \A i \in DOMAIN timeline'[q] : timeline'[q][i].id \in (beacons'[q].id + 1) .. n'
               /\ \A i, j \in DOMAIN timeline'[q] : i < j => timeline'[q][i].id < timeline'[q][j].id
               /\ server'[q] = IF timeline'[q] = <<>> THEN beacons'[q] ELSE timeline'[q][Len(timeline'[q])]
    <3>1. /\ beacons[q].id \in 0 .. n
          /\ \A i \in DOMAIN timeline[q] : timeline[q][i].id \in (beacons[q].id + 1) .. n
          /\ \A i, j \in DOMAIN timeline[q] : i < j => timeline[q][i].id < timeline[q][j].id
          /\ server[q] = IF timeline[q] = <<>> THEN beacons[q] ELSE timeline[q][Len(timeline[q])]
      BY <1>4 DEF InOrder
    <3>2. CASE q # r
      BY <1>4, <2>1, <2>2, <3>1, <3>2
    <3>3. CASE q = r
      <4>1. \A i \in DOMAIN timeline'[r] :
               timeline'[r][i].id \in (beacons[r].id + 1) .. (n + 1) /\ (i \in DOMAIN timeline[r] \/ i = Len(timeline[r]) + 1)
        BY <1>3, <1>4, <2>1, <2>3, <3>1, <3>3
      <4>2. \A i, j \in DOMAIN timeline'[r] : i < j => timeline'[r][i].id < timeline'[r][j].id
        <5> SUFFICES ASSUME NEW i \in DOMAIN timeline'[r], NEW j \in DOMAIN timeline'[r], i < j
                     PROVE  timeline'[r][i].id < timeline'[r][j].id
          OBVIOUS
        <5>1. i \in DOMAIN timeline[r]
          BY <2>3
        <5>2. timeline'[r][i] = timeline[r][i] /\ timeline[r][i].id < n + 1 /\ timeline[r][i].id \in Nat
          BY <1>3, <1>4, <2>1, <2>3, <3>1, <3>3, <5>1
        <5>3. CASE j \in DOMAIN timeline[r]
          BY <2>3, <3>1, <3>3, <5>1, <5>2, <5>3
        <5>4. CASE j \notin DOMAIN timeline[r]
          BY <2>1, <2>3, <5>2, <5>4
        <5> QED BY <5>3, <5>4
      <4>3. beacons'[r].id \in 0 .. n'
        BY <1>4, <2>1, <3>1, <3>3
      <4> QED BY <1>4, <2>1, <2>3, <3>3, <4>1, <4>2, <4>3
    <3> QED BY <3>2, <3>3
  <2>8. own' \subseteq 1 .. n'
    BY <1>4, <2>1 DEF InOrder
  <2> QED BY <2>6, <2>7, <2>8 DEF InOrder
(* The client has the next event. *)
<1>5. ASSUME TypeOK, InOrder, NEW r \in Rooms, Sync(r) PROVE InOrder'
  <2> DEFINE h == Head(timeline[r])
  <2>1. /\ beacons' = [beacons EXCEPT ![r] = h] /\ timeline' = [timeline EXCEPT ![r] = Tail(@)]
        /\ server' = server /\ n' = n /\ own' = own /\ timeline[r] # <<>>
    BY <1>5 DEF Sync, history
  <2>2. /\ beacons'[r] = h /\ timeline'[r] = Tail(timeline[r])
        /\ \A q \in Rooms \ {r} : beacons'[q] = beacons[q] /\ timeline'[q] = timeline[q]
    BY <1>5, <2>1 DEF TypeOK, EventType, MemoryType
  <2>3. /\ h = timeline[r][1] /\ 1 \in DOMAIN timeline[r]
        /\ Len(timeline'[r]) = Len(timeline[r]) - 1 /\ Len(timeline[r]) \in Nat /\ Len(timeline'[r]) \in Nat
        /\ DOMAIN timeline'[r] = 1 .. Len(timeline'[r])
        /\ \A i \in DOMAIN timeline'[r] : i + 1 \in DOMAIN timeline[r] /\ timeline'[r][i] = timeline[r][i + 1]
        /\ timeline'[r] = <<>> <=> Len(timeline[r]) = 1
    <3>1. ASSUME NEW t \in Seq(Info), t # <<>>
          PROVE  /\ Head(t) = t[1] /\ 1 \in DOMAIN t /\ Tail(t) \in Seq(Info) /\ Len(Tail(t)) = Len(t) - 1
                 /\ \A i \in DOMAIN Tail(t) : i + 1 \in DOMAIN t /\ Tail(t)[i] = t[i + 1]
                 /\ DOMAIN Tail(t) = 1 .. Len(Tail(t)) /\ Len(t) \in Nat /\ Len(Tail(t)) \in Nat
                 /\ Tail(t) = <<>> <=> Len(t) = 1
      <4>1. Head(t) = t[1] /\ Tail(t) \in Seq(Info) /\ Len(t) \in Nat /\ DOMAIN t = 1 .. Len(t) /\ Len(t) # 0
        BY <3>1
      <4>2. Len(Tail(t)) = Len(t) - 1 /\ DOMAIN Tail(t) = 1 .. Len(Tail(t))
        BY <3>1
      <4>3. \A i \in 1 .. (Len(t) - 1) : Tail(t)[i] = t[i + 1]
        BY <3>1
      <4>4. \A u \in Seq(Info) : u = <<>> <=> Len(u) = 0
        OBVIOUS
      <4>5. Tail(t) = <<>> <=> Len(t) = 1
        <5>1. Len(Tail(t)) = 0 <=> Len(t) = 1
          BY <4>1, <4>2
        <5>2. Tail(t) = <<>> <=> Len(Tail(t)) = 0
          BY <4>1, <4>4, Zenon
        <5> QED BY <5>1, <5>2, Zenon
      <4>6. 1 \in DOMAIN t /\ Len(Tail(t)) \in Nat
        BY <4>1, <4>2
      <4>7. \A i \in DOMAIN Tail(t) : i + 1 \in DOMAIN t /\ Tail(t)[i] = t[i + 1]
        BY <4>1, <4>2, <4>3
      <4> QED BY <4>1, <4>2, <4>5, <4>6, <4>7
    <3>2. timeline[r] \in Seq(Info) /\ timeline[r] # <<>> /\ timeline'[r] = Tail(timeline[r])
      BY <1>3, <1>5, <2>1, <2>2
    <3> QED BY <3>1, <3>2
  <2> HIDE DEF h
  <2>4. Known(r)' \subseteq Known(r) /\ \A q \in Rooms \ {r} : Known(q)' = Known(q)
    BY <2>2, <2>3 DEF Known, Coming
  <2>5. \A p, q \in Rooms : p # q => Known(p)' \cap Known(q)' \subseteq {0}
    BY <1>5, <2>4 DEF InOrder
  <2>6. ASSUME NEW q \in Rooms
        PROVE  /\ beacons'[q].id \in 0 .. n'
               /\ \A i \in DOMAIN timeline'[q] : timeline'[q][i].id \in (beacons'[q].id + 1) .. n'
               /\ \A i, j \in DOMAIN timeline'[q] : i < j => timeline'[q][i].id < timeline'[q][j].id
               /\ server'[q] = IF timeline'[q] = <<>> THEN beacons'[q] ELSE timeline'[q][Len(timeline'[q])]
    <3>1. /\ beacons[q].id \in 0 .. n
          /\ \A i \in DOMAIN timeline[q] : timeline[q][i].id \in (beacons[q].id + 1) .. n
          /\ \A i, j \in DOMAIN timeline[q] : i < j => timeline[q][i].id < timeline[q][j].id
          /\ server[q] = IF timeline[q] = <<>> THEN beacons[q] ELSE timeline[q][Len(timeline[q])]
      BY <1>5 DEF InOrder
    <3>2. CASE q # r
      BY <2>1, <2>2, <3>1, <3>2
    <3>3. CASE q = r
      <4>1. h.id \in 0 .. n
        BY <1>3, <1>5, <2>3, <3>1, <3>3
      <4>2. \A i \in DOMAIN timeline'[r] : timeline'[r][i].id \in (h.id + 1) .. n
        <5> SUFFICES ASSUME NEW i \in DOMAIN timeline'[r] PROVE timeline'[r][i].id \in (h.id + 1) .. n
          OBVIOUS
        <5>1. i + 1 \in DOMAIN timeline[r] /\ timeline'[r][i] = timeline[r][i + 1] /\ 1 < i + 1
          BY <2>3
        <5>2. h.id < timeline[r][i + 1].id /\ timeline[r][i + 1].id <= n /\ timeline[r][i + 1].id \in Nat
          BY <1>3, <1>5, <2>3, <3>1, <3>3, <5>1
        <5> QED BY <1>3, <1>5, <4>1, <5>1, <5>2
      <4>3. \A i, j \in DOMAIN timeline'[r] : i < j => timeline'[r][i].id < timeline'[r][j].id
        <5> SUFFICES ASSUME NEW i \in DOMAIN timeline'[r], NEW j \in DOMAIN timeline'[r], i < j
                     PROVE  timeline[r][i + 1].id < timeline[r][j + 1].id
          BY <2>3
        <5>1. i \in Int /\ j \in Int /\ i + 1 \in DOMAIN timeline[r] /\ j + 1 \in DOMAIN timeline[r]
          BY <2>3
        <5>2. i + 1 < j + 1
          BY <5>1
        <5> QED BY <3>1, <3>3, <5>1, <5>2
      <4>4. server[r] = IF timeline'[r] = <<>> THEN h ELSE timeline'[r][Len(timeline'[r])]
        BY <2>1, <2>3, <3>1, <3>3
      <4> QED BY <2>1, <2>2, <3>3, <4>1, <4>2, <4>3, <4>4
    <3> QED BY <3>2, <3>3
  <2> QED BY <1>5, <2>1, <2>5, <2>6 DEF InOrder
<1>6. ASSUME TypeOK, InOrder, Reload PROVE InOrder'
  <2>1. /\ beacons' = server /\ server' = server /\ own' = own /\ n' = n
        /\ \A r \in Rooms : timeline'[r] = <<>> /\ DOMAIN timeline'[r] = {} /\ Coming(r)' = {}
    BY <1>6 DEF Reload, history, Coming
  <2>2. \A r \in Rooms : Known(r)' = {server[r].id} /\ server[r].id \in Known(r) /\ server[r].id \in 0 .. n
    <3> TAKE r \in Rooms
    <3>1. CASE timeline[r] = <<>>
      BY <1>6, <2>1, <3>1 DEF InOrder, Known
    <3>2. CASE timeline[r] # <<>>
      <4>1. Len(timeline[r]) \in DOMAIN timeline[r] /\ server[r] = timeline[r][Len(timeline[r])]
        BY <1>3, <1>6, <3>2 DEF InOrder
      <4>2. server[r].id \in 0 .. n
        BY <1>3, <1>6, <4>1 DEF InOrder
      <4> QED BY <2>1, <4>1, <4>2 DEF Known, Coming
    <3> QED BY <3>1, <3>2
  <2> QED BY <1>6, <2>1, <2>2 DEF InOrder
<1>7. TypeOK /\ InOrder /\ [Next]_vars => InOrder'
  <2> SUFFICES ASSUME TypeOK, InOrder, [Next]_vars PROVE InOrder'
    OBVIOUS
  <2> USE DEF memory, calls, history
  <2>1. ASSUME NEW r \in Rooms, CreateAccepted(r) \/ ForeignBeacon(r) PROVE InOrder'
    BY <1>4, <2>1 DEF CreateAccepted, ForeignBeacon
  <2>2. ASSUME NEW s \in stops, StopAccepted(s) PROVE InOrder'
    <3>1. s.room \in Rooms
      BY DEF TypeOK, CallType, StopCall
    <3> QED BY <1>4, <2>2, <3>1 DEF StopAccepted
  <2>3. ASSUME NEW r \in Rooms,
               \/ Expire(r) \/ StopBeacon(r) \/ CreateLiveBeacon(r) \/ CreateAnswered(r)
               \/ CreateFailed(r) \/ SendAnswered(r) \/ ResetLocationPublishError(r)
        PROVE InOrder'
    BY <1>2, <2>3 DEF Expire, StopBeacon, CreateLiveBeacon, CreateAnswered, CreateFailed, SendAnswered,
                      ResetLocationPublishError
  <2>4. ASSUME NEW s \in stops, StopAnswered(s) \/ StopFailed(s) PROVE InOrder'
    BY <1>2, <2>4 DEF StopAnswered, StopFailed
  <2>5. CASE OnWatchedPosition \/ DebounceEnds \/ StaticInterval \/ Located \/ PermissionDenied
    BY <1>2, <2>5 DEF OnWatchedPosition, DebounceEnds, StaticInterval, Located, PermissionDenied, PublishLocation
  <2>6. CASE UNCHANGED vars
    BY <1>2, <2>6 DEF vars
  <2> QED BY <1>5, <1>6, <2>1, <2>2, <2>3, <2>4, <2>5, <2>6 DEF Next
<1> QED BY <1>1, <1>7, TypeCorrect, PTL DEF Spec

(* What Sharing says holds where no request failed, the page was not       *)
(* reloaded and no event came before the answer that names it.             *)
THEOREM SharingInvariance == Spec => []Sharing
<1> DEFINE Told == Answers /\ Stopping /\ Stored /\ Shared
<1>1. Init => Sharing
  BY DEF Init, Sharing, Answers, Stopping, Stored, Shared, NoInfo, Idle, IsLive
<1>Typed. ASSUME TypeOK
          PROVE  /\ creates \in [Rooms -> Create] /\ \A s \in stops : s.room \in Rooms
                 /\ server \in [Rooms -> Info] /\ beacons \in [Rooms -> Info]
                 /\ timeline \in [Rooms -> Seq(Info)] /\ n \in Nat
                 /\ \A r \in Rooms : server[r].id \in Nat /\ beacons[r].id \in Nat
                 /\ \A r \in Rooms : creates[r].at \in {"idle", "stopping", "sending", "answered"}
                 /\ \A r \in Rooms : \A x \in Coming(r) : x \in Nat
  <2>1. /\ creates \in [Rooms -> Create] /\ stops \subseteq StopCall /\ n \in Id /\ MaxEvents \in Nat
        /\ server \in [Rooms -> Info] /\ beacons \in [Rooms -> Info] /\ timeline \in [Rooms -> Seq(Info)]
    BY <1>Typed, BeaconAssumption DEF TypeOK, EventType, MemoryType, CallType
  <2>2. \A x \in Info : x.id \in Nat
    BY <2>1 DEF Info, Id
  <2>3. \A r \in Rooms : \A i \in DOMAIN timeline[r] : timeline[r][i] \in Info
    BY <2>1
  <2> QED BY <2>1, <2>2, <2>3 DEF Create, StopCall, Coming, Id
(* Without incidents nothing is counted that Prompt excludes. *)
<1>Counts. ASSUME TypeOK, Prompt', NEW k \in Bounded, Once(k)
           PROVE  Prompt /\ k \notin {"overtakes", "faults", "reloads"}
  BY <1>Counts DEF TypeOK, CountType, Once, Prompt, Bounded
(* The client is ahead of no event, and knows no id of another room. *)
<1>Behind. ASSUME TypeOK, InOrder, NEW r \in Rooms
           PROVE  /\ beacons[r].id \notin Coming(r)
                  /\ timeline[r] # <<>> => beacons[r].id < server[r].id
                  /\ \A q \in Rooms \ {r} : beacons[q].id = 0 \/ beacons[q].id \notin Coming(r)
                  /\ server[r].id \in Known(r) /\ server[r].id <= n /\ \A x \in Coming(r) : x # 0 /\ x <= n
                  /\ timeline[r] = <<>> => server[r] = beacons[r]
  <2>1. /\ beacons[r].id \in 0 .. n
        /\ \A i \in DOMAIN timeline[r] : timeline[r][i].id \in (beacons[r].id + 1) .. n
        /\ server[r] = IF timeline[r] = <<>> THEN beacons[r] ELSE timeline[r][Len(timeline[r])]
        /\ \A q \in Rooms : r # q => Known(r) \cap Known(q) \subseteq {0}
    BY <1>Behind DEF InOrder
  <2>2. \A x \in Coming(r) : x \in (beacons[r].id + 1) .. n
    BY <2>1 DEF Coming
  <2>3. \A x \in Coming(r) : beacons[r].id < x /\ x # 0 /\ x <= n
    BY <1>Typed, <1>Behind, <2>1, <2>2
  <2>4. timeline[r] # <<>> => server[r].id \in Coming(r)
    <3>1. timeline[r] \in Seq(Info)
      BY <1>Typed, <1>Behind
    <3>2. timeline[r] # <<>> => Len(timeline[r]) \in DOMAIN timeline[r]
      BY <3>1
    <3> QED BY <2>1, <3>2 DEF Coming
  <2>5. server[r].id \in Known(r) /\ server[r].id <= n
    BY <2>1, <2>3, <2>4 DEF Known
  <2>6. timeline[r] = <<>> => server[r] = beacons[r]
    BY <2>1
  <2>7. \A q \in Rooms \ {r} : beacons[q].id = 0 \/ beacons[q].id \notin Coming(r)
    BY <2>1 DEF Known
  <2>8. beacons[r].id \notin Coming(r)
    BY <1>Typed, <1>Behind, <2>3
  <2> QED BY <2>3, <2>4, <2>5, <2>6, <2>7, <2>8
(* Calls of stopBeacon that create does not wait for. *)
<1>Same. ASSUME TypeOK, Told, server' = server, timeline' = timeline, beacons' = beacons, expired' = expired,
                local' = local, liveBeaconIds' = liveBeaconIds, creates' = creates, own' = own,
                \A s \in stops' : s \in stops \/ (~s.done /\ s.by # "create")
         PROVE  Told'
  BY <1>Same DEF Answers, Stopping, Stored, Shared, Coming, IsLive
(* A new event. *)
<1>Event. ASSUME TypeOK, InOrder, Told, NEW r \in Rooms, NEW b \in BOOLEAN, HasEvent(r, b), beacons' = beacons
          PROVE  /\ Coming(r)' = Coming(r) \cup {n + 1} /\ timeline'[r] # <<>>
                 /\ server'[r].id = n + 1 /\ server'[r].live = b
                 /\ \A q \in Rooms \ {r} : /\ Coming(q)' = Coming(q) /\ timeline'[q] = timeline[q]
                                           /\ server'[q] = server[q]
  <2> DEFINE e == [id |-> n + 1, live |-> b]
  <2>1. /\ timeline[r] \in Seq(Info) /\ n + 1 \in Id /\ e \in Info
        /\ server'[r] = e /\ timeline'[r] = Append(timeline[r], e)
        /\ \A q \in Rooms \ {r} : timeline'[q] = timeline[q] /\ server'[q] = server[q]
    <3>1. n + 1 \in Id
      BY <1>Event, BeaconAssumption DEF HasEvent, TypeOK, EventType, Id
    <3> QED BY <1>Typed, <1>Event, <3>1 DEF HasEvent, Info
  <2> HIDE DEF e
  <2>2. /\ DOMAIN timeline'[r] = DOMAIN timeline[r] \cup {Len(timeline[r]) + 1} /\ timeline'[r] # <<>>
        /\ timeline'[r][Len(timeline[r]) + 1] = e
        /\ \A i \in DOMAIN timeline[r] : timeline'[r][i] = timeline[r][i]
    BY <2>1
  <2>3. e.id = n + 1 /\ e.live = b
    BY DEF e
  <2> QED BY <2>1, <2>2, <2>3 DEF Coming
<1>Step. ASSUME TypeOK, TypeOK', InOrder, InOrder', Sharing, Prompt', [Next]_vars PROVE Told'
  <2> USE <1>Step
  <2> USE DEF memory, calls, history
  <2>T. Prompt => Told
    BY DEF Sharing
  <2>C. \A k \in Bounded : Once(k) => Prompt /\ k \notin {"overtakes", "faults", "reloads"}
    BY <1>Counts
  <2>E. count' = count => Prompt
    BY DEF Prompt
  <2>K. \A q \in Rooms : timeline'[q] = timeline[q] => Coming(q)' = Coming(q)
    BY DEF Coming
  <2>1. ASSUME NEW r \in Rooms, Sync(r) PROVE Told'
    <3>1. ~Unanswered(r) /\ Told
      BY <2>1, <2>T, <2>C, <2>E DEF Sync, Bounded
    <3>2. /\ server' = server /\ local' = local /\ creates' = creates /\ own' = own /\ liveBeaconIds' = LiveHere
          /\ \A q \in Rooms \ {r} : timeline'[q] = timeline[q]
      BY <1>Typed, <2>1 DEF Sync, CheckLiveness
    <3>3. \A s \in stops' : s \in stops \/ (~s.done /\ s.by # "create")
      BY <2>1 DEF Sync, StopCalls
    <3>4. Answers'
      BY <1>Typed, <2>K, <3>1, <3>2, <3>3 DEF Answers, Unanswered
    <3>5. Stopping' /\ Stored' /\ Shared'
      BY <3>1, <3>2, <3>3 DEF Stopping, Stored, Shared, LiveHere
    <3> QED BY <3>4, <3>5
  <2>2. ASSUME NEW r \in Rooms, Expire(r) PROVE Told'
    <3>1. Told
      BY <2>2, <2>T, <2>E DEF Expire
    <3>2. /\ server' = server /\ local' = local /\ creates' = creates /\ own' = own /\ liveBeaconIds' = LiveHere
          /\ timeline' = timeline
      BY <2>2 DEF Expire, CheckLiveness
    <3>3. \A s \in stops' : s \in stops \/ (~s.done /\ s.by # "create")
      BY <2>2 DEF Expire, StopCalls
    <3>4. Answers'
      BY <2>K, <3>1, <3>2, <3>3 DEF Answers
    <3>5. Stopping' /\ Stored' /\ Shared'
      BY <3>1, <3>2, <3>3 DEF Stopping, Stored, Shared, LiveHere
    <3> QED BY <3>4, <3>5
  <2>3. ASSUME NEW r \in Rooms, StopBeacon(r) PROVE Told'
    <3>1. Told
      BY <2>3, <2>T, <2>C DEF StopBeacon, Bounded
    <3>2. \A s \in StopCalls({r}, "user") : ~s.done /\ s.by # "create"
      BY DEF StopCalls
    <3> QED BY <1>Same, <2>3, <3>1, <3>2 DEF StopBeacon
  <2>4. ASSUME NEW r \in Rooms, CreateLiveBeacon(r) PROVE Told'
    <3> DEFINE new == StopCalls({r} \cap liveBeaconIds, "create")
    <3>1. Told
      BY <2>4, <2>T, <2>C DEF CreateLiveBeacon, Bounded
    <3>2. /\ server' = server /\ timeline' = timeline /\ beacons' = beacons /\ expired' = expired /\ local' = local
          /\ own' = own /\ liveBeaconIds' = liveBeaconIds /\ creates[r].at = "idle" /\ stops' = stops \cup new
      BY <2>4 DEF CreateLiveBeacon
    <3>3. /\ \A s \in new : ~s.done /\ s.by = "create" /\ s.room = r
          /\ \A s, t \in new : s = t
          /\ new # {} => r \in liveBeaconIds /\ beacons[r].live
      <4>1. \A s \in new : s = [room |-> r, by |-> "create", done |-> FALSE]
        BY DEF StopCalls
      <4>2. new # {} => r \in liveBeaconIds /\ beacons[r].live
        BY <3>2 DEF StopCalls
      <4> HIDE DEF new
      <4>3. \A s, t \in new : s = t
        BY <4>1, Zenon
      <4>4. \A s \in new : ~s.done /\ s.by = "create" /\ s.room = r
        BY <4>1
      <4> QED BY <4>2, <4>3, <4>4
    <3> HIDE DEF new
    <3>4. /\ \A q \in Rooms \ {r} : creates'[q] = creates[q]
          /\ creates'[r].at = IF r \in liveBeaconIds /\ beacons[r].live THEN "stopping" ELSE "sending"
      BY <1>Typed, <2>4 DEF CreateLiveBeacon, Create
    <3>5. Answers'
      <4>1. \A q \in Rooms : creates'[q].at = "answered" => creates'[q].id \in Coming(q)'
        BY <2>K, <3>1, <3>2, <3>4 DEF Answers
      <4>2. \A s \in stops' : s.done => timeline'[s.room] # <<>>
        BY <3>1, <3>2, <3>3 DEF Answers
      <4> QED BY <4>1, <4>2 DEF Answers
    <3>6. Stopping'
      <4>1. \A s \in stops : s.by = "create" => s.room # r
        BY <3>1, <3>2 DEF Stopping
      <4>2. \A s \in stops' : s.by = "create" => creates'[s.room].at = "stopping"
        <5>1. \A s \in stops : s.by = "create" => creates'[s.room].at = "stopping"
          BY <1>Typed, <3>1, <3>4, <4>1 DEF Stopping
        <5>2. \A s \in new : creates'[s.room].at = "stopping"
          BY <3>3, <3>4
        <5> QED BY <3>2, <5>1, <5>2
      <4>3. \A s, t \in stops' : s.by = "create" /\ t.by = "create" /\ s.room = t.room => s = t
        BY <3>1, <3>2, <3>3, <4>1 DEF Stopping
      <4> QED BY <4>2, <4>3 DEF Stopping
    <3>7. Stored' /\ Shared'
      BY <1>Typed, <3>1, <3>2, <3>4 DEF Stored, Shared, IsLive
    <3> QED BY <3>5, <3>6, <3>7
  <2>5. ASSUME NEW r \in Rooms, CreateAccepted(r) PROVE Told'
    <3>1. Told
      BY <2>5, <2>T, <2>E DEF CreateAccepted
    <3>2. /\ beacons' = beacons /\ expired' = expired /\ local' = local /\ stops' = stops
          /\ own' = own \cup {n + 1} /\ liveBeaconIds' = liveBeaconIds
          /\ creates[r].at = "sending" /\ creates'[r].at = "answered" /\ creates'[r].id = n + 1
          /\ \A q \in Rooms \ {r} : creates'[q] = creates[q]
      BY <1>Typed, <2>5 DEF CreateAccepted
    <3>3. /\ Coming(r)' = Coming(r) \cup {n + 1} /\ timeline'[r] # <<>> /\ server'[r].id = n + 1
          /\ \A q \in Rooms \ {r} : Coming(q)' = Coming(q) /\ timeline'[q] = timeline[q] /\ server'[q] = server[q]
      BY <1>Event, <2>5, <3>1, <3>2 DEF CreateAccepted
    <3>7. Answers'
      <4>1. \A q \in Rooms : creates'[q].at = "answered" => creates'[q].id \in Coming(q)'
        BY <3>1, <3>2, <3>3 DEF Answers
      <4>2. \A s \in stops : s.done => timeline'[s.room] # <<>>
        BY <1>Typed, <3>1, <3>3 DEF Answers
      <4> QED BY <3>2, <4>1, <4>2 DEF Answers
    <3>4. Answers' /\ Stopping'
      BY <1>Typed, <3>1, <3>2, <3>7 DEF Stopping
    <3>5. \A q \in Rooms : server[q].id # n + 1
      BY <1>Typed, <1>Behind
    <3>6. Stored' /\ Shared'
      BY <3>1, <3>2, <3>3, <3>5 DEF Stored, Shared, IsLive
    <3> QED BY <3>4, <3>6
  <2>6. ASSUME NEW r \in Rooms, CreateAnswered(r) PROVE Told'
    <3>1. Told
      BY <2>6, <2>T, <2>E DEF CreateAnswered
    <3>2. /\ server' = server /\ timeline' = timeline /\ beacons' = beacons /\ expired' = expired /\ stops' = stops
          /\ own' = own /\ liveBeaconIds' = liveBeaconIds /\ local' = local \cup {creates[r].id}
          /\ creates[r].at = "answered" /\ creates'[r].at = "idle" /\ \A q \in Rooms \ {r} : creates'[q] = creates[q]
      BY <1>Typed, <2>6 DEF CreateAnswered, Idle
    <3>3. Answers' /\ Stopping' /\ Stored'
      <4>1. Answers'
        BY <2>K, <3>1, <3>2 DEF Answers
      <4>2. Stopping'
        BY <1>Typed, <3>1, <3>2 DEF Stopping
      <4>3. Stored'
        BY <3>1, <3>2 DEF Stored
      <4> QED BY <4>1, <4>2, <4>3
    <3>4. \A q \in Rooms : beacons[q].id # creates[r].id
      BY <1>Behind, <3>1, <3>2 DEF Answers
    <3>5. Shared'
      BY <3>1, <3>2, <3>4 DEF Shared, IsLive
    <3> QED BY <3>3, <3>5
  <2>7. ASSUME NEW r \in Rooms, CreateFailed(r) PROVE Told'
    BY <2>7, <2>C DEF CreateFailed, Bounded
  <2>8. ASSUME NEW r \in Rooms, ForeignBeacon(r) PROVE Told'
    <3>1. Told
      BY <2>8, <2>T, <2>C DEF ForeignBeacon, Bounded
    <3>2. /\ beacons' = beacons /\ expired' = expired /\ local' = local /\ stops' = stops
          /\ own' = own /\ liveBeaconIds' = liveBeaconIds /\ creates' = creates
      BY <2>8 DEF ForeignBeacon
    <3>3. /\ Coming(r)' = Coming(r) \cup {n + 1} /\ timeline'[r] # <<>> /\ server'[r].id = n + 1
          /\ \A q \in Rooms \ {r} : Coming(q)' = Coming(q) /\ timeline'[q] = timeline[q] /\ server'[q] = server[q]
      BY <1>Event, <2>8, <3>1, <3>2 DEF ForeignBeacon
    <3>4. n + 1 \notin own
      BY <1>Typed DEF InOrder
    <3>5. Answers'
      <4>1. \A q \in Rooms : creates'[q].at = "answered" => creates'[q].id \in Coming(q)'
        BY <3>1, <3>2, <3>3 DEF Answers
      <4>2. \A s \in stops : s.done => timeline'[s.room] # <<>>
        BY <1>Typed, <3>1, <3>3 DEF Answers
      <4> QED BY <3>2, <4>1, <4>2 DEF Answers
    <3>6. Stopping' /\ Stored' /\ Shared'
      BY <3>1, <3>2, <3>3, <3>4 DEF Stopping, Stored, Shared, IsLive
    <3> QED BY <3>5, <3>6
  <2>9. ASSUME NEW s \in stops, StopAccepted(s) PROVE Told'
    <3>1. Told /\ s.room \in Rooms
      BY <1>Typed, <2>9, <2>T, <2>E DEF StopAccepted
    <3> DEFINE t == [s EXCEPT !.done = TRUE]
    <3>2. /\ beacons' = beacons /\ expired' = expired /\ local' = local /\ stops' = (stops \ {s}) \cup {t}
          /\ own' = own /\ liveBeaconIds' = liveBeaconIds /\ creates' = creates
          /\ t.room = s.room /\ t.by = s.by
      BY <2>9 DEF StopAccepted, TypeOK, CallType, StopCall
    <3> HIDE DEF t
    <3>3. /\ Coming(s.room)' = Coming(s.room) \cup {n + 1} /\ timeline'[s.room] # <<>> /\ ~server'[s.room].live
          /\ \A q \in Rooms \ {s.room} : Coming(q)' = Coming(q) /\ timeline'[q] = timeline[q] /\ server'[q] = server[q]
      BY <1>Event, <2>9, <3>1, <3>2 DEF StopAccepted
    <3>4. Answers'
      BY <1>Typed, <3>1, <3>2, <3>3 DEF Answers
    <3>5. Stopping'
      BY <1>Typed, <3>1, <3>2 DEF Stopping
    <3>6. Stored' /\ Shared'
      BY <3>1, <3>2, <3>3 DEF Stored, Shared, IsLive
    <3> QED BY <3>4, <3>5, <3>6
  <2>10. ASSUME NEW s \in stops, StopAnswered(s) PROVE Told'
    <3>1. Told /\ s.room \in Rooms
      BY <1>Typed, <2>10, <2>T, <2>E DEF StopAnswered
    <3>2. /\ server' = server /\ timeline' = timeline /\ beacons' = beacons /\ expired' = expired
          /\ own' = own /\ liveBeaconIds' = liveBeaconIds /\ stops' = stops \ {s} /\ s.done
          /\ local' = local \ {beacons[s.room].id}
      BY <2>10 DEF StopAnswered, PrunedOf
    <3>3. /\ \A q \in Rooms \ {s.room} : creates'[q] = creates[q]
          /\ s.by # "create" => creates' = creates
          /\ s.by = "create" => creates'[s.room].at = "sending" /\ creates[s.room].at = "stopping"
      BY <1>Typed, <2>10, <3>1 DEF StopAnswered, Stopping, Create
    <3>4. Answers'
      BY <2>K, <3>1, <3>2, <3>3 DEF Answers
    <3>5. Stopping'
      BY <1>Typed, <3>1, <3>2, <3>3 DEF Stopping
    <3>6. \A q \in Rooms : server[q].id \in own => server[q].id # beacons[s.room].id
      <4> TAKE q \in Rooms
      <4>1. CASE q = s.room
        BY <1>Typed, <1>Behind, <3>1, <3>2, <4>1 DEF Answers
      <4>2. CASE q # s.room
        <5>1. server[q].id \in Known(q) /\ beacons[s.room].id \in Known(s.room)
          BY <1>Behind DEF Known
        <5>2. server[q].id \in own => server[q].id # 0
          BY <1>Typed DEF InOrder
        <5> QED BY <3>1, <4>2, <5>1, <5>2 DEF InOrder
      <4> QED BY <4>1, <4>2
    <3>7. Stored' /\ Shared'
      BY <3>1, <3>2, <3>3, <3>6 DEF Stored, Shared, IsLive
    <3> QED BY <3>4, <3>5, <3>7
  <2>11. ASSUME NEW s \in stops, StopFailed(s) PROVE Told'
    BY <2>11, <2>C DEF StopFailed, Bounded
  <2>12. CASE Reload
    BY <2>12, <2>C DEF Reload, Bounded
  <2>13. CASE PermissionDenied
    <3>1. Told
      BY <2>13, <2>T, <2>C DEF PermissionDenied, Bounded
    <3>2. \A s \in StopCalls(liveBeaconIds, "denial") : ~s.done /\ s.by # "create"
      BY DEF StopCalls
    <3> QED BY <1>Same, <2>13, <3>1, <3>2 DEF PermissionDenied
  <2>14. CASE UNCHANGED <<server, timeline, expired, local, beacons, liveBeaconIds, calls, own>> /\ Prompt
    <3>1. /\ stops' = stops /\ server' = server /\ timeline' = timeline /\ beacons' = beacons /\ expired' = expired
          /\ local' = local /\ liveBeaconIds' = liveBeaconIds /\ creates' = creates /\ own' = own /\ Told
      BY <2>14, <2>T
    <3> QED BY <1>Same, <3>1
  <2>15. ASSUME NEW r \in Rooms, SendAnswered(r) \/ ResetLocationPublishError(r) PROVE Told'
    BY <2>14, <2>15, <2>C, <2>E DEF SendAnswered, ResetLocationPublishError, Bounded
  <2>16. CASE OnWatchedPosition \/ DebounceEnds \/ StaticInterval \/ Located
    BY <2>14, <2>16, <2>E DEF OnWatchedPosition, DebounceEnds, StaticInterval, Located, PublishLocation
  <2>17. CASE UNCHANGED vars
    BY <2>14, <2>17, <2>E DEF vars
  <2> QED BY <2>1, <2>2, <2>3, <2>4, <2>5, <2>6, <2>7, <2>8, <2>9, <2>10, <2>11, <2>12, <2>13, <2>15, <2>16, <2>17 DEF Next
<1>2. TypeOK /\ TypeOK' /\ InOrder /\ InOrder' /\ Sharing /\ [Next]_vars => Sharing'
  BY <1>Step DEF Sharing
<1> QED BY <1>1, <1>2, TypeCorrect, EventsInOrder, PTL DEF Spec

(* A beacon that was created here and that nobody ended is shared to, once *)
(* nothing is under way, where no request failed, the page was not         *)
(* reloaded and no event came before the answer that names it.             *)
THEOREM CreatedShared == Spec => []CreatedIsShared
<1>1. Sharing => CreatedIsShared
  BY DEF Sharing, Prompt, Stored, Shared, Quiet, CreatedIsShared, IsLive
<1> QED BY <1>1, SharingInvariance, PTL
=============================================================================
