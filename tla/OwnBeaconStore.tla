---------------------------- MODULE OwnBeaconStore ----------------------------
(***************************************************************************)
(* Live location sharing of one device: src/stores/OwnBeaconStore.ts with  *)
(* the homeserver, /sync, the SDK's beacons and their expiry timers, the   *)
(* browser's geolocation, other devices of the user, and reloads.          *)
(*                                                                         *)
(* The identifier of a beacon is its room and user, so that the beacons of *)
(* this user are known by their rooms; each beacon_info event has an id.   *)
(***************************************************************************)
EXTENDS Integers, FiniteSets, Sequences

CONSTANTS
    Rooms,
    MaxEvents,     \* bound: beacon_info events
    MaxCreates,    \* bound: calls of createLiveBeacon
    MaxStops,      \* bound: clicks on stop
    MaxForeign,    \* bound: beacons of other devices
    MaxFaults,     \* bound: failing requests
    MaxDenials,    \* bound: fatal geolocation errors
    MaxReloads,    \* bound: reloads
    MaxOvertakes,  \* bound: events that /sync brings before the request's answer
    MaxIncidents   \* bound: the last seven of these together

ASSUME BeaconAssumption ==
    {MaxEvents, MaxCreates, MaxStops, MaxForeign, MaxFaults, MaxDenials, MaxReloads,
     MaxOvertakes, MaxIncidents} \subseteq Nat

VARIABLES
    server,             \* the room's beacon_info
    timeline,           \* the beacon_info events that /sync has still to bring
    beacons,            \* the beacons as the client knows them
    expired,            \* ids of the infos whose time is over
    local,              \* the created ids in localStorage
    liveBeaconIds,
    watching,           \* is a position watch set, and with it the interval?
    lastPublished,      \* no position since the watch began, one taken
                        \* before it, or one taken since
    debounced,          \* the position that the debounced publish holds
    locating,           \* is getCurrentPosition under way?
    sends,              \* locations under way to a beacon
    publishErrors, updateErrors,
    stops, creates,     \* calls of stopBeacon and createLiveBeacon under way
    own, positioned,    \* ids created here; ids that got a location (history)
    n, count            \* last event id; what happened so far

memory == <<beacons, liveBeaconIds, watching, lastPublished, debounced, locating, sends,
            publishErrors, updateErrors>>
calls == <<stops, creates>>
history == <<own, positioned>>
vars == <<server, timeline, expired, local, memory, calls, history, n, count>>

BailAfter == 2     \* BAIL_AFTER_CONSECUTIVE_ERROR_COUNT
MaxSends == 2      \* bound: locations under way to one beacon

Id == 0 .. MaxEvents
Info == [id : Id, live : BOOLEAN]
NoInfo == [id |-> 0, live |-> FALSE]
Taken == {"none", "before", "since"}
StopCall == [room : Rooms, by : {"user", "expiry", "denial", "create"}, done : BOOLEAN]
Create == [at : {"idle", "stopping", "sending", "answered"}, id : Id]
Idle == [at |-> "idle", id |-> 0]
Bounded == {"creates", "stops", "foreign", "faults", "denials", "reloads", "overtakes"}
Bound == [creates |-> MaxCreates, stops |-> MaxStops, foreign |-> MaxForeign,
          faults |-> MaxFaults, denials |-> MaxDenials, reloads |-> MaxReloads,
          overtakes |-> MaxOvertakes]

EventType ==
    /\ n \in Id /\ server \in [Rooms -> Info] /\ timeline \in [Rooms -> Seq(Info)]
    /\ expired \subseteq Id /\ local \subseteq Id /\ own \subseteq Id /\ positioned \subseteq Id
MemoryType ==
    /\ beacons \in [Rooms -> Info] /\ liveBeaconIds \subseteq Rooms
    /\ watching \in BOOLEAN /\ locating \in BOOLEAN
    /\ lastPublished \in Taken /\ debounced \in Taken
    /\ sends \in [Rooms -> 0 .. MaxSends]
    /\ publishErrors \in [Rooms -> 0 .. BailAfter] /\ updateErrors \subseteq Rooms
CallType == stops \subseteq StopCall /\ creates \in [Rooms -> Create]
CountType == count \in [Bounded -> Nat] /\ \A k \in Bounded : count[k] <= Bound[k]
TypeOK == EventType /\ MemoryType /\ CallType /\ CountType

Incidence == count["creates"] + count["stops"] + count["foreign"] + count["faults"] + count["denials"]
                 + count["reloads"] + count["overtakes"]
Once(k) ==
    /\ count[k] < Bound[k] /\ Incidence < MaxIncidents
    /\ count' = [count EXCEPT ![k] = @ + 1]

Init ==
    /\ server = [r \in Rooms |-> NoInfo] /\ beacons = server
    /\ timeline = [r \in Rooms |-> <<>>] /\ expired = {} /\ local = {}
    /\ liveBeaconIds = {} /\ watching = FALSE /\ lastPublished = "none" /\ debounced = "none"
    /\ locating = FALSE /\ sends = [r \in Rooms |-> 0]
    /\ publishErrors = sends /\ updateErrors = {}
    /\ stops = {} /\ creates = [r \in Rooms |-> Idle]
    /\ own = {} /\ positioned = {} /\ n = 0 /\ count = [k \in Bounded |-> 0]

----------------------------------------------------------------------------
(* Beacon.isLive; the SDK's timer looks at it again when the time is over. *)
IsLive(info, over) == info.live /\ info.id \notin over

(* Mutant: a beacon whose time is over is not stopped. *)
StopCallsIfLive(rooms, by) ==
    {[room |-> r, by |-> by, done |-> FALSE] : r \in {x \in rooms : IsLive(beacons'[x], expired')}}
(* stopBeacon, until its request is sent. *)
StopCalls(rooms, by) == {[room |-> r, by |-> by, done |-> FALSE] : r \in {x \in rooms : beacons'[x].live}}

(* Mutant: the watch is not cleared. *)
StopPollingLocationKeepsWatch ==
    /\ watching' = watching /\ lastPublished' = "none"
    /\ debounced' = IF debounced = "since" THEN "before" ELSE debounced
StopPollingLocation ==
    /\ watching' = FALSE /\ lastPublished' = "none"
    /\ debounced' = IF debounced = "since" THEN "before" ELSE debounced

(* Mutant: the old watch is cleared after the new one is set. *)
StartPollingLocationSwapped == StopPollingLocation
StartPollingLocation ==
    /\ watching' = TRUE /\ lastPublished' = "none"
    /\ debounced' = IF debounced = "since" THEN "before" ELSE debounced

(* The live beacons that were created on this device. *)
(* Mutant: on any device. *)
LiveAnywhere == {r \in Rooms : IsLive(beacons'[r], expired')}
LiveHere == {r \in Rooms : IsLive(beacons'[r], expired') /\ beacons'[r].id \in local'}

(* checkLiveness and togglePollingLocation, with the beacons, the expired  *)
(* and the local ids of the next state.                                    *)
CheckLiveness ==
    /\ liveBeaconIds' = LiveHere
    /\ locating' = (locating \/ (watching /\ ~(liveBeaconIds' \subseteq liveBeaconIds)))
    /\ IF (liveBeaconIds' = {}) = (liveBeaconIds = {})
         THEN UNCHANGED <<watching, lastPublished, debounced>>
         ELSE IF liveBeaconIds' # {} THEN StartPollingLocation ELSE StopPollingLocation

----------------------------------------------------------------------------
(* The request that made one of the room's events is not answered yet.     *)
Unanswered(r) == creates[r].at = "answered" \/ \E s \in stops : s.room = r /\ s.done

(* /sync brings the next beacon_info of a room: onNewBeacon, or            *)
(* onBeaconLiveness and onUpdateBeacon.                                    *)
Sync(r) ==
    /\ timeline[r] # <<>>
    /\ \/ ~Unanswered(r) /\ UNCHANGED count
       \/ Unanswered(r) /\ Once("overtakes")
    /\ beacons' = [beacons EXCEPT ![r] = Head(timeline[r])]
    /\ timeline' = [timeline EXCEPT ![r] = Tail(@)]
    /\ UNCHANGED <<server, expired, local, creates, sends, publishErrors, updateErrors, history, n>>
    /\ stops' = stops \cup IF IsLive(beacons[r], expired) /\ ~IsLive(beacons'[r], expired)
                             THEN StopCalls({r}, "expiry") ELSE {}
    /\ CheckLiveness

(* The time of a beacon is over: onBeaconLiveness, if the client has it.   *)
Expire(r) ==
    /\ \E info \in {server[r], beacons[r]} : IsLive(info, expired) /\ expired' = expired \cup {info.id}
    /\ UNCHANGED <<server, timeline, beacons, local, creates, sends, publishErrors, updateErrors, history, n, count>>
    /\ stops' = stops \cup IF beacons[r].id \in expired' \ expired THEN StopCalls({r}, "expiry") ELSE {}
    /\ CheckLiveness

----------------------------------------------------------------------------
(* The homeserver has a new beacon_info of this user in the room. *)
HasEvent(r, isLive) ==
    /\ n < MaxEvents /\ n' = n + 1
    /\ server' = [server EXCEPT ![r] = [id |-> n + 1, live |-> isLive]]
    /\ timeline' = [timeline EXCEPT ![r] = Append(@, server'[r])]

(* The user stops a beacon. *)
StopBeacon(r) ==
    /\ r \in liveBeaconIds /\ Once("stops")
    /\ UNCHANGED <<server, timeline, expired, local, creates, history, n>>
    /\ UNCHANGED memory /\ stops' = stops \cup StopCalls({r}, "user")

StopAccepted(s) ==
    /\ s \in stops /\ ~s.done /\ HasEvent(s.room, FALSE)
    /\ stops' = (stops \ {s}) \cup {[s EXCEPT !.done = TRUE]}
    /\ UNCHANGED <<expired, local, memory, creates, history, count>>

(* removeLocallyCreateBeaconEventId *)
(* Mutant: of all beacons. *)
PrunedOfAll(r) == {}
PrunedOf(r) == local \ {beacons[r].id}

(* stopBeacon goes on: the id that is pruned is the beacon's at this time. *)
StopAnswered(s) ==
    /\ s \in stops /\ s.done /\ stops' = stops \ {s}
    /\ updateErrors' = updateErrors \ {s.room}
    /\ local' = PrunedOf(s.room)
    /\ creates' = IF s.by = "create" THEN [creates EXCEPT ![s.room].at = "sending"] ELSE creates
    /\ UNCHANGED <<server, timeline, expired, beacons, liveBeaconIds, watching, lastPublished, debounced,
                   locating, sends, publishErrors, history, n, count>>

StopFailed(s) ==
    /\ s \in stops /\ Once("faults") /\ stops' = stops \ {s}
    /\ updateErrors' = updateErrors \cup {s.room}
    /\ creates' = IF s.by = "create" THEN [creates EXCEPT ![s.room] = Idle] ELSE creates
    /\ UNCHANGED <<server, timeline, expired, local, beacons, liveBeaconIds, watching, lastPublished, debounced,
                   locating, sends, publishErrors, history, n>>

----------------------------------------------------------------------------
CreateLiveBeacon(r) ==
    /\ creates[r].at = "idle" /\ Once("creates")
    /\ UNCHANGED <<server, timeline, expired, local, memory, history, n>>
    /\ stops' = stops \cup StopCalls({r} \cap liveBeaconIds, "create")
    /\ creates' = [creates EXCEPT ![r].at =
                      IF r \in liveBeaconIds /\ beacons[r].live THEN "stopping" ELSE "sending"]

CreateAccepted(r) ==
    /\ creates[r].at = "sending" /\ HasEvent(r, TRUE)
    /\ own' = own \cup {n + 1}
    /\ creates' = [creates EXCEPT ![r] = [at |-> "answered", id |-> n + 1]]
    /\ UNCHANGED <<expired, local, memory, stops, positioned, count>>

CreateAnswered(r) ==
    /\ creates[r].at = "answered"
    /\ local' = local \cup {creates[r].id}
    /\ creates' = [creates EXCEPT ![r] = Idle]
    /\ UNCHANGED <<server, timeline, expired, memory, stops, history, n, count>>

CreateFailed(r) ==
    /\ creates[r].at \in {"sending", "answered"} /\ Once("faults")
    /\ creates' = [creates EXCEPT ![r] = Idle]
    /\ UNCHANGED <<server, timeline, expired, local, memory, stops, history, n>>

(* Another device of the user shares its location in the room. *)
ForeignBeacon(r) ==
    /\ Once("foreign") /\ HasEvent(r, TRUE)
    /\ UNCHANGED <<expired, local, memory, calls, history>>

----------------------------------------------------------------------------
BeaconHasError(r) == publishErrors[r] >= BailAfter
HealthyLiveBeaconIds == {r \in liveBeaconIds : ~BeaconHasError(r) /\ r \notin updateErrors}

(* publishLocationToBeacons *)
PublishLocation(taken) ==
    /\ lastPublished' = taken
    /\ sends' = [r \in Rooms |-> IF r \in HealthyLiveBeaconIds /\ sends[r] < MaxSends
                                   THEN sends[r] + 1 ELSE sends[r]]
    /\ positioned' = positioned \cup {beacons[r].id : r \in HealthyLiveBeaconIds}
    /\ UNCHANGED <<server, timeline, expired, local, beacons, liveBeaconIds, watching, publishErrors,
                   updateErrors, calls, own, n>>

OnWatchedPosition ==
    /\ watching
    /\ \/ /\ lastPublished = "none"
          /\ PublishLocation("since") /\ UNCHANGED <<debounced, locating, count>>
       \/ /\ lastPublished # "none"
          /\ debounced' = "since"
          /\ UNCHANGED <<server, timeline, expired, local, beacons, liveBeaconIds, watching, lastPublished, locating,
                         sends, publishErrors, updateErrors, calls, history, n, count>>

DebounceEnds ==
    /\ debounced # "none" /\ debounced' = "none"
    /\ PublishLocation(debounced) /\ UNCHANGED <<locating, count>>

(* The interval: the last position was published STATIC_UPDATE_INTERVAL ago. *)
StaticInterval ==
    /\ watching /\ lastPublished # "none" /\ locating' = TRUE
    /\ UNCHANGED <<server, timeline, expired, local, beacons, liveBeaconIds, watching, lastPublished, debounced,
                   sends, publishErrors, updateErrors, calls, history, n, count>>

(* getCurrentPosition has a position. *)
Located ==
    /\ locating /\ locating' = FALSE
    /\ PublishLocation("since") /\ UNCHANGED <<debounced, count>>

(* onGeolocationError with an error that is fatal, from the watch or from  *)
(* getCurrentPosition.                                                     *)
PermissionDenied ==
    /\ Once("denials")
    /\ \/ watching /\ UNCHANGED locating
       \/ locating /\ locating' = FALSE
    /\ StopPollingLocation
    /\ UNCHANGED <<server, timeline, expired, local, beacons, liveBeaconIds, sends, publishErrors, updateErrors,
                   creates, history, n>>
    /\ stops' = stops \cup StopCalls(liveBeaconIds, "denial")

(* sendLocationToBeacon goes on. *)
SendAnswered(r) ==
    /\ sends[r] > 0 /\ sends' = [sends EXCEPT ![r] = @ - 1]
    /\ \/ publishErrors' = [publishErrors EXCEPT ![r] = 0] /\ UNCHANGED count
       \/ /\ Once("faults")
          /\ publishErrors' = [publishErrors EXCEPT ![r] = IF @ < BailAfter THEN @ + 1 ELSE @]
    /\ UNCHANGED <<server, timeline, expired, local, beacons, liveBeaconIds, watching, lastPublished, debounced,
                   locating, updateErrors, calls, history, n>>

(* resetLocationPublishError, when the user retries. *)
ResetLocationPublishError(r) ==
    /\ r \in liveBeaconIds /\ BeaconHasError(r)
    /\ publishErrors' = [publishErrors EXCEPT ![r] = 0] /\ locating' = TRUE
    /\ UNCHANGED <<server, timeline, expired, local, beacons, liveBeaconIds, watching, lastPublished, debounced,
                   sends, updateErrors, calls, history, n, count>>

(* The page is reloaded: onReady and initialiseBeaconState.  What was not  *)
(* accepted by then never is.                                              *)
Reload ==
    /\ Once("reloads")
    /\ beacons' = server /\ timeline' = [r \in Rooms |-> <<>>]
    /\ liveBeaconIds' = {r \in Rooms : IsLive(server[r], expired) /\ server[r].id \in local}
    /\ watching' = (liveBeaconIds' # {}) /\ lastPublished' = "none" /\ debounced' = "none"
    /\ locating' = FALSE /\ sends' = [r \in Rooms |-> 0]
    /\ publishErrors' = sends' /\ updateErrors' = {}
    /\ stops' = {} /\ creates' = [r \in Rooms |-> Idle]
    /\ UNCHANGED <<server, expired, local, history, n>>

Next ==
    \/ \E r \in Rooms :
          \/ Sync(r) \/ Expire(r) \/ StopBeacon(r)
          \/ CreateLiveBeacon(r) \/ CreateAccepted(r) \/ CreateAnswered(r) \/ CreateFailed(r)
          \/ ForeignBeacon(r) \/ SendAnswered(r) \/ ResetLocationPublishError(r)
    \/ \E s \in stops : StopAccepted(s) \/ StopAnswered(s) \/ StopFailed(s)
    \/ OnWatchedPosition \/ DebounceEnds \/ StaticInterval \/ Located \/ PermissionDenied
    \/ Reload

Spec == Init /\ [][Next]_vars
----------------------------------------------------------------------------
(* SAFETY *)

Quiet == stops = {} /\ beacons = server /\ \A r \in Rooms : creates[r].at = "idle"

(* The position is watched while this device shares it and not longer; it  *)
(* is watched all the time unless geolocation failed.                      *)
WatchesWhileLive ==
    /\ watching => liveBeaconIds # {}
    /\ liveBeaconIds # {} /\ count["denials"] = 0 => watching

(* "only beacons created on this device should be shared to": a location   *)
(* goes to no beacon of another device, also when it replaces one of ours. *)
OnlyOwnPositioned == positioned \subseteq own

(* A beacon that was created here and that nobody ended is shared to, once *)
(* nothing is under way: if no request failed, the page was not reloaded,  *)
(* and /sync brought no event before the answer that names it.             *)
CreatedIsShared ==
    Quiet /\ (\A k \in {"overtakes", "faults", "reloads"} : count[k] = 0) =>
        \A r \in Rooms : server[r].id \in own /\ IsLive(server[r], expired) => r \in liveBeaconIds

----------------------------------------------------------------------------
(* LIVENESS: requests are answered, /sync goes on, the browser's position  *)
(* and timers come.                                                        *)
Fairness ==
    /\ WF_vars(\E r \in Rooms : Sync(r) \/ CreateAccepted(r) \/ CreateAnswered(r))
    /\ WF_vars(\E s \in stops : StopAccepted(s) \/ StopAnswered(s))
    /\ WF_vars(\E r \in Rooms : SendAnswered(r))
    /\ WF_vars(OnWatchedPosition /\ lastPublished = "none")
    /\ WF_vars(StaticInterval) /\ WF_vars(Located)

FairSpec == Spec /\ Fairness

(* "beacon expired, update beacon to un-alive state": a beacon that shared *)
(* a location and whose time is over is ended on the server.               *)
ExpiredIsStopped ==
    \A r \in Rooms, i \in 1 .. MaxEvents :
        (server[r].id = i /\ i \in expired /\ i \in positioned) ~> (server[r].id # i)

(* A live beacon gets a location, or it ends. *)
EachGetsLocation ==
    \A r \in Rooms, i \in 1 .. MaxEvents :
        (r \in liveBeaconIds /\ beacons[r].id = i) ~> (i \in positioned \/ beacons[r].id # i \/ i \in expired)
=============================================================================
