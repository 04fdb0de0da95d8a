---------------------------- MODULE SessionLock ----------------------------
(***************************************************************************)
(* The lock of src/utils/SessionLock.ts that lets one tab of the           *)
(* application run at a time, and the two places of MatrixChat that use it *)
(* (the check at construction, the callback that shuts the app down).      *)
(*                                                                         *)
(* A tab is one page load, i.e. one call of getSessionLock with its own    *)
(* sessionIdentifier.  Tabs share three localStorage items; every write    *)
(* queues a `storage' event in the other tabs.  The code between two       *)
(* awaits is one step: the source relies on it ("must all be synchronous   *)
(* ... before other tabs run again").  Time is counted in ticks.           *)
(***************************************************************************)
EXTENDS Integers, FiniteSets

CONSTANTS
    Tab,           \* the page loads
    None,          \* an absent localStorage item
    Expiry,        \* LOCK_EXPIRY_TIME_MS, in ticks
    Interval,      \* period of the lock servicer, in ticks
    MaxGap,        \* longest time a live tab lets pass between two services
    BFCache,       \* may a hidden page come back to life?
    MayReject      \* may the onNewInstance callback fail?

ASSUME SessionLockAssumption ==
    /\ None \notin Tab \cup Nat
    /\ Expiry \in Nat /\ Interval \in Nat /\ MaxGap \in Nat
    /\ 0 < Interval /\ Interval <= MaxGap /\ 0 < Expiry
    /\ BFCache \in BOOLEAN /\ MayReject \in BOOLEAN

VARIABLES
    claimant,      \* STORAGE_ITEM_CLAIMANT
    owner,         \* STORAGE_ITEM_OWNER
    ping,          \* age in ticks of STORAGE_ITEM_PING, up to Expiry + 1
    pc,            \* where each tab is in its life
    servicer,      \* lockServicer # null, so the interval timer is running
    since,         \* ticks since the tab last serviced the lock
    sleep,         \* ticks left on the waiting tab's setTimeout
    inbox,         \* keys of the storage events queued in the tab
    frozen         \* the page is hidden, in the back/forward cache

storage == <<claimant, owner, ping>>
vars == <<claimant, owner, ping, pc, servicer, since, sleep, inbox, frozen>>

State == {"unopened", "confirm", "waiting", "aborting", "aborted",
          "running", "stopping", "wedged", "stopped", "closed"}
Key == {"ping", "claimant"}

TypeOK ==
    /\ claimant \in Tab \cup {None}
    /\ owner \in Tab \cup {None}
    /\ ping \in Nat \cup {None}
    /\ pc \in [Tab -> State]
    /\ servicer \in [Tab -> BOOLEAN]
    /\ since \in [Tab -> Nat]
    /\ sleep \in [Tab -> Nat]
    /\ inbox \in [Tab -> SUBSET Key]
    /\ frozen \in [Tab -> BOOLEAN]

Init ==
    /\ claimant = None /\ owner = None /\ ping = None
    /\ pc = [t \in Tab |-> "unopened"]
    /\ servicer = [t \in Tab |-> FALSE]
    /\ since = [t \in Tab |-> 0]
    /\ sleep = [t \in Tab |-> 0]
    /\ inbox = [t \in Tab |-> {}]
    /\ frozen = [t \in Tab |-> FALSE]

Open(t) == pc[t] \notin {"unopened", "closed"}
Awake(t) == Open(t) /\ ~frozen[t]

(* The tab holds, or still has to give back, the application's data. *)
Active(t) == Awake(t) /\ pc[t] \in {"running", "stopping", "wedged"}

----------------------------------------------------------------------------
(* localStorage, and the events its writes queue in the other open tabs. *)

(* Mutant: a hidden page loses the events that reach it. *)
NotifyLossy(t, keys) ==
    [u \in Tab |-> IF u # t /\ Awake(u) THEN inbox[u] \cup keys ELSE inbox[u]]

Notify(t, keys) ==
    [u \in Tab |-> IF u # t /\ Open(u) THEN inbox[u] \cup keys ELSE inbox[u]]

(* Removing an item that is not there queues no event. *)
PingRemoved == IF ping = None THEN {} ELSE {"ping"}

(* Mutant: the expiry is one tick short. *)
LockFreeEarly == ping \notin 0 .. (Expiry - 2)

(* checkLock returns 0: there is no ping or it is stale. *)
LockFree == ping \notin 0 .. (Expiry - 1)

(* checkSessionLockFree: the same test, but off by one tick. *)
SeemsFree == ping \notin 0 .. Expiry

(* serviceLock and the listeners that getSessionLock leaves behind. *)
Acquire(t) ==
    /\ owner' = t
    /\ ping' = 0
    /\ pc' = [pc EXCEPT ![t] = "running"]
    /\ servicer' = [servicer EXCEPT ![t] = TRUE]
    /\ since' = [since EXCEPT ![t] = 0]
    /\ sleep' = [sleep EXCEPT ![t] = 0]

(* The race between a setTimeout and the next storage event. *)
Wait(t) ==
    /\ pc' = [pc EXCEPT ![t] = "waiting"]
    /\ sleep' = [sleep EXCEPT ![t] = Expiry - ping]
    /\ UNCHANGED <<owner, ping, servicer, since>>

(* getSessionLock up to its first await: stake a claim, then check it. *)
Claim(t) ==
    /\ claimant' = t
    /\ \/ LockFree /\ Acquire(t) /\ inbox' = Notify(t, {"claimant", "ping"})
       \/ ~LockFree /\ Wait(t) /\ inbox' = Notify(t, {"claimant"})

----------------------------------------------------------------------------
(* MatrixChat is constructed: if another instance seems to run, ask first. *)
Start(t) ==
    /\ pc[t] = "unopened"
    /\ \/ SeemsFree /\ Claim(t)
       \/ /\ ~SeemsFree
          /\ pc' = [pc EXCEPT ![t] = "confirm"]
          /\ UNCHANGED <<storage, servicer, since, sleep, inbox>>
    /\ UNCHANGED frozen

(* The user confirms that this tab shall take over. *)
Confirm(t) ==
    /\ Awake(t) /\ pc[t] = "confirm"
    /\ Claim(t)
    /\ UNCHANGED frozen

(* One more turn of the loop of getSessionLock; `rest' is what is left of   *)
(* the tab's storage events.                                                *)
Recheck(t, rest) ==
    /\ \/ /\ claimant # t
          /\ pc' = [pc EXCEPT ![t] = "aborting"]
          /\ sleep' = [sleep EXCEPT ![t] = 0]
          /\ inbox' = [inbox EXCEPT ![t] = rest]
          /\ UNCHANGED <<owner, ping, servicer, since>>
       \/ /\ claimant = t /\ LockFree
          /\ Acquire(t)
          /\ inbox' = [Notify(t, {"ping"}) EXCEPT ![t] = rest]
       \/ /\ claimant = t /\ ~LockFree
          /\ Wait(t)
          /\ inbox' = [inbox EXCEPT ![t] = rest]
    /\ UNCHANGED <<claimant, frozen>>

WakeUp(t) ==
    /\ Awake(t) /\ pc[t] = "waiting" /\ sleep[t] = 0
    /\ Recheck(t, inbox[t])

(* Mutants of onStorageEvent: the storage is not consulted; the wrong key   *)
(* is watched.                                                              *)
StealNoticeBlind(t, k) ==
    /\ pc' = [pc EXCEPT ![t] = IF k = "claimant" THEN "stopping" ELSE "running"]
    /\ inbox' = [inbox EXCEPT ![t] = @ \ {k}]
    /\ UNCHANGED <<storage, servicer, since, sleep, frozen>>
StealNoticeWrongKey(t, k) ==
    /\ pc' = [pc EXCEPT ![t] = IF k = "ping" /\ claimant # t
                               THEN "stopping" ELSE "running"]
    /\ inbox' = [inbox EXCEPT ![t] = @ \ {k}]
    /\ UNCHANGED <<storage, servicer, since, sleep, frozen>>

(* onStorageEvent: another tab staked a claim, so this one shuts down.      *)
(* The listener goes, the servicer stays until onNewInstance is done.       *)
StealNotice(t, k) ==
    /\ pc' = [pc EXCEPT ![t] = IF k = "claimant" /\ claimant # t
                               THEN "stopping" ELSE "running"]
    /\ inbox' = [inbox EXCEPT ![t] = @ \ {k}]
    /\ UNCHANGED <<storage, servicer, since, sleep, frozen>>

(* A queued storage event reaches the tab. *)
StorageEvent(t, k) ==
    /\ Awake(t) /\ k \in inbox[t]
    /\ \/ pc[t] = "waiting" /\ Recheck(t, inbox[t] \ {k})
       \/ pc[t] = "running" /\ StealNotice(t, k)
       \/ /\ pc[t] \notin {"waiting", "running"}
          /\ inbox' = [inbox EXCEPT ![t] = @ \ {k}]
          /\ UNCHANGED <<storage, pc, servicer, since, sleep, frozen>>

(* onNewInstance is done in a tab that gave up its place in the queue. *)
FinishAbort(t) ==
    /\ Awake(t) /\ pc[t] = "aborting"
    /\ pc' = [pc EXCEPT ![t] = "aborted"]
    /\ UNCHANGED <<storage, servicer, since, sleep, inbox, frozen>>

(* Mutant: releaseLock forgets to stop the servicer. *)
FinishStopServing(t) ==
    /\ Awake(t) /\ pc[t] = "stopping"
    /\ pc' = [pc EXCEPT ![t] = "stopped"]
    /\ ping' = None /\ owner' = None
    /\ inbox' = Notify(t, PingRemoved)
    /\ UNCHANGED <<claimant, servicer, since, sleep, frozen>>

(* onNewInstance is done in the tab that had the lock: releaseLock goes on  *)
(* to stop the servicer and to remove the ping, whosever it is.             *)
FinishStop(t) ==
    /\ Awake(t) /\ pc[t] = "stopping"
    /\ pc' = [pc EXCEPT ![t] = "stopped"]
    /\ servicer' = [servicer EXCEPT ![t] = FALSE]
    /\ ping' = None /\ owner' = None
    /\ inbox' = Notify(t, PingRemoved)
    /\ UNCHANGED <<claimant, since, sleep, frozen>>

(* onNewInstance rejects: the error is logged and the servicer runs on. *)
StopFails(t) ==
    /\ MayReject
    /\ Awake(t) /\ pc[t] = "stopping"
    /\ pc' = [pc EXCEPT ![t] = "wedged"]
    /\ UNCHANGED <<storage, servicer, since, sleep, inbox, frozen>>

(* serviceLock, run by the interval timer. *)
Service(t) ==
    /\ Awake(t) /\ servicer[t] /\ since[t] >= Interval
    /\ owner' = t /\ ping' = 0
    /\ since' = [since EXCEPT ![t] = 0]
    /\ inbox' = Notify(t, {"ping"})
    /\ UNCHANGED <<claimant, pc, servicer, sleep, frozen>>

----------------------------------------------------------------------------
(* Mutant: the ping goes whether or not the tab is the owner. *)
PagehideAlways(t, left) ==
    /\ servicer' = [servicer EXCEPT ![t] = FALSE]
    /\ ping' = None /\ owner' = None
    /\ inbox' = [Notify(t, PingRemoved) EXCEPT ![t] = left]
    /\ UNCHANGED claimant

(* onPagehideEvent: a tab that has the servicer running clears its claim;  *)
(* `left' is what becomes of the events queued in the tab.                 *)
Pagehide(t, left) ==
    /\ servicer' = [servicer EXCEPT ![t] = FALSE]
    /\ \/ /\ servicer[t]
          /\ ping' = None /\ owner' = None
          /\ inbox' = [Notify(t, PingRemoved) EXCEPT ![t] = left]
       \/ /\ ~servicer[t]
          /\ inbox' = [inbox EXCEPT ![t] = left]
          /\ UNCHANGED <<ping, owner>>
    /\ UNCHANGED claimant

(* What goes with a page: its timers, and the app.                         *)
Gone(t) ==
    /\ pc' = [pc EXCEPT ![t] = "closed"]
    /\ since' = [since EXCEPT ![t] = 0]
    /\ sleep' = [sleep EXCEPT ![t] = 0]
    /\ frozen' = [frozen EXCEPT ![t] = FALSE]

(* The page is closed, or the user navigates away from it. *)
Close(t) ==
    /\ Awake(t)
    /\ Pagehide(t, {})
    /\ Gone(t)

(* The page goes to the back/forward cache and may be resumed. *)
Hide(t) ==
    /\ BFCache
    /\ Awake(t)
    /\ Pagehide(t, inbox[t])
    /\ frozen' = [frozen EXCEPT ![t] = TRUE]
    /\ UNCHANGED <<pc, since, sleep>>

Resume(t) ==
    /\ Open(t) /\ frozen[t]
    /\ frozen' = [frozen EXCEPT ![t] = FALSE]
    /\ UNCHANGED <<storage, pc, servicer, since, sleep, inbox>>

(* The tab dies without a pagehide event. *)
Crash(t) ==
    /\ Open(t)
    /\ Gone(t)
    /\ servicer' = [servicer EXCEPT ![t] = FALSE]
    /\ inbox' = [inbox EXCEPT ![t] = {}]
    /\ UNCHANGED storage

(* Time passes; a running servicer is never more than MaxGap late. *)
Tick ==
    /\ \A t \in Tab : servicer[t] => since[t] < MaxGap
    /\ ping' = IF ping \in 0 .. Expiry THEN ping + 1 ELSE ping
    /\ since' = [t \in Tab |-> IF servicer[t] THEN since[t] + 1 ELSE 0]
    /\ sleep' = [t \in Tab |-> IF Awake(t) /\ sleep[t] > 0
                               THEN sleep[t] - 1 ELSE sleep[t]]
    /\ UNCHANGED <<claimant, owner, pc, servicer, inbox, frozen>>

Step(t) ==
    \/ Start(t) \/ Confirm(t) \/ WakeUp(t)
    \/ \E k \in Key : StorageEvent(t, k)
    \/ FinishAbort(t) \/ FinishStop(t) \/ StopFails(t) \/ Service(t)
    \/ Close(t) \/ Hide(t) \/ Resume(t) \/ Crash(t)

Next == Tick \/ \E t \in Tab : Step(t)

Spec == Init /\ [][Next]_vars
----------------------------------------------------------------------------
(* SAFETY *)

(* Two tabs never run the application at the same time: the tab that takes *)
(* the lock does so after the previous one has shut down (getSessionLock,  *)
(* "ensure that only one instance of the application is running at once"). *)
MutualExclusion ==
    \A t, u \in Tab : Active(t) /\ Active(u) => t = u

(* The tab whose claim stands is in line for the lock, has it, or is gone: *)
(* however the claims interleave, the newest tab is never told to stop, so *)
(* two tabs never displace each other.                                     *)
NewestSurvives ==
    claimant # None => pc[claimant] \in {"waiting", "running", "closed"}

(* Even where two tabs do run at once, because a hidden page came back, the *)
(* overlap ends: one of them is shutting down or has the event that tells  *)
(* it to ("rely on onStorageEvent kicking in soon enough after we resume"). *)
OverlapResolves ==
    \A t, u \in Tab : t # u /\ Active(t) /\ Active(u) =>
        \E v \in {t, u} : pc[v] # "running" \/ "claimant" \in inbox[v]

(* A ping is only removed when the tab that wrote it no longer runs        *)
(* ("otherwise we could be removing someone else's claim!").               *)
NoForeignRemoval ==
    [][ping # None /\ ping' = None =>
        \A t \in Tab : owner = t => ~Active(t)']_vars

(* What keeps the lock closed: a running servicer belongs to the tab that  *)
(* runs the application, its ping is the one in storage and not stale.     *)
ServicerInv ==
    \A t \in Tab : servicer[t] =>
        /\ Active(t)
        /\ owner = t
        /\ ping \in Nat /\ ping <= since[t] /\ since[t] <= MaxGap

(* Conversely a tab that runs the application keeps its ping alive. *)
ActiveInv == \A t \in Tab : Active(t) => servicer[t]

(* The inductive invariant behind the safety properties.  It needs Timely: *)
(* no page comes back from the back/forward cache and no service is late.  *)
IInv == TypeOK /\ ServicerInv /\ ActiveInv /\ \A t \in Tab : ~frozen[t]

Timely == ~BFCache /\ MaxGap < Expiry

(* The storage protocol implements the lock it stands for: the tab that    *)
(* starts is the one whose claim came last, and it starts when no other    *)
(* tab runs (getSessionLock: "Once we are the sole instance").             *)
Running == {t \in Tab : Active(t)}
Lock == INSTANCE TabLock WITH newest <- claimant, running <- Running
ImplementsTabLock == Lock!Spec

----------------------------------------------------------------------------
(* LIVENESS: the browser runs timers, delivers events and settles promises. *)

Fairness ==
    /\ WF_vars(Tick)
    /\ \A t \in Tab :
        /\ WF_vars(WakeUp(t)) /\ WF_vars(Service(t))
        /\ WF_vars(FinishAbort(t)) /\ WF_vars(FinishStop(t) \/ StopFails(t))
        /\ \A k \in Key : WF_vars(StorageEvent(t, k))

FairSpec == Spec /\ Fairness

(* A waiting tab gets the lock or learns that a newer tab wants it, even   *)
(* when the tab that had the lock died without removing its ping.  Only a  *)
(* tab whose onNewInstance failed may keep it from that.                   *)
ClaimantProceeds ==
    \A t \in Tab : pc[t] = "waiting" ~>
        pc[t] # "waiting" \/ frozen[t] \/ \E u \in Tab : pc[u] = "wedged"

(* A tab displaced by a newer claim shuts down, as far as it can.          *)
DisplacedStops ==
    \A t \in Tab :
        pc[t] = "running" /\ claimant # t ~>
            pc[t] \in {"stopped", "wedged", "closed"} \/ frozen[t]
=============================================================================
