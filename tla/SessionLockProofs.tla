-------------------------- MODULE SessionLockProofs --------------------------
(* Theorems about SessionLock, for any number of tabs and any timing.        *)
EXTENDS SessionLogout, TLAPS

(* No step changes the type of anything. *)
LEMMA TypeStep == TypeOK /\ [Next]_vars => TypeOK'
<1> SUFFICES ASSUME TypeOK, [Next]_vars PROVE TypeOK'
  OBVIOUS
<1> USE SessionLockAssumption DEF TypeOK, State, Key, storage, Notify, PingRemoved
<1>1. CASE UNCHANGED vars
  BY <1>1 DEF vars
<1>2. CASE Tick
  BY <1>2 DEF Tick
<1> DEFINE NewTypes == /\ owner' \in Tab \cup {None} /\ ping' \in Nat \cup {None}
                       /\ pc' \in [Tab -> State] /\ servicer' \in [Tab -> BOOLEAN]
                       /\ since' \in [Tab -> Nat] /\ sleep' \in [Tab -> Nat]
<1>a. ASSUME NEW t \in Tab, Acquire(t) PROVE NewTypes
  BY <1>a DEF Acquire
<1>w. ASSUME NEW t \in Tab, ~LockFree, Wait(t) PROVE NewTypes
  <2>1. ping \in Nat /\ Expiry - ping \in Nat
    BY <1>w DEF LockFree
  <2> QED BY <2>1, <1>w DEF Wait
<1>g. ASSUME NEW t \in Tab, Gone(t)
      PROVE /\ pc' \in [Tab -> State] /\ frozen' \in [Tab -> BOOLEAN]
            /\ since' \in [Tab -> Nat] /\ sleep' \in [Tab -> Nat]
  <2>1. pc' \in [Tab -> State]
    BY <1>g DEF Gone
  <2>2. since' \in [Tab -> Nat] /\ sleep' \in [Tab -> Nat]
    BY <1>g DEF Gone
  <2>3. frozen' \in [Tab -> BOOLEAN]
    BY <1>g DEF Gone
  <2> QED BY <2>1, <2>2, <2>3
<1>n. ASSUME NEW t \in Tab
      PROVE /\ Notify(t, {"ping"}) \in [Tab -> SUBSET Key]
            /\ Notify(t, {"claimant"}) \in [Tab -> SUBSET Key]
            /\ Notify(t, {"claimant", "ping"}) \in [Tab -> SUBSET Key]
            /\ Notify(t, PingRemoved) \in [Tab -> SUBSET Key]
  OBVIOUS
<1> HIDE DEF NewTypes, Notify, PingRemoved
<1>3. ASSUME NEW t \in Tab, Claim(t)
      PROVE claimant' \in Tab /\ NewTypes /\ inbox' \in [Tab -> SUBSET Key]
  BY <1>3, <1>a, <1>w, <1>n DEF Claim
<1>4. ASSUME NEW t \in Tab, Start(t) PROVE TypeOK'
  BY <1>3, <1>4 DEF Start, NewTypes
<1>5. ASSUME NEW t \in Tab, Confirm(t) PROVE TypeOK'
  BY <1>3, <1>5 DEF Confirm, NewTypes
<1>6. ASSUME NEW t \in Tab, NEW rest \in SUBSET Key, Recheck(t, rest) PROVE TypeOK'
  <2>1. NewTypes /\ inbox' \in [Tab -> SUBSET Key]
    <3>1. CASE claimant # t
      <4>1. /\ pc' = [pc EXCEPT ![t] = "aborting"] /\ sleep' = [sleep EXCEPT ![t] = 0]
            /\ inbox' = [inbox EXCEPT ![t] = rest]
            /\ UNCHANGED <<owner, ping, servicer, since>>
        BY <1>6, <3>1 DEF Recheck
      <4>2. inbox' \in [Tab -> SUBSET Key]
        BY <4>1, <1>6
      <4> QED BY <4>1, <4>2 DEF NewTypes
    <3>2. CASE claimant = t /\ LockFree
      <4>1. Acquire(t) /\ inbox' = [Notify(t, {"ping"}) EXCEPT ![t] = rest]
        BY <1>6, <3>2 DEF Recheck
      <4>2. NewTypes
        BY <4>1, <1>a
      <4>3. inbox' \in [Tab -> SUBSET Key]
        BY <4>1, <1>n, <1>6
      <4> QED BY <4>2, <4>3
    <3>3. CASE claimant = t /\ ~LockFree
      BY <1>6, <1>w, <3>3 DEF Recheck
    <3> QED BY <3>1, <3>2, <3>3
  <2> QED BY <2>1, <1>6 DEF Recheck, NewTypes
<1>7. ASSUME NEW t \in Tab, WakeUp(t) PROVE TypeOK'
  BY <1>6, <1>7 DEF WakeUp
<1>8. ASSUME NEW t \in Tab, NEW k \in Key, StorageEvent(t, k) PROVE TypeOK'
  <2>1. CASE Recheck(t, inbox[t] \ {k})
    BY <2>1, <1>6
  <2>2. CASE StealNotice(t, k)
    BY <2>2 DEF StealNotice
  <2> QED BY <1>8, <2>1, <2>2 DEF StorageEvent
<1>9. ASSUME NEW t \in Tab, FinishAbort(t) \/ StopFails(t) \/ Resume(t)
      PROVE TypeOK'
  BY <1>9 DEF FinishAbort, StopFails, Resume
<1>10. ASSUME NEW t \in Tab, FinishStop(t) \/ Service(t) PROVE TypeOK'
  <2>1. CASE FinishStop(t)
    BY <2>1, <1>n DEF FinishStop
  <2>2. CASE Service(t)
    <3>1. inbox' \in [Tab -> SUBSET Key]
      BY <2>2, <1>n DEF Service
    <3>2. since' \in [Tab -> Nat] /\ owner' \in Tab \cup {None} /\ ping' \in Nat \cup {None}
      BY <2>2 DEF Service
    <3> QED BY <2>2, <3>1, <3>2 DEF Service
  <2> QED BY <1>10, <2>1, <2>2
<1>11. ASSUME NEW t \in Tab, Close(t) \/ Hide(t) PROVE TypeOK'
  <2>1. PICK left \in SUBSET Key : Pagehide(t, left)
    BY <1>11 DEF Close, Hide
  <2>2. [inbox EXCEPT ![t] = left] \in [Tab -> SUBSET Key]
    OBVIOUS
  <2>3. [Notify(t, PingRemoved) EXCEPT ![t] = left] \in [Tab -> SUBSET Key]
    BY <1>n
  <2>4. /\ servicer' \in [Tab -> BOOLEAN] /\ ping' \in Nat \cup {None}
        /\ owner' \in Tab \cup {None} /\ inbox' \in [Tab -> SUBSET Key]
        /\ UNCHANGED claimant
    BY <2>1, <2>2, <2>3 DEF Pagehide
  <2>5. /\ pc' \in [Tab -> State] /\ frozen' \in [Tab -> BOOLEAN]
        /\ since' \in [Tab -> Nat] /\ sleep' \in [Tab -> Nat]
    <3>1. CASE Gone(t)
      BY <1>g, <3>1
    <3>2. CASE Hide(t)
      BY <3>2 DEF Hide
    <3> QED BY <1>11, <3>1, <3>2 DEF Close
  <2> QED BY <2>4, <2>5
<1>12. ASSUME NEW t \in Tab, Crash(t) PROVE TypeOK'
  <2>1. Gone(t) /\ UNCHANGED storage
    BY <1>12 DEF Crash
  <2>2. servicer' \in [Tab -> BOOLEAN] /\ inbox' \in [Tab -> SUBSET Key]
    BY <1>12 DEF Crash
  <2> QED BY <1>g, <2>1, <2>2
<1> QED BY <1>1, <1>2, <1>4, <1>5, <1>7, <1>8, <1>9, <1>10, <1>11, <1>12 DEF Next, Step

(***************************************************************************)
(* The three localStorage items and the bookkeeping of every tab keep      *)
(* their types, whatever the timing and whether or not pages are frozen.   *)
(***************************************************************************)
THEOREM TypeCorrect == Spec => []TypeOK
<1>1. Init => TypeOK
  BY SessionLockAssumption DEF Init, TypeOK, State, Key
<1> QED BY <1>1, TypeStep, PTL DEF Spec

(***************************************************************************)
(* While a servicer runs the lock cannot look free: its ping is never      *)
(* older than the time since it last ran, which stays below the expiry.    *)
(***************************************************************************)
LEMMA FreeMeansIdle ==
  ASSUME Timely, IInv, LockFree
  PROVE  \A t \in Tab : ~servicer[t] /\ ~Active(t)
<1> SUFFICES ASSUME NEW t \in Tab PROVE ~servicer[t] /\ ~Active(t)
  OBVIOUS
<1>1. ~servicer[t]
  <2> SUFFICES ASSUME servicer[t] PROVE FALSE
    OBVIOUS
  <2>1. ping \in Nat /\ ping <= since[t] /\ since[t] <= MaxGap /\ since[t] \in Nat
    BY DEF IInv, ServicerInv, TypeOK
  <2>2. ping \in 0 .. (Expiry - 1)
    BY <2>1, SessionLockAssumption DEF Timely
  <2> QED BY <2>2 DEF LockFree
<1> QED BY <1>1 DEF IInv, ActiveInv

(***************************************************************************)
(* IInv is inductive: the ping in storage is fresh as long as the servicer *)
(* of the tab that wrote it runs, and no other tab's servicer does.        *)
(***************************************************************************)
LEMMA Inductive ==
  ASSUME Timely, IInv, TypeOK', [Next]_vars
  PROVE  IInv'
<1> USE SessionLockAssumption DEF TypeOK, storage, Active, Awake, Open
<1>0. ~BFCache /\ MaxGap < Expiry
  BY DEF Timely
<1>a. ASSUME NEW t \in Tab, LockFree, Acquire(t), UNCHANGED frozen PROVE IInv'
  <2>1. \A u \in Tab : ~servicer[u] /\ ~Active(u)
    BY FreeMeansIdle, <1>a
  <2>2. \A u \in Tab : ~frozen'[u]
    BY <1>a DEF IInv
  <2>3. ServicerInv'
    BY <1>a, <2>1, <2>2 DEF Acquire, ServicerInv
  <2>4. ActiveInv'
    BY <1>a, <2>1, <2>2 DEF Acquire, ActiveInv
  <2> QED BY <2>2, <2>3, <2>4 DEF IInv
<1>w. ASSUME NEW t \in Tab, pc'[t] \notin {"running", "stopping", "wedged"},
             pc[t] \notin {"running", "stopping", "wedged"},
             pc' = [pc EXCEPT ![t] = pc'[t]],
             UNCHANGED <<owner, ping, servicer, since, frozen>>
      PROVE  IInv'
  BY <1>w DEF IInv, ServicerInv, ActiveInv
<1>r. ASSUME NEW t \in Tab, pc[t] \notin {"running", "stopping", "wedged"},
             UNCHANGED frozen, Wait(t)
      PROVE  IInv'
  <2>1. /\ pc' = [pc EXCEPT ![t] = "waiting"] /\ pc'[t] = "waiting"
        /\ UNCHANGED <<owner, ping, servicer, since>>
    BY <1>r DEF Wait
  <2>2. pc' = [pc EXCEPT ![t] = pc'[t]] /\ pc'[t] \notin {"running", "stopping", "wedged"}
    BY <2>1
  <2> QED BY <1>r, <1>w, <2>1, <2>2
<1>1. CASE UNCHANGED vars
  BY <1>1 DEF vars, IInv, ServicerInv, ActiveInv
<1>2. CASE Tick
  <2>1. ServicerInv'
    BY <1>0, <1>2 DEF Tick, IInv, ServicerInv
  <2>2. ActiveInv' /\ \A u \in Tab : ~frozen'[u]
    BY <1>2 DEF Tick, IInv, ActiveInv
  <2> QED BY <2>1, <2>2 DEF IInv
<1>3. ASSUME NEW t \in Tab, Start(t) PROVE IInv'
  <2>1. CASE LockFree /\ Acquire(t)
    BY <1>3, <1>a, <2>1 DEF Start
  <2>2. CASE Wait(t)
    BY <1>3, <1>r, <2>2 DEF Start
  <2>3. CASE pc' = [pc EXCEPT ![t] = "confirm"] /\ UNCHANGED <<storage, servicer, since, sleep, inbox>>
    <3>1. pc'[t] = "confirm" /\ pc[t] = "unopened"
      BY <1>3, <2>3 DEF Start
    <3> QED BY <1>3, <1>w, <2>3, <3>1 DEF Start
  <2> QED BY <1>3, <2>1, <2>2, <2>3 DEF Start, Claim
<1>4. ASSUME NEW t \in Tab, Confirm(t) PROVE IInv'
  <2>1. CASE LockFree /\ Acquire(t)
    BY <1>4, <1>a, <2>1 DEF Confirm
  <2>2. CASE Wait(t)
    BY <1>4, <1>r, <2>2 DEF Confirm
  <2> QED BY <1>4, <2>1, <2>2 DEF Confirm, Claim
<1>5. ASSUME NEW t \in Tab, NEW rest, pc[t] = "waiting", Recheck(t, rest) PROVE IInv'
  <2>1. CASE LockFree /\ Acquire(t)
    BY <1>5, <1>a, <2>1 DEF Recheck
  <2>2. CASE Wait(t)
    BY <1>5, <1>r, <2>2 DEF Recheck
  <2>3. CASE pc' = [pc EXCEPT ![t] = "aborting"] /\ UNCHANGED <<owner, ping, servicer, since>>
    <3>1. pc'[t] = "aborting"
      BY <2>3
    <3> QED BY <1>5, <1>w, <2>3, <3>1 DEF Recheck
  <2> QED BY <1>5, <2>1, <2>2, <2>3 DEF Recheck
<1>6. ASSUME NEW t \in Tab, WakeUp(t) PROVE IInv'
  BY <1>6, <1>5 DEF WakeUp
<1>7. ASSUME NEW t \in Tab, NEW k \in Key, StorageEvent(t, k) PROVE IInv'
  <2>1. CASE pc[t] = "waiting" /\ Recheck(t, inbox[t] \ {k})
    BY <1>5, <2>1
  <2>2. CASE pc[t] = "running" /\ StealNotice(t, k)
    <3>1. /\ pc' = [pc EXCEPT ![t] = pc'[t]] /\ pc'[t] \in {"running", "stopping"}
          /\ UNCHANGED <<owner, ping, servicer, since, frozen>>
      BY <2>2 DEF StealNotice
    <3> QED BY <2>2, <3>1 DEF IInv, ServicerInv, ActiveInv
  <2>3. CASE UNCHANGED <<storage, pc, servicer, since, sleep, frozen>>
    BY <2>3 DEF IInv, ServicerInv, ActiveInv
  <2> QED BY <1>7, <2>1, <2>2, <2>3 DEF StorageEvent
<1>8. ASSUME NEW t \in Tab, FinishAbort(t) PROVE IInv'
  BY <1>8 DEF FinishAbort, IInv, ServicerInv, ActiveInv
<1>9. ASSUME NEW t \in Tab, FinishStop(t) PROVE IInv'
  <2>1. \A u \in Tab \ {t} : ~servicer[u]
    BY <1>9 DEF FinishStop, IInv, ServicerInv, ActiveInv
  <2>2. /\ pc' = [pc EXCEPT ![t] = "stopped"] /\ UNCHANGED frozen
        /\ servicer' = [servicer EXCEPT ![t] = FALSE]
    BY <1>9 DEF FinishStop
  <2>3. \A u \in Tab : ~servicer'[u]
    BY <2>1, <2>2
  <2> QED BY <2>2, <2>3 DEF IInv, ServicerInv, ActiveInv
<1>10. ASSUME NEW t \in Tab, StopFails(t) PROVE IInv'
  BY <1>10 DEF StopFails, IInv, ServicerInv, ActiveInv
<1>11. ASSUME NEW t \in Tab, Service(t) PROVE IInv'
  <2>1. \A u \in Tab \ {t} : ~servicer[u]
    BY <1>11 DEF Service, IInv, ServicerInv
  <2>2. /\ owner' = t /\ ping' = 0 /\ since' = [since EXCEPT ![t] = 0]
        /\ UNCHANGED <<pc, servicer, frozen>>
    BY <1>11 DEF Service
  <2> QED BY <2>1, <2>2 DEF IInv, ServicerInv, ActiveInv
<1>12. ASSUME NEW t \in Tab, Close(t) PROVE IInv'
  <2>1. /\ pc' = [pc EXCEPT ![t] = "closed"] /\ since' = [since EXCEPT ![t] = 0]
        /\ frozen' = [frozen EXCEPT ![t] = FALSE]
        /\ servicer' = [servicer EXCEPT ![t] = FALSE]
    BY <1>12 DEF Close, Pagehide, Gone
  <2>2. CASE servicer[t]
    <3>1. \A u \in Tab : ~servicer'[u]
      BY <2>1, <2>2 DEF IInv, ServicerInv
    <3> QED BY <2>1, <3>1 DEF IInv, ServicerInv, ActiveInv
  <2>3. CASE ~servicer[t]
    <3>1. UNCHANGED <<owner, ping>>
      BY <1>12, <2>3 DEF Close, Pagehide
    <3> QED BY <2>1, <2>3, <3>1 DEF IInv, ServicerInv, ActiveInv
  <2> QED BY <2>2, <2>3
<1>13. ASSUME NEW t \in Tab, Hide(t) \/ Resume(t) PROVE IInv'
  BY <1>0, <1>13 DEF Hide, Resume, IInv
<1>14. ASSUME NEW t \in Tab, Crash(t) PROVE IInv'
  BY <1>14 DEF Crash, Gone, storage, IInv, ServicerInv, ActiveInv
<1> QED
  BY <1>1, <1>2, <1>3, <1>4, <1>6, <1>7, <1>8, <1>9, <1>10, <1>11, <1>12, <1>13, <1>14
  DEF Next, Step

(***************************************************************************)
(* The invariant holds throughout, for any number of tabs.                 *)
(***************************************************************************)
THEOREM Invariance == ASSUME Timely PROVE Spec => []IInv
<1>1. Init => IInv
  <2>1. Init => ServicerInv /\ ActiveInv /\ \A t \in Tab : ~frozen[t]
    BY DEF Init, ServicerInv, ActiveInv, Active, Awake, Open
  <2>2. Init => TypeOK
    BY SessionLockAssumption DEF Init, TypeOK, State, Key
  <2> QED BY <2>1, <2>2 DEF IInv
<1>2. IInv /\ TypeOK' /\ [Next]_vars => IInv'
  BY Inductive
<1>3. Spec => []TypeOK
  BY TypeCorrect
<1> QED BY <1>1, <1>2, <1>3, PTL DEF Spec

(***************************************************************************)
(* Two tabs never run the application at once, provided that the servicer  *)
(* of a live tab is never later than the expiry time and that no page      *)
(* comes back from the back/forward cache.                                 *)
(***************************************************************************)
THEOREM Exclusion == ASSUME Timely PROVE Spec => []MutualExclusion
<1>1. IInv => MutualExclusion
  BY DEF IInv, ServicerInv, ActiveInv, MutualExclusion
<1> QED BY <1>1, Invariance, PTL

(***************************************************************************)
(* A ping is removed only by, or after the end of, the tab that wrote it,  *)
(* although releaseLock and onPagehideEvent remove whatever ping is there. *)
(***************************************************************************)
THEOREM OwnRemoval == ASSUME Timely PROVE Spec => NoForeignRemoval
<1>1. IInv /\ [Next]_vars =>
        [ping # None /\ ping' = None => \A t \in Tab : owner = t => ~Active(t)']_vars
  <2> SUFFICES ASSUME IInv, Next, ping # None, ping' = None,
                      NEW u \in Tab, owner = u
               PROVE  ~Active(u)'
    OBVIOUS
  <2> USE SessionLockAssumption DEF Active, Awake, Open
  <2>1. ASSUME NEW t \in Tab, FinishStop(t) PROVE ~Active(u)'
    <3>1. t = u
      BY <2>1 DEF FinishStop, IInv, ServicerInv, ActiveInv
    <3> QED BY <2>1, <3>1 DEF FinishStop, IInv, TypeOK
  <2>2. ASSUME NEW t \in Tab, Close(t) PROVE ~Active(u)'
    <3>1. t = u
      BY <2>2 DEF Close, Pagehide, storage, IInv, ServicerInv
    <3> QED BY <2>2, <3>1 DEF Close, Gone, IInv, TypeOK
  <2>3. CASE Tick
    BY <2>3 DEF Tick, IInv, TypeOK
  <2>4. ASSUME NEW t \in Tab, Acquire(t) PROVE FALSE
    BY <2>4 DEF Acquire
  <2>5. ASSUME NEW t \in Tab, Start(t) \/ Confirm(t) PROVE FALSE
    BY <2>4, <2>5 DEF Start, Confirm, Claim, Wait, storage
  <2>6. ASSUME NEW t \in Tab, NEW rest, Recheck(t, rest) PROVE FALSE
    BY <2>4, <2>6 DEF Recheck, Wait
  <2>7. ASSUME NEW t \in Tab, NEW k \in Key, StorageEvent(t, k) PROVE FALSE
    BY <2>6, <2>7 DEF StorageEvent, StealNotice, storage
  <2>8. ASSUME NEW t \in Tab,
               FinishAbort(t) \/ StopFails(t) \/ Resume(t) \/ Crash(t) \/ Service(t) \/ Hide(t)
        PROVE FALSE
    BY <2>8 DEF FinishAbort, StopFails, Resume, Crash, Service, Hide, storage, Timely
  <2>9. ASSUME NEW t \in Tab, WakeUp(t) PROVE FALSE
    BY <2>6, <2>9 DEF WakeUp
  <2> QED BY <2>1, <2>2, <2>3, <2>5, <2>7, <2>8, <2>9 DEF Next, Step
<1> QED BY <1>1, Invariance, PTL DEF Spec, NoForeignRemoval

(***************************************************************************)
(* The storage protocol implements TabLock: whatever storage events are    *)
(* pending, a tab starts only when no tab runs and its claim came last.    *)
(***************************************************************************)
THEOREM Refinement == ASSUME Timely PROVE Spec => ImplementsTabLock
<1>1. Init => Lock!Init
  BY DEF Init, Lock!Init, Running, Active, Awake, Open
<1>2. IInv /\ [Next]_vars => [Lock!Next]_<<claimant, Running>>
  <2> SUFFICES ASSUME IInv, [Next]_vars
               PROVE  Lock!Next \/ UNCHANGED <<claimant, Running>>
    OBVIOUS
  <2> USE SessionLockAssumption DEF Active, Awake, Open, storage
  <2>0. TypeOK /\ ~BFCache
    BY DEF IInv, Timely
  <2>a. ASSUME NEW t \in Tab, LockFree, Acquire(t), UNCHANGED frozen
        PROVE  Running = {} /\ Running' = {t}
    <3>1. \A u \in Tab : ~Active(u)
      BY FreeMeansIdle, <2>a
    <3>2. ~frozen[t]
      BY DEF IInv
    <3>3. \A u \in Tab : Active(u)' <=> u = t
      BY <2>0, <2>a, <3>1, <3>2 DEF Acquire, TypeOK
    <3> QED BY <3>1, <3>3 DEF Running
  <2>s. ASSUME \A u \in Tab : Active(u)' <=> Active(u)
        PROVE  Running' = Running
    BY <2>s DEF Running
  <2>l. ASSUME NEW t \in Tab, \A u \in Tab \ {t} : Active(u)' <=> Active(u), ~Active(t)',
               UNCHANGED claimant
        PROVE  Lock!Next \/ UNCHANGED <<claimant, Running>>
    <3>1. CASE Active(t)
      <4>1. t \in Running /\ Running' = Running \ {t}
        BY <2>l, <3>1 DEF Running
      <4> QED BY <2>l, <4>1 DEF Lock!Next, Lock!Leave
    <3>2. CASE ~Active(t)
      BY <2>l, <2>s, <3>2
    <3> QED BY <3>1, <3>2
  <2>w. ASSUME NEW t \in Tab, Wait(t), UNCHANGED frozen,
               pc[t] \notin {"running", "stopping", "wedged"}
        PROVE  Running' = Running
    BY <2>0, <2>s, <2>w DEF Wait, TypeOK
  <2>c. ASSUME NEW t \in Tab, Claim(t), UNCHANGED frozen,
               pc[t] \notin {"running", "stopping", "wedged"}
        PROVE  Lock!Next
    <3>1. claimant' = t /\ (Running' = Running \/ (Running = {} /\ Running' = {t}))
      <4>0. claimant' = t /\ ((LockFree /\ Acquire(t)) \/ Wait(t))
        BY <2>c DEF Claim
      <4>1. CASE LockFree /\ Acquire(t)
        <5>1. Running = {} /\ Running' = {t}
          BY <2>a, <2>c, <4>1
        <5> QED BY <4>0, <5>1
      <4>2. CASE Wait(t)
        <5>1. Running' = Running
          BY <2>w, <2>c, <4>2
        <5> QED BY <4>0, <5>1
      <4> QED BY <4>0, <4>1, <4>2
    <3> QED BY <3>1 DEF Lock!Next, Lock!Arrive
  <2>1. CASE UNCHANGED vars
    BY <2>1, <2>s DEF vars
  <2>2. CASE Tick
    BY <2>2, <2>s DEF Tick
  <2>3. ASSUME NEW t \in Tab, Start(t)
        PROVE  Lock!Next \/ UNCHANGED <<claimant, Running>>
    <3>1. CASE Claim(t)
      BY <2>3, <2>c, <3>1 DEF Start
    <3>2. CASE pc' = [pc EXCEPT ![t] = "confirm"] /\ UNCHANGED storage
      BY <2>0, <2>3, <2>s, <3>2 DEF Start, TypeOK
    <3> QED BY <2>3, <3>1, <3>2 DEF Start
  <2>4. ASSUME NEW t \in Tab, Confirm(t)
        PROVE  Lock!Next
    BY <2>4, <2>c DEF Confirm
  <2>5. ASSUME NEW t \in Tab, NEW rest, pc[t] = "waiting", Recheck(t, rest)
        PROVE  Lock!Next \/ UNCHANGED <<claimant, Running>>
    <3>1. CASE claimant = t /\ LockFree /\ Acquire(t)
      <4>1. Running = {} /\ Running' = {claimant} /\ UNCHANGED claimant
        BY <2>5, <2>a, <3>1 DEF Recheck
      <4>2. claimant # None
        BY <3>1
      <4> QED BY <4>1, <4>2 DEF Lock!Next, Lock!Take
    <3>2. CASE Wait(t)
      BY <2>5, <2>w, <3>2 DEF Recheck
    <3>3. CASE pc' = [pc EXCEPT ![t] = "aborting"]
      BY <2>0, <2>5, <2>s, <3>3 DEF Recheck, TypeOK
    <3> QED BY <2>5, <3>1, <3>2, <3>3 DEF Recheck
  <2>6. ASSUME NEW t \in Tab, NEW k \in Key, StorageEvent(t, k)
        PROVE  Lock!Next \/ UNCHANGED <<claimant, Running>>
    <3>1. CASE pc[t] = "running" /\ StealNotice(t, k)
      BY <2>0, <2>s, <3>1 DEF StealNotice, TypeOK
    <3>2. CASE UNCHANGED <<storage, pc, servicer, since, sleep, frozen>>
      BY <2>s, <3>2
    <3> QED BY <2>5, <2>6, <3>1, <3>2 DEF StorageEvent
  <2>7. ASSUME NEW t \in Tab, FinishAbort(t) \/ FinishStop(t) \/ Close(t) \/ Crash(t)
        PROVE  Lock!Next \/ UNCHANGED <<claimant, Running>>
    BY <2>0, <2>7, <2>l DEF FinishAbort, FinishStop, Close, Pagehide, Crash, Gone, storage, TypeOK
  <2>8. ASSUME NEW t \in Tab, StopFails(t) \/ Service(t)
        PROVE  UNCHANGED <<claimant, Running>>
    BY <2>0, <2>8, <2>s DEF StopFails, Service, TypeOK
  <2>9. ASSUME NEW t \in Tab, Hide(t) \/ Resume(t) PROVE FALSE
    BY <2>0, <2>9 DEF Hide, Resume, IInv
  <2>10. ASSUME NEW t \in Tab, WakeUp(t)
         PROVE  Lock!Next \/ UNCHANGED <<claimant, Running>>
    BY <2>5, <2>10 DEF WakeUp
  <2> QED BY <2>1, <2>2, <2>3, <2>4, <2>6, <2>7, <2>8, <2>9, <2>10 DEF Next, Step
<1> QED BY <1>1, <1>2, Invariance, PTL DEF Spec, ImplementsTabLock, Lock!Spec

----------------------------------------------------------------------------
(* A tab that runs while another's claim stands has the event of a claim   *)
(* still to handle.  When the items are cleared nobody's claim stands, but  *)
(* of two tabs that run one has it all the same.                           *)
Informed ==
    /\ \A t \in Tab : pc[t] = "running" /\ claimant \notin {t, None} => "claimant" \in inbox[t]
    /\ \A t, u \in Tab : t # u /\ pc[t] = "running" /\ pc[u] = "running" =>
          \E v \in {t, u} : "claimant" \in inbox[v]

(***************************************************************************)
(* The newest tab is never told to stop, and every other tab that runs has *)
(* the event that tells it to, with every timing, with the back/forward    *)
(* cache, and with logins and logouts in any tab.                          *)
(***************************************************************************)
THEOREM Newest == Spec \/ LogoutSpec => [](NewestSurvives /\ Informed)
<1>1. Init => TypeOK /\ NewestSurvives /\ Informed
  BY SessionLockAssumption DEF Init, TypeOK, State, Key, NewestSurvives, Informed
<1>2. [Next]_vars => [LogoutNext]_vars
  BY DEF LogoutNext
<1>3. TypeOK /\ [LogoutNext]_vars => TypeOK'
  <2> SUFFICES ASSUME TypeOK, ClearStorage PROVE TypeOK'
    BY TypeStep DEF LogoutNext, OnLoggedOut, DoSetLoggedIn
  <2> QED BY DEF ClearStorage, TypeOK
(* What is enough for one tab that takes a step: the others stay as they   *)
(* are, and the storage does unless the tab stakes a claim.                *)
<1>4. ASSUME TypeOK, NewestSurvives, Informed, claimant' = claimant, NEW t \in Tab,
             \A u \in Tab \ {t} : pc'[u] = pc[u] /\ inbox[u] \subseteq inbox'[u],
             claimant = t => pc'[t] \in {"waiting", "running", "closed"},
             pc'[t] = "running" =>
                 \/ claimant = t
                 \/ pc[t] = "running" /\ ("claimant" \in inbox[t] => "claimant" \in inbox'[t])
      PROVE  NewestSurvives' /\ Informed'
  <2>1. NewestSurvives'
    BY <1>4 DEF NewestSurvives, TypeOK
  <2>2. ASSUME NEW u \in Tab, pc'[u] = "running", claimant' \notin {u, None}
        PROVE  "claimant" \in inbox'[u]
    BY <1>4, <2>2 DEF Informed
  <2>3. ASSUME NEW u \in Tab \ {t}, pc'[t] = "running", pc'[u] = "running"
        PROVE  \E v \in {t, u} : "claimant" \in inbox'[v]
    <3>1. CASE claimant = t
      <4>1. claimant' \notin {u, None}
        BY <1>4, <3>1, SessionLockAssumption
      <4> QED BY <2>2, <2>3, <4>1
    <3>2. CASE claimant # t
      <4>1. /\ pc[t] = "running" /\ pc[u] = "running"
            /\ "claimant" \in inbox[t] => "claimant" \in inbox'[t]
            /\ "claimant" \in inbox[u] => "claimant" \in inbox'[u]
        BY <1>4, <2>3, <3>2
      <4>2. \E v \in {t, u} : "claimant" \in inbox[v]
        BY <1>4, <4>1 DEF Informed
      <4> QED BY <4>1, <4>2
    <3> QED BY <3>1, <3>2
  <2>4. ASSUME NEW u \in Tab \ {t}, NEW v \in Tab \ {t}, u # v, pc'[u] = "running", pc'[v] = "running"
        PROVE  \E w \in {u, v} : "claimant" \in inbox'[w]
    BY <1>4, <2>4 DEF Informed
  <2> QED BY <2>1, <2>2, <2>3, <2>4 DEF Informed
<1>Notified. ASSUME TypeOK, NEW t \in Tab, NEW keys
             PROVE  \A u \in Tab : /\ inbox[u] \subseteq Notify(t, keys)[u]
                                   /\ u # t /\ pc[u] = "running" => keys \subseteq Notify(t, keys)[u]
                                   /\ Notify(t, keys)[t] = inbox[t]
  BY DEF Notify, Open
(* A tab stakes its claim, which all others hear of. *)
<1>5. ASSUME TypeOK, NewestSurvives, Informed, NEW t \in Tab, Claim(t) PROVE NewestSurvives' /\ Informed'
  <2>1. claimant' = t /\ pc'[t] \in {"running", "waiting"} /\ \A u \in Tab \ {t} : pc'[u] = pc[u]
    BY <1>5 DEF Claim, Acquire, Wait, TypeOK
  <2>2. \A u \in Tab \ {t} : pc[u] = "running" => "claimant" \in inbox'[u]
    <3>1. inbox' = Notify(t, {"claimant", "ping"}) \/ inbox' = Notify(t, {"claimant"})
      BY <1>5 DEF Claim
    <3> QED BY <1>5, <1>Notified, <3>1
  <2>3. NewestSurvives'
    BY <2>1 DEF NewestSurvives
  <2> QED BY <2>1, <2>2, <2>3 DEF Informed
(* A waiting tab looks again. *)
<1>6. ASSUME TypeOK, NewestSurvives, Informed, NEW t \in Tab, NEW rest \in SUBSET Key,
             pc[t] = "waiting", Recheck(t, rest)
      PROVE  NewestSurvives' /\ Informed'
  <2>1. claimant' = claimant
    BY <1>6 DEF Recheck
  <2>2. \A u \in Tab \ {t} : inbox[u] \subseteq inbox'[u]
    <3>1. inbox' = [inbox EXCEPT ![t] = rest] \/ inbox' = [Notify(t, {"ping"}) EXCEPT ![t] = rest]
      BY <1>6 DEF Recheck
    <3>2. CASE inbox' = [inbox EXCEPT ![t] = rest]
      BY <1>6, <3>2 DEF TypeOK
    <3>3. CASE inbox' = [Notify(t, {"ping"}) EXCEPT ![t] = rest]
      <4>1. \A u \in Tab \ {t} : inbox'[u] = Notify(t, {"ping"})[u]
        BY <3>3 DEF Notify
      <4> QED BY <1>6, <1>Notified, <4>1
    <3> QED BY <3>1, <3>2, <3>3
  <2>3. /\ \A u \in Tab \ {t} : pc'[u] = pc[u]
        /\ IF claimant = t THEN pc'[t] \in {"waiting", "running"} ELSE pc'[t] = "aborting"
    BY <1>6 DEF Recheck, Acquire, Wait, TypeOK
  <2> QED BY <1>4, <1>6, <2>1, <2>2, <2>3
<1>7. ASSUME TypeOK, NewestSurvives, Informed, NEW t \in Tab, NEW k \in Key, StorageEvent(t, k)
      PROVE  NewestSurvives' /\ Informed'
  <2>1. CASE pc[t] = "waiting" /\ Recheck(t, inbox[t] \ {k})
    BY <1>6, <1>7, <2>1 DEF TypeOK
  <2>2. CASE pc[t] = "running" /\ StealNotice(t, k)
    <3>1. /\ claimant' = claimant /\ inbox'[t] = inbox[t] \ {k}
          /\ \A u \in Tab \ {t} : pc'[u] = pc[u] /\ inbox'[u] = inbox[u]
          /\ pc'[t] = IF k = "claimant" /\ claimant # t THEN "stopping" ELSE "running"
      BY <1>7, <2>2 DEF StealNotice, TypeOK, storage
    <3> QED BY <1>4, <1>7, <2>2, <3>1
  <2>3. CASE /\ pc[t] \notin {"waiting", "running"} /\ inbox' = [inbox EXCEPT ![t] = @ \ {k}]
             /\ UNCHANGED <<storage, pc, servicer, since, sleep, frozen>>
    <3>1. /\ claimant' = claimant /\ pc' = pc /\ \A u \in Tab \ {t} : inbox'[u] = inbox[u]
      BY <1>7, <2>3 DEF TypeOK, storage
    <3>2. claimant = t => pc[t] \in {"waiting", "running", "closed"}
      BY <1>7, SessionLockAssumption DEF NewestSurvives
    <3> QED BY <1>4, <1>7, <2>3, <3>1, <3>2
  <2> QED BY <1>7, <2>1, <2>2, <2>3 DEF StorageEvent
(* A tab that ends, or goes on with its end. *)
<1>8. ASSUME TypeOK, NewestSurvives, Informed, NEW t \in Tab,
             FinishAbort(t) \/ FinishStop(t) \/ StopFails(t) \/ Close(t) \/ Crash(t)
      PROVE  NewestSurvives' /\ Informed'
  <2>1. claimant' = claimant
    BY <1>8 DEF FinishAbort, FinishStop, StopFails, Close, Pagehide, Crash, storage
  <2>2. claimant = t => pc[t] \in {"waiting", "running", "closed"}
    BY <1>8, SessionLockAssumption DEF NewestSurvives
  <2>3. /\ \A u \in Tab \ {t} : pc'[u] = pc[u]
        /\ pc'[t] # "running" /\ (claimant = t => pc'[t] = "closed")
    BY <1>8, <2>2 DEF FinishAbort, FinishStop, StopFails, Close, Crash, Gone, TypeOK
  <2>4. \A u \in Tab \ {t} : inbox[u] \subseteq inbox'[u]
    <3>1. \/ inbox' = inbox \/ inbox' = Notify(t, PingRemoved) \/ inbox' = [inbox EXCEPT ![t] = {}]
          \/ inbox' = [Notify(t, PingRemoved) EXCEPT ![t] = {}]
      BY <1>8 DEF FinishAbort, FinishStop, StopFails, Close, Pagehide, Crash
    <3>2. \A u \in Tab \ {t} : inbox'[u] \in {inbox[u], Notify(t, PingRemoved)[u]}
      BY <1>8, <3>1 DEF TypeOK, Notify
    <3> QED BY <1>8, <1>Notified, <3>2
  <2> QED BY <1>4, <1>8, <2>1, <2>3, <2>4
(* A tab that goes on where it was. *)
<1>9. ASSUME TypeOK, NewestSurvives, Informed, claimant' = claimant, pc' = pc,
             \A u \in Tab : inbox[u] \subseteq inbox'[u]
      PROVE  NewestSurvives' /\ Informed'
  BY <1>9 DEF NewestSurvives, Informed
<1>10. ASSUME TypeOK, NewestSurvives, Informed, NEW t \in Tab, Service(t) \/ Hide(t) \/ Resume(t)
       PROVE  NewestSurvives' /\ Informed'
  <2>1. claimant' = claimant /\ pc' = pc
    BY <1>10 DEF Service, Hide, Pagehide, Resume, storage
  <2>2. \/ inbox' = Notify(t, {"ping"}) \/ inbox' = inbox \/ inbox' = [inbox EXCEPT ![t] = inbox[t]]
        \/ inbox' = [Notify(t, PingRemoved) EXCEPT ![t] = inbox[t]]
    BY <1>10 DEF Service, Hide, Pagehide, Resume
  <2>3. \A u \in Tab : inbox'[u] \in {inbox[u], Notify(t, {"ping"})[u], Notify(t, PingRemoved)[u]}
    BY <1>10, <2>2 DEF TypeOK, Notify
  <2> QED BY <1>9, <1>10, <1>Notified, <2>1, <2>3
<1>11. TypeOK /\ NewestSurvives /\ Informed /\ [LogoutNext]_vars => NewestSurvives' /\ Informed'
  <2> SUFFICES ASSUME TypeOK, NewestSurvives, Informed, [LogoutNext]_vars PROVE NewestSurvives' /\ Informed'
    OBVIOUS
  <2>1. ASSUME NEW t \in Tab, Start(t) PROVE NewestSurvives' /\ Informed'
    <3>1. CASE Claim(t)
      BY <1>5, <3>1
    <3>2. CASE pc' = [pc EXCEPT ![t] = "confirm"] /\ UNCHANGED <<storage, servicer, since, sleep, inbox>>
      <4>1. /\ claimant' = claimant /\ inbox' = inbox /\ pc'[t] = "confirm" /\ \A u \in Tab \ {t} : pc'[u] = pc[u]
            /\ pc[t] = "unopened"
        BY <2>1, <3>2 DEF Start, TypeOK, storage
      <4>2. claimant # t
        BY <4>1, SessionLockAssumption DEF NewestSurvives
      <4> QED BY <1>4, <4>1, <4>2
    <3> QED BY <2>1, <3>1, <3>2 DEF Start
  <2>2. ASSUME NEW t \in Tab, Confirm(t) PROVE NewestSurvives' /\ Informed'
    BY <1>5, <2>2 DEF Confirm
  <2>3. ASSUME NEW t \in Tab, WakeUp(t) PROVE NewestSurvives' /\ Informed'
    BY <1>6, <2>3 DEF WakeUp, TypeOK
  <2>4. CASE Tick
    BY <1>9, <2>4 DEF Tick
  <2>5. CASE ClearStorage
    <3>1. claimant' = None /\ pc' = pc /\ inbox' = inbox
      BY <2>5 DEF ClearStorage
    <3> QED BY <3>1 DEF NewestSurvives, Informed
  <2>6. CASE UNCHANGED vars
    BY <1>9, <2>6 DEF vars
  <2> QED BY <1>7, <1>8, <1>10, <2>1, <2>2, <2>3, <2>4, <2>5, <2>6
          DEF LogoutNext, OnLoggedOut, DoSetLoggedIn, Next, Step
<1> QED BY <1>1, <1>2, <1>3, <1>11, PTL DEF Spec, LogoutSpec

(***************************************************************************)
(* So of two tabs that run at once one is shutting down or about to.       *)
(***************************************************************************)
THEOREM Overlaps == Spec \/ LogoutSpec => []OverlapResolves
<1>1. NewestSurvives /\ Informed => OverlapResolves
  BY DEF Informed, OverlapResolves, Active
<1> QED BY <1>1, Newest, PTL
=============================================================================
