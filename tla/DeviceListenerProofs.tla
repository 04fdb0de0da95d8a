------------------------ MODULE DeviceListenerProofs ------------------------
(***************************************************************************)
(* Proofs about the reminders about encryption, for any sessions, any      *)
(* number of rechecks that overlap and any bounds on what happens.         *)
(***************************************************************************)
EXTENDS DeviceListener, SequenceTheorems, TLAPS

(* A session whose toast is shown, or is going to be shown, is among those *)
(* that the next recheck hides.                                            *)
Tracked ==
    scenario.prompt /\ running =>
        toasts \cup {d \in Session : showing[d] > 0} \subseteq displayingToastsForDeviceIds

ToastsInv == showing \in [Session -> Nat] /\ Tracked

----------------------------------------------------------------------------
(* A toast that is shown or going to be shown stays tracked. *)
LEMMA ToastsInvariant == ListenerSpec => []ToastsInv
(* The end of a recheck replaces the toasts that are shown. *)
<1>EndsTracks. ASSUME ToastsInv, NEW i, NEW r, Ends(i, r), UNCHANGED <<running, scenario>>
               PROVE  ToastsInv'
  <2> USE <1>EndsTracks
  <2>1. /\ scenario.prompt => ~Showing
        /\ showing' = [d \in Session |-> IF d \in r.newSessions THEN showing[d] + 1 ELSE showing[d]]
        /\ toasts' = toasts \ (displayingToastsForDeviceIds \ r.newSessions)
        /\ displayingToastsForDeviceIds' = r.newSessions
    BY DEF Ends, Goes
  <2>2. showing' \in [Session -> Nat]
    BY <2>1 DEF ToastsInv
  <2>3. ASSUME scenario.prompt, running
        PROVE  toasts' \cup {d \in Session : showing'[d] > 0} \subseteq r.newSessions
    <3>1. \A d \in Session : showing[d] = 0
      BY <2>1, <2>3 DEF ToastsInv, Showing
    <3>2. \A d \in Session : showing'[d] > 0 => d \in r.newSessions
      BY <2>1, <3>1
    <3>3. toasts \subseteq displayingToastsForDeviceIds
      BY <2>3 DEF ToastsInv, Tracked
    <3> QED BY <2>1, <3>2, <3>3
  <2> QED BY <2>1, <2>2, <2>3 DEF ToastsInv, Tracked
(* The steps of a recheck before its end show and hide no session's toast. *)
<1>RecheckTracks.
      ASSUME ToastsInv, NEW i \in DOMAIN rechecks,
             \/ CrossSigningAnswered(i) \/ SecretStorageAnswered(i) \/ Reported(i) \/ KeysAnswered(i)
             \/ BackupAnswered(i) \/ DeviceIdsAtStart(i) \/ OwnTrustAnswered(i) \/ DeviceIdsAnswered(i)
             \/ \E d \in Session : TrustAnswered(i, d)
             \/ RecheckFailed(i)
      PROVE  ToastsInv'
  <2> USE <1>RecheckTracks
  <2>1. CASE UNCHANGED <<running, scenario, showing, toasts, displayingToastsForDeviceIds>>
    BY <2>1 DEF ToastsInv, Tracked
  <2>2. CASE \E r : Ends(i, r) /\ UNCHANGED <<running, scenario>>
    BY <2>2, <1>EndsTracks
  <2>3. CASE DeviceIdsAtStart(i)
    BY <2>1, <2>2, <2>3 DEF DeviceIdsAtStart, Waits, screen
  <2>4. CASE DeviceIdsAnswered(i)
    BY <2>1, <2>2, <2>4 DEF DeviceIdsAnswered, Waits, screen
  <2>5. ASSUME NEW d \in Session, TrustAnswered(i, d) PROVE ToastsInv'
    BY <2>1, <2>2, <2>5 DEF TrustAnswered, Waits, screen
  <2>6. CASE OwnTrustAnswered(i)
    BY <2>1, <2>6 DEF OwnTrustAnswered, Waits, screen
  <2>7. CASE \/ CrossSigningAnswered(i) \/ SecretStorageAnswered(i) \/ Reported(i) \/ KeysAnswered(i)
             \/ BackupAnswered(i) \/ RecheckFailed(i)
    BY <2>1, <2>7 DEF CrossSigningAnswered, SecretStorageAnswered, Reported, KeysAnswered,
       BackupAnswered, RecheckFailed, listener, screen
  <2> QED BY <2>3, <2>4, <2>5, <2>6, <2>7
<1>1. ListenerInit => ToastsInv
  BY DEF ListenerInit, ToastsInv, Tracked
<1>2. ToastsInv /\ [ListenerNext]_listenerVars => ToastsInv'
  <2> SUFFICES ASSUME ToastsInv, [ListenerNext]_listenerVars PROVE ToastsInv'
    OBVIOUS
  <2>1. CASE UNCHANGED <<running, scenario, showing, toasts, displayingToastsForDeviceIds>>
    BY <2>1 DEF ToastsInv, Tracked
  <2>2. ASSUME NEW d \in Session, SessionToastShown(d) PROVE ToastsInv'
    <3>1. /\ showing[d] > 0 /\ showing' = [showing EXCEPT ![d] = @ - 1] /\ toasts' = toasts \cup {d}
          /\ UNCHANGED <<running, scenario, displayingToastsForDeviceIds>>
      BY <2>2 DEF SessionToastShown, listener
    <3>2. showing' \in [Session -> Nat] /\ \A e \in Session : showing'[e] > 0 => showing[e] > 0
      BY <3>1 DEF ToastsInv
    <3> QED BY <3>1, <3>2 DEF ToastsInv, Tracked
  <2>8. ASSUME NEW d \in Session, SessionToastFailed(d) PROVE ToastsInv'
    <3>1. /\ showing[d] > 0 /\ showing' = [showing EXCEPT ![d] = @ - 1]
          /\ UNCHANGED <<running, scenario, displayingToastsForDeviceIds, toasts>>
      BY <2>8 DEF SessionToastFailed, listener, screen
    <3>2. showing' \in [Session -> Nat] /\ \A e \in Session : showing'[e] > 0 => showing[e] > 0
      BY <3>1 DEF ToastsInv
    <3> QED BY <3>1, <3>2 DEF ToastsInv, Tracked
  <2>3. CASE Stop
    BY <2>3 DEF Stop, ToastsInv, Tracked
  <2>4. CASE Start
    <3>1. (scenario.prompt => ~Showing) /\ toasts' = {} /\ UNCHANGED <<scenario, showing>>
      BY <2>4 DEF Start
    <3>2. scenario.prompt => {d \in Session : showing[d] > 0} = {}
      BY <3>1 DEF Showing
    <3> QED BY <3>1, <3>2 DEF ToastsInv, Tracked
  <2>5. ASSUME NEW d \in Session,
               \/ DeviceVerificationChanged(d) \/ OnWillUpdateDevices(d) \/ OnDevicesUpdated(d)
               \/ DismissSession(d)
        PROVE  ToastsInv'
    BY <2>1, <2>5 DEF DeviceVerificationChanged, OnWillUpdateDevices, OnDevicesUpdated,
       DismissSession, listener, screen
  <2>6. CASE AccountChanged \/ RoomEncrypted \/ OnSync \/ SnapshotTaken \/ DismissBulk
             \/ SnapshotFailed \/ DismissEncryptionSetup \/ AccessSecretStorage \/ SecretStorageAccessed
    BY <2>1, <2>6 DEF AccountChanged, RoomEncrypted, OnSync, SnapshotTaken, SnapshotFailed, DismissBulk,
       DismissEncryptionSetup, AccessSecretStorage, SecretStorageAccessed, listener, screen
  <2>7. CASE UNCHANGED listenerVars
    BY <2>1, <2>7 DEF listenerVars, listener, screen
  <2> QED BY <2>2, <2>3, <2>4, <2>5, <2>6, <2>7, <2>8, <1>RecheckTracks DEF ListenerNext
<1> QED BY <1>1, <1>2, PTL DEF ListenerSpec

(* However rechecks overlap, a toast of a session that is shown is among   *)
(* those that the next recheck hides, if the details of a session are      *)
(* there at once.                                                          *)
THEOREM ToastsTracked == ListenerSpec => []SessionToastsTracked
<1>1. ToastsInv => SessionToastsTracked
  BY DEF ToastsInv, Tracked, SessionToastsTracked
<1> QED BY <1>1, ToastsInvariant, PTL

----------------------------------------------------------------------------
(* TYPES *)

(* The awaits of a recheck. *)
LEMMA AwaitsType ==
    {"crossSigning", "storage", "report", "keys", "backup", "atStart", "trust", "devices",
     "sessions"} \subseteq Range(Awaits)
<1>1. /\ DOMAIN Awaits = 1 .. 9
      /\ Awaits[1] = "crossSigning" /\ Awaits[2] = "storage" /\ Awaits[3] = "report"
      /\ Awaits[4] = "keys" /\ Awaits[5] = "backup" /\ Awaits[6] = "atStart"
      /\ Awaits[7] = "trust" /\ Awaits[8] = "devices" /\ Awaits[9] = "sessions"
  BY DEF Awaits
<1>2. {1, 2, 3, 4, 5, 6, 7, 8, 9} \subseteq 1 .. 9
  OBVIOUS
<1> QED BY <1>1, <1>2 DEF Range

(* A list without one of its members is a shorter list. *)
LEMMA RemoveAtType ==
    ASSUME NEW S, NEW s \in Seq(S), NEW i \in DOMAIN s
    PROVE  RemoveAt(s, i) \in Seq(S) /\ Len(RemoveAt(s, i)) <= Len(s)
<1>1. i \in 1 .. Len(s) /\ Len(s) \in Nat
  OBVIOUS
<1>2. SubSeq(s, 1, i - 1) \in Seq(S) /\ Len(SubSeq(s, 1, i - 1)) = i - 1
  BY <1>1
<1>3. SubSeq(s, i + 1, Len(s)) \in Seq(S) /\ Len(SubSeq(s, i + 1, Len(s))) = Len(s) - i
  BY <1>1
<1> QED BY <1>1, <1>2, <1>3 DEF RemoveAt

(* The values of the listener have their types. *)
THEOREM TypeCorrect == ASSUME ListenerAssumption PROVE ListenerSpec => []ListenerTypeOK
(* A recheck that begins, or that waits again, is a recheck. *)
<1>RecheckTypes. ASSUME ListenerTypeOK
                 PROVE  /\ NewRecheck \in Rechecks
                        /\ \A r \in Rechecks, await \in Range(Awaits) : At(r, await) \in Rechecks
                        /\ \A r \in Rechecks : EnsureDeviceIdsAtStartPopulated(r) \in Rechecks
  <2> USE <1>RecheckTypes
  <2>1. running \in BOOLEAN
    BY DEF ListenerTypeOK
  <2>2. NewRecheck \in Rechecks
    BY AwaitsType DEF NewRecheck, Rechecks
  <2>3. ASSUME NEW r \in Rechecks, NEW await \in Range(Awaits) PROVE At(r, await) \in Rechecks
    BY <2>1 DEF At, Rechecks
  <2>4. ASSUME NEW r \in Rechecks PROVE EnsureDeviceIdsAtStartPopulated(r) \in Rechecks
    <3> DEFINE p == ourDeviceIdsAtStart = Unknown
               a == At(r, "atStart")
    <3>1. p \in BOOLEAN
      OBVIOUS
    <3>2. a \in Rechecks
      BY <2>3, AwaitsType
    <3>3. EnsureDeviceIdsAtStartPopulated(r) = [a EXCEPT !.populate = p]
      BY DEF EnsureDeviceIdsAtStartPopulated
    <3> HIDE DEF p, a
    <3> QED BY <3>1, <3>2, <3>3 DEF Rechecks
  <2> QED BY <2>2, <2>3, <2>4
(* A list of rechecks stays one when sessions are added. *)
<1>RechecksGrow. ASSUME devices \subseteq devices' PROVE Seq(Rechecks) \subseteq Seq(Rechecks')
  <2> USE <1>RechecksGrow
  <2>1. Rechecks \subseteq Rechecks'
    BY DEF Rechecks
  <2> QED BY <2>1
(* A recheck that goes on keeps the list one of rechecks. *)
<1>GoesType. ASSUME ListenerAssumption, ListenerTypeOK, NEW i \in DOMAIN rechecks, NEW r,
                    r.await = "end" \/ r \in Rechecks, Goes(i, r), UNCHANGED devices
             PROVE  rechecks' \in Seq(Rechecks') /\ Len(rechecks') <= MaxRechecks
  <2> USE <1>GoesType
  <2>1. rechecks \in Seq(Rechecks) /\ Len(rechecks) <= MaxRechecks /\ Rechecks' = Rechecks
    BY DEF ListenerTypeOK, Rechecks
  <2>2. CASE r.await = "end"
    <3>1. rechecks' = RemoveAt(rechecks, i)
      BY <2>2 DEF Goes
    <3>2. /\ rechecks' \in Seq(Rechecks) /\ Len(rechecks') <= Len(rechecks)
          /\ Len(rechecks) \in Nat /\ Len(rechecks') \in Nat /\ MaxRechecks \in Nat
      BY <2>1, <3>1, RemoveAtType DEF ListenerAssumption
    <3> QED BY <2>1, <3>2
  <2>3. CASE r.await # "end"
    <3>1. rechecks' = [rechecks EXCEPT ![i] = r] /\ r \in Rechecks
      BY <2>3 DEF Goes
    <3> QED BY <2>1, <3>1
  <2> QED BY <2>2, <2>3
(* A recheck that is started joins the list. *)
<1>RecheckType. ASSUME ListenerAssumption, ListenerTypeOK, devices \subseteq devices', Recheck
                PROVE  rechecks' \in Seq(Rechecks') /\ Len(rechecks') <= MaxRechecks
  <2> USE <1>RecheckType
  <2>1. rechecks \in Seq(Rechecks) /\ Len(rechecks) <= MaxRechecks /\ NewRecheck \in Rechecks
    BY <1>RecheckTypes DEF ListenerTypeOK
  <2>2. rechecks' \in Seq(Rechecks) /\ Len(rechecks') <= MaxRechecks
    <3>1. CASE running
      <4>1. Len(rechecks) < MaxRechecks /\ rechecks' = Append(rechecks, NewRecheck)
        BY <3>1 DEF Recheck
      <4> QED BY <2>1, <4>1 DEF ListenerAssumption
    <3>2. CASE ~running
      BY <2>1, <3>2 DEF Recheck
    <3> QED BY <3>1, <3>2
  <2> QED BY <2>2, <1>RechecksGrow
(* A recheck that waits again leaves values of their types. *)
<1>WaitsType.
      ASSUME ListenerAssumption, ListenerTypeOK, NEW i \in DOMAIN rechecks, NEW r \in Rechecks,
             Waits(i, r), UNCHANGED <<world, running, dismissed, dismissedThisDeviceToast, snapshots, untold>>,
             ourDeviceIdsAtStart' \in {Unknown} \cup SUBSET devices
      PROVE  ListenerTypeOK'
  <2> USE <1>WaitsType
  <2>1. rechecks' \in Seq(Rechecks') /\ Len(rechecks') <= MaxRechecks
    BY <1>GoesType DEF Waits, world
  <2> QED BY <2>1 DEF Waits, ListenerTypeOK, world, screen
(* The end of a recheck leaves values of their types. *)
<1>EndsType.
      ASSUME ListenerAssumption, ListenerTypeOK, NEW i \in DOMAIN rechecks, NEW r \in Rechecks,
             Ends(i, r), UNCHANGED <<world, running, dismissed, dismissedThisDeviceToast, snapshots, untold>>,
             ourDeviceIdsAtStart' \in {Unknown} \cup SUBSET devices
      PROVE  ListenerTypeOK'
  <2> USE <1>EndsType
  <2>1. At(r, "end").await = "end"
    BY DEF At, Rechecks
  <2>2. Goes(i, At(r, "end"))
    BY DEF Ends
  <2>3. rechecks' \in Seq(Rechecks') /\ Len(rechecks') <= MaxRechecks
    BY <2>1, <2>2, <1>GoesType DEF world
  <2>4. r.oldSessions \subseteq devices /\ r.newSessions \subseteq devices
    BY DEF Rechecks
  <2>5. bulkToast' \subseteq devices /\ toasts' \subseteq devices
        /\ displayingToastsForDeviceIds' \subseteq devices
    BY <2>4 DEF Ends, ListenerTypeOK
  <2>6. showing' \in [Session -> Nat] /\ \A d \in Session \ devices : showing'[d] = 0
    BY <2>4 DEF Ends, ListenerTypeOK
  <2> QED BY <2>3, <2>5, <2>6 DEF Ends, ListenerTypeOK, world
(* The steps of a recheck. *)
<1>StepsType.
      ASSUME ListenerAssumption, ListenerTypeOK, NEW i \in DOMAIN rechecks,
             \/ CrossSigningAnswered(i) \/ SecretStorageAnswered(i) \/ Reported(i) \/ KeysAnswered(i)
             \/ BackupAnswered(i) \/ DeviceIdsAtStart(i) \/ OwnTrustAnswered(i) \/ DeviceIdsAnswered(i)
             \/ \E d \in Session : TrustAnswered(i, d)
      PROVE  ListenerTypeOK'
  <2> USE <1>StepsType
  <2> DEFINE r == rechecks[i]
  <2>1. r \in Rechecks /\ account \in Account /\ ourDeviceIdsAtStart \in {Unknown} \cup SUBSET devices
    BY DEF ListenerTypeOK
  <2>2. account.cross \in BOOLEAN /\ account.storage \in BOOLEAN
    BY <2>1 DEF Account
  <2>3. \A x \in Rechecks, b \in BOOLEAN :
           /\ [x EXCEPT !.cross = b] \in Rechecks /\ [x EXCEPT !.cross = b].await = x.await
           /\ [x EXCEPT !.storage = b] \in Rechecks /\ [x EXCEPT !.trusted = b] \in Rechecks
    BY DEF Rechecks
  <2> HIDE DEF r
  <2>4. ASSUME NEW x, x.await = "end" \/ x \in Rechecks, Goes(i, x),
               UNCHANGED <<world, listener, snapshots, showing, bulkToast, toasts, snoozed>>,
               setupToast' \in {"none", "verify", "upgrade", "new"}, accessing' \in BOOLEAN,
               untold' \subseteq {"setup", "sessions"}
        PROVE  ListenerTypeOK'
    <3>1. rechecks' \in Seq(Rechecks') /\ Len(rechecks') <= MaxRechecks
      BY <2>4, <1>GoesType DEF world
    <3> QED BY <2>4, <3>1 DEF ListenerTypeOK, world, listener
  <2>5. /\ setupToast \in {"none", "verify", "upgrade", "new"} /\ accessing \in BOOLEAN
        /\ untold \subseteq {"setup", "sessions"}
    BY DEF ListenerTypeOK
  <2>6. CASE CrossSigningAnswered(i)
    <3> DEFINE a == At(r, IF synced THEN "storage" ELSE "end")
               x == [a EXCEPT !.cross = account.cross]
    <3>1. Goes(i, x) /\ UNCHANGED <<world, listener, snapshots, showing, screen, untold>>
      BY <2>6 DEF CrossSigningAnswered, r
    <3>2. x.await = "end" \/ x \in Rechecks
      <4>1. CASE synced
        <5>1. a \in Rechecks
          BY <2>1, <4>1, <1>RecheckTypes, AwaitsType
        <5> QED BY <2>2, <2>3, <5>1
      <4>2. CASE ~synced
        <5>1. x.await = "end"
          BY <2>1, <4>2 DEF At, Rechecks
        <5> QED BY <5>1
      <4> QED BY <4>1, <4>2
    <3> HIDE DEF x
    <3> QED BY <2>4, <2>5, <3>1, <3>2 DEF screen
  <2>7. CASE SecretStorageAnswered(i)
    <3> DEFINE a == At(r, "report")
               x == [a EXCEPT !.storage = account.storage]
    <3>1. Goes(i, x) /\ UNCHANGED <<world, listener, snapshots, showing, screen, untold>>
      BY <2>7 DEF SecretStorageAnswered, r
    <3>2. a \in Rechecks
      BY <2>1, <1>RecheckTypes, AwaitsType
    <3>3. x \in Rechecks
      BY <2>2, <2>3, <3>2
    <3> HIDE DEF x
    <3> QED BY <2>4, <2>5, <3>1, <3>3 DEF screen
  <2>8. At(r, "keys") \in Rechecks /\ At(r, "backup") \in Rechecks
        /\ At(r, "trust") \in Rechecks /\ EnsureDeviceIdsAtStartPopulated(r) \in Rechecks
    BY <2>1, <1>RecheckTypes, AwaitsType
  <2>9. CASE Reported(i)
    BY <2>4, <2>5, <2>8, <2>9 DEF Reported, r
  <2>10. CASE KeysAnswered(i)
    BY <2>4, <2>5, <2>8, <2>10 DEF KeysAnswered, r
  <2>11. CASE BackupAnswered(i)
    BY <2>4, <2>5, <2>8, <2>11 DEF BackupAnswered, r
  <2>12. CASE DeviceIdsAtStart(i)
    <3>1. ourDeviceIdsAtStart' \in {Unknown} \cup SUBSET devices
      BY <2>1, <2>12 DEF DeviceIdsAtStart
    <3> QED BY <2>1, <2>8, <2>12, <3>1, <1>WaitsType, <1>EndsType DEF DeviceIdsAtStart, r
  <2>13. CASE OwnTrustAnswered(i)
    <3>1. At(r, "devices") \in Rechecks
      BY <2>1, <1>RecheckTypes, AwaitsType
    <3>2. [At(r, "devices") EXCEPT !.trusted = account.cross] \in Rechecks
      BY <2>2, <2>3, <3>1
    <3> QED BY <2>1, <2>13, <3>2, <1>WaitsType DEF OwnTrustAnswered, r
  <2>14. CASE DeviceIdsAnswered(i)
    <3> DEFINE ids == IF r.client THEN devices ELSE {}
    <3>1. [At(r, "sessions") EXCEPT !.left = ids] \in Rechecks
      <4>1. At(r, "sessions") \in Rechecks
        BY <2>1, <1>RecheckTypes, AwaitsType
      <4>2. ids \subseteq devices
        OBVIOUS
      <4> HIDE DEF ids
      <4> QED BY <4>1, <4>2 DEF Rechecks
    <3> QED BY <2>1, <2>14, <3>1, <1>WaitsType, <1>EndsType DEF DeviceIdsAnswered, r
  <2>15. ASSUME NEW d \in Session, TrustAnswered(i, d) PROVE ListenerTypeOK'
    <3> DEFINE isOld == ourDeviceIdsAtStart # Unknown /\ d \in ourDeviceIdsAtStart
               left == r.left \ {d}
               olds == IF Lists(d) /\ isOld THEN r.oldSessions \cup {d} ELSE r.oldSessions
               news == IF Lists(d) /\ ~isOld THEN r.newSessions \cup {d} ELSE r.newSessions
               seen == [r EXCEPT !.left = left, !.oldSessions = olds, !.newSessions = news]
    <3>1. d \in r.left
      BY <2>15 DEF TrustAnswered, r
    <3>2. left \subseteq devices /\ olds \subseteq devices /\ news \subseteq devices
      BY <2>1, <3>1 DEF Rechecks
    <3>3. /\ IF seen.left = {} THEN Ends(i, seen) ELSE Waits(i, seen)
          /\ UNCHANGED <<world, running, dismissed, dismissedThisDeviceToast, ourDeviceIdsAtStart,
                         snapshots, untold>>
      BY <2>15 DEF TrustAnswered, r
    <3>4. seen \in Rechecks
      <4> HIDE DEF left, olds, news
      <4> QED BY <2>1, <3>2 DEF Rechecks
    <3> HIDE DEF seen
    <3> QED BY <2>1, <3>3, <3>4, <1>WaitsType, <1>EndsType
  <2> QED BY <2>6, <2>7, <2>9, <2>10, <2>11, <2>12, <2>13, <2>14, <2>15
<1>1. ListenerInit => ListenerTypeOK
  <2> SUFFICES ASSUME ListenerInit PROVE ListenerTypeOK
    OBVIOUS
  <2>1. NewRecheck \in Rechecks
    BY AwaitsType DEF NewRecheck, Rechecks
  <2>2. rechecks \in Seq(Rechecks) /\ Len(rechecks) = 1
    BY <2>1 DEF ListenerInit
  <2>3. Len(rechecks) <= MaxRechecks
    BY <2>2 DEF ListenerAssumption
  <2>4. {encrypted, synced, running, dismissedThisDeviceToast, snoozed, accessing} \subseteq BOOLEAN
    BY Zenon DEF ListenerInit
  <2>5. verified \subseteq devices /\ devices \subseteq Session /\ updating \subseteq Session \ devices
    BY DEF ListenerInit
  <2> QED BY <2>2, <2>3, <2>4, <2>5 DEF ListenerInit, ListenerTypeOK
<1>2. ListenerTypeOK /\ [ListenerNext]_listenerVars => ListenerTypeOK'
  <2> SUFFICES ASSUME ListenerTypeOK, [ListenerNext]_listenerVars PROVE ListenerTypeOK'
    OBVIOUS
  <2>1. CASE UNCHANGED listenerVars
    BY <2>1 DEF listenerVars, world, listener, screen, ListenerTypeOK, Rechecks
  <2>2. ASSUME \/ AccountChanged \/ RoomEncrypted \/ OnSync \/ DismissBulk \/ DismissEncryptionSetup
               \/ \E d \in Session :
                     DeviceVerificationChanged(d) \/ OnDevicesUpdated(d) \/ DismissSession(d)
      PROVE  ListenerTypeOK'
    <3>0. untold' \subseteq {"setup", "sessions"}
      BY <2>2 DEF AccountChanged, RoomEncrypted, OnSync, DismissBulk, DismissEncryptionSetup,
         DeviceVerificationChanged, OnDevicesUpdated, DismissSession, Recheck, ListenerTypeOK
    <3>1. Recheck /\ devices \subseteq devices'
      BY <2>2 DEF AccountChanged, RoomEncrypted, OnSync, DismissBulk, DismissEncryptionSetup,
         DeviceVerificationChanged, OnDevicesUpdated, DismissSession, world
    <3>2. rechecks' \in Seq(Rechecks') /\ Len(rechecks') <= MaxRechecks
      BY <3>1, <1>RecheckType
    <3>3. CASE AccountChanged
      BY <3>0, <3>2, <3>3 DEF AccountChanged, ListenerTypeOK, listener, screen
    <3>4. CASE RoomEncrypted
      BY <3>0, <3>2, <3>4 DEF RoomEncrypted, ListenerTypeOK, listener, screen
    <3>5. CASE OnSync
      BY <3>0, <3>2, <3>5 DEF OnSync, ListenerTypeOK, listener, screen
    <3>6. CASE DismissBulk
      BY <3>0, <3>2, <3>6 DEF DismissBulk, ListenerTypeOK, world
    <3>7. CASE DismissEncryptionSetup
      BY <3>0, <3>2, <3>7 DEF DismissEncryptionSetup, ListenerTypeOK, world, screen
    <3>8. ASSUME NEW d \in Session, DeviceVerificationChanged(d) PROVE ListenerTypeOK'
      BY <3>0, <3>2, <3>8 DEF DeviceVerificationChanged, ListenerTypeOK, listener, screen
    <3>9. ASSUME NEW d \in Session, OnDevicesUpdated(d) PROVE ListenerTypeOK'
      BY <3>0, <3>2, <3>9 DEF OnDevicesUpdated, ListenerTypeOK, listener, screen
    <3>10. ASSUME NEW d \in Session, DismissSession(d) PROVE ListenerTypeOK'
      BY <3>0, <3>2, <3>10 DEF DismissSession, ListenerTypeOK, world, screen
    <3> QED BY <2>2, <3>3, <3>4, <3>5, <3>6, <3>7, <3>8, <3>9, <3>10
  <2>3. ASSUME \/ SnapshotTaken \/ SnapshotFailed \/ AccessSecretStorage \/ SecretStorageAccessed
               \/ Stop \/ Start
               \/ \E d \in Session :
                     OnWillUpdateDevices(d) \/ SessionToastShown(d) \/ SessionToastFailed(d)
               \/ \E i \in DOMAIN rechecks : RecheckFailed(i)
      PROVE  ListenerTypeOK'
    <3>1. /\ rechecks \in Seq(Rechecks) /\ Len(rechecks) <= MaxRechecks
          /\ NewRecheck \in Rechecks /\ MaxRechecks \in Nat
      BY <1>RecheckTypes DEF ListenerTypeOK, ListenerAssumption
    <3>2. CASE SnapshotTaken
      BY <3>2 DEF SnapshotTaken, ListenerTypeOK, Rechecks, world, screen
    <3>3. CASE AccessSecretStorage \/ SecretStorageAccessed
      BY <3>3 DEF AccessSecretStorage, SecretStorageAccessed, ListenerTypeOK, Rechecks, world, listener
    <3>9. CASE SnapshotFailed
      BY <3>9 DEF SnapshotFailed, ListenerTypeOK, Rechecks, world, listener, screen
    <3>4. CASE Stop
      <4> DEFINE gone(i) == [rechecks[i] EXCEPT !.gone = TRUE]
      <4>1. \A i \in DOMAIN rechecks : gone(i) \in Rechecks
        <5>1. \A x \in Rechecks : [x EXCEPT !.gone = TRUE] \in Rechecks
          BY DEF Rechecks
        <5> QED BY <3>1, <5>1
      <4>2. rechecks' = [i \in DOMAIN rechecks |-> gone(i)]
        BY <3>4 DEF Stop
      <4> HIDE DEF gone
      <4>3. rechecks' \in Seq(Rechecks) /\ Len(rechecks') <= MaxRechecks
        BY <3>1, <4>1, <4>2
      <4>4. rechecks' \in Seq(Rechecks')
        BY <3>4, <4>3, <1>RechecksGrow DEF Stop, world
      <4> QED BY <3>4, <4>3, <4>4 DEF Stop, ListenerTypeOK, world, screen
    <3>5. CASE Start
      <4>1. rechecks' \in Seq(Rechecks) /\ Len(rechecks') <= MaxRechecks
        BY <3>1, <3>5 DEF Start
      <4>2. rechecks' \in Seq(Rechecks')
        BY <3>5, <4>1, <1>RechecksGrow DEF Start
      <4> QED BY <3>5, <4>1, <4>2 DEF Start, ListenerTypeOK
    <3>6. ASSUME NEW d \in Session, OnWillUpdateDevices(d) PROVE ListenerTypeOK'
      BY <3>6 DEF OnWillUpdateDevices, ListenerTypeOK, Rechecks, listener, screen
    <3>7. ASSUME NEW d \in Session, SessionToastShown(d) PROVE ListenerTypeOK'
      <4>1. d \in devices
        BY <3>7 DEF SessionToastShown, ListenerTypeOK
      <4>2. showing' \in [Session -> Nat] /\ \A e \in Session \ devices : showing'[e] = 0
        BY <3>7, <4>1 DEF SessionToastShown, ListenerTypeOK
      <4> QED BY <3>7, <4>1, <4>2 DEF SessionToastShown, ListenerTypeOK, Rechecks, world, listener
    <3>10. ASSUME NEW d \in Session, SessionToastFailed(d) PROVE ListenerTypeOK'
      <4>1. d \in devices
        BY <3>10 DEF SessionToastFailed, ListenerTypeOK
      <4>2. showing' \in [Session -> Nat] /\ \A e \in Session \ devices : showing'[e] = 0
        BY <3>10, <4>1 DEF SessionToastFailed, ListenerTypeOK
      <4>3. untold' \subseteq {"setup", "sessions"}
        BY <3>10 DEF SessionToastFailed, ListenerTypeOK
      <4> QED BY <3>10, <4>1, <4>2, <4>3 DEF SessionToastFailed, ListenerTypeOK, Rechecks, world, listener, screen
    <3>8. ASSUME NEW i \in DOMAIN rechecks, RecheckFailed(i) PROVE ListenerTypeOK'
      <4>1. rechecks' \in Seq(Rechecks) /\ Len(rechecks') <= Len(rechecks)
        BY <3>1, <3>8, RemoveAtType DEF RecheckFailed
      <4>2. rechecks' \in Seq(Rechecks') /\ Len(rechecks') <= MaxRechecks
        <5>1. Len(rechecks) \in Nat /\ Len(rechecks') \in Nat
          BY <3>1, <4>1
        <5>2. Len(rechecks') <= MaxRechecks
          BY <3>1, <4>1, <5>1
        <5> QED BY <3>8, <4>1, <5>2, <1>RechecksGrow DEF RecheckFailed, world
      <4>3. untold' \subseteq {"setup", "sessions"}
        BY <3>8 DEF RecheckFailed, ListenerTypeOK
      <4> QED BY <3>8, <4>2, <4>3 DEF RecheckFailed, ListenerTypeOK, world, listener, screen
    <3> QED BY <2>3, <3>2, <3>3, <3>4, <3>5, <3>6, <3>7, <3>8, <3>9, <3>10
  <2> QED BY <2>1, <2>2, <2>3, <1>StepsType DEF ListenerNext
<1> QED BY <1>1, <1>2, PTL DEF ListenerSpec

----------------------------------------------------------------------------
(* WHAT THE REMINDERS SHOW, where rechecks keep their order: any change    *)
(* starts a recheck, so the latest one has read what is true now, and none *)
(* of the others can undo what it has shown.                               *)
InTurn == scenario.inTurn /\ scenario.prompt
Late == {"atStart", "trust", "devices", "sessions"}
Latest == rechecks[Len(rechecks)]

Unverified == IF account.cross THEN (devices \ verified) \ dismissed ELSE {}
SetupShown == "setup" \in untold \/ setupToast = DueSetup

(* Nothing goes on for a listener that has been stopped. *)
Rested ==
    /\ ~running => NothingUnderWay /\ updating = {}
    /\ \A i \in DOMAIN rechecks : rechecks[i].client /\ ~rechecks[i].gone

(* The sessions at the start are known before another one is downloaded,   *)
(* and before a recheck asks for them.                                     *)
StartKnown ==
    /\ ourDeviceIdsAtStart = Unknown \/ (running /\ ourDeviceIdsAtStart = atStart)
    /\ running /\ (ourDeviceIdsAtStart = Unknown \/ Populating) => devices = atStart
    /\ updating # {} => ourDeviceIdsAtStart # Unknown \/ snapshots > 0
    /\ \A i \in DOMAIN rechecks :
          rechecks[i].await \in Late =>
              (rechecks[i].await = "atStart" /\ rechecks[i].populate) \/ ourDeviceIdsAtStart # Unknown

(* No recheck asks for encryption where there is none, and those before the *)
(* latest, unless that has failed, are further on.                         *)
Asked ==
    /\ ~encrypted /\ running => setupToast = "none"
    /\ \A i \in DOMAIN rechecks : rechecks[i].await \in {"keys", "backup"} => encrypted
    /\ "sessions" \notin untold => \A i \in DOMAIN rechecks : Latest.await \in Late => rechecks[i].await \in Late

(* What a recheck that nothing has overtaken has read so far. *)
HasRead(r) ==
    /\ r.await # "crossSigning" => r.cross = account.cross
    /\ r.await \notin {"crossSigning", "storage"} => r.storage = account.storage
    /\ r.await \in {"keys", "backup"} => ~dismissedThisDeviceToast /\ ~(account.cross /\ account.storage)
    /\ r.await = "backup" => account.lacks # "verify"
    /\ r.await \in Late => SetupShown
    /\ r.await \in {"trust", "devices", "sessions"} => account.cross
    /\ r.trusted <=> r.await \in {"devices", "sessions"}
    /\ r.oldSessions \cup r.newSessions = IF r.await = "sessions" THEN Unverified \ r.left ELSE {}
    /\ r.oldSessions \subseteq atStart /\ r.newSessions \cap atStart = {}
    /\ r.left \subseteq devices

(* The toasts are those of the account, or a recheck is going to see to it, *)
(* but for what the latest one has not seen to.                            *)
Reminding ==
    running =>
       IF "sessions" \in untold THEN synced /\ "setup" \notin untold => rechecks = <<>> /\ SetupShown
       ELSE IF rechecks # <<>> THEN HasRead(Latest)
       ELSE synced => /\ SetupShown
                      /\ bulkToast = IF snoozed THEN {} ELSE Unverified \cap atStart
                      /\ toasts \cup {d \in Session : showing[d] > 0} = Unverified \ atStart

(* The i-th recheck is the latest, and no later one has failed. *)
IsLast(i) == i = Len(rechecks) /\ "sessions" \notin untold

RemindersInv == InTurn => Rested /\ StartKnown /\ Asked /\ Reminding

(* The order of the awaits. *)
LEMMA Ranks ==
    /\ Rank("crossSigning") = 1 /\ Rank("storage") = 2 /\ Rank("report") = 3 /\ Rank("keys") = 4
    /\ Rank("backup") = 5 /\ Rank("atStart") = 6 /\ Rank("trust") = 7 /\ Rank("devices") = 8
    /\ Rank("sessions") = 9 /\ Rank("end") = 10
    /\ Range(Awaits) = {"crossSigning", "storage", "report", "keys", "backup", "atStart", "trust",
                        "devices", "sessions"}
<1>1. /\ DOMAIN Awaits = 1 .. 9 /\ Len(Awaits) = 9
      /\ Awaits[1] = "crossSigning" /\ Awaits[2] = "storage" /\ Awaits[3] = "report"
      /\ Awaits[4] = "keys" /\ Awaits[5] = "backup" /\ Awaits[6] = "atStart"
      /\ Awaits[7] = "trust" /\ Awaits[8] = "devices" /\ Awaits[9] = "sessions"
  BY DEF Awaits
<1>2. 1 .. 9 = {1, 2, 3, 4, 5, 6, 7, 8, 9}
  OBVIOUS
<1>3. ASSUME NEW k \in 1 .. 9, Awaits[k] # "end" PROVE Rank(Awaits[k]) = k
  <2>1. \A j \in 1 .. 9 : Awaits[j] = Awaits[k] => j = k
    BY <1>1, <1>2
  <2>2. (CHOOSE j \in DOMAIN Awaits : Awaits[j] = Awaits[k]) = k
    BY <1>1, <2>1
  <2> QED BY <1>3, <2>2 DEF Rank
<1>4. Rank("end") = 10
  BY <1>1 DEF Rank
<1>5. Range(Awaits) = {"crossSigning", "storage", "report", "keys", "backup", "atStart", "trust",
                       "devices", "sessions"}
  BY <1>1, <1>2 DEF Range
<1>6. /\ Rank(Awaits[1]) = 1 /\ Rank(Awaits[2]) = 2 /\ Rank(Awaits[3]) = 3 /\ Rank(Awaits[4]) = 4
      /\ Rank(Awaits[5]) = 5 /\ Rank(Awaits[6]) = 6 /\ Rank(Awaits[7]) = 7 /\ Rank(Awaits[8]) = 8
      /\ Rank(Awaits[9]) = 9
  BY <1>1, <1>2, <1>3
<1> QED BY <1>1, <1>4, <1>5, <1>6

(* A recheck goes on when the earlier ones are as far, and ends first. *)
LEMMA Turn ==
    ASSUME ListenerTypeOK, InTurn, NEW i \in DOMAIN rechecks, NEW r, Goes(i, r),
           r.await \in Range(Awaits) \cup {"end"}
    PROVE  /\ ~Showing
           /\ r.await \in Late => \A j \in 1 .. i - 1 : rechecks[j].await \in Late
           /\ r.await # "end" => rechecks' = [rechecks EXCEPT ![i] = r]
           /\ r.await = "end" => i = 1 /\ rechecks' = RemoveAt(rechecks, 1)
<1>1. \A j \in DOMAIN rechecks : rechecks[j].await \in Range(Awaits)
  <2>1. \A j \in DOMAIN rechecks : rechecks[j] \in Rechecks
    BY DEF ListenerTypeOK
  <2>2. \A x \in Rechecks : x.await \in Range(Awaits)
    BY DEF Rechecks
  <2> QED BY <2>1, <2>2
<1>2. \A j \in 1 .. i - 1 : Rank(rechecks[j].await) >= Rank(r.await)
  BY DEF Goes, InTurn
<1>3. DOMAIN rechecks = 1 .. Len(rechecks) /\ Len(rechecks) \in Nat /\ i \in 1 .. Len(rechecks)
  BY DEF ListenerTypeOK
<1>4. \A j \in 1 .. i - 1 : rechecks[j].await \in Range(Awaits)
  BY <1>1, <1>3
<1>5. \A a \in Range(Awaits) : Rank(a) \in 1 .. 9 /\ (Rank(a) >= 6 <=> a \in Late)
  BY Ranks DEF Late
<1>6. r.await \in Late => \A j \in 1 .. i - 1 : rechecks[j].await \in Late
  <2> SUFFICES ASSUME r.await \in Late, NEW j \in 1 .. i - 1 PROVE rechecks[j].await \in Late
    OBVIOUS
  <2>1. Rank(r.await) \in 1 .. 9 /\ Rank(r.await) >= 6
    BY <1>5, Ranks DEF Late
  <2>2. Rank(rechecks[j].await) \in 1 .. 9 /\ Rank(rechecks[j].await) >= Rank(r.await)
    BY <1>2, <1>4, <1>5
  <2>3. Rank(rechecks[j].await) >= 6
    BY <2>1, <2>2
  <2> QED BY <1>4, <1>5, <2>3
<1>7. r.await = "end" => i = 1
  <2> SUFFICES ASSUME r.await = "end", i # 1 PROVE FALSE
    OBVIOUS
  <2>1. 1 \in 1 .. i - 1
    BY <1>3
  <2>2. Rank(rechecks[1].await) \in 1 .. 9 /\ Rank(rechecks[1].await) >= 10
    BY <1>2, <1>4, <1>5, <2>1, Ranks
  <2> QED BY <2>2
<1> QED BY <1>6, <1>7 DEF Goes, InTurn

(* The list when a recheck joins it, goes on or ends. *)
LEMMA Joined ==
    ASSUME ListenerTypeOK, NEW r
    PROVE  LET s == Append(rechecks, r)
           IN  /\ s # <<>> /\ s[Len(s)] = r /\ DOMAIN s = 1 .. Len(s)
               /\ \A i \in DOMAIN s : s[i] = r \/ \E j \in DOMAIN rechecks : s[i] = rechecks[j]
BY DEF ListenerTypeOK

LEMMA GoneOn ==
    ASSUME ListenerTypeOK, NEW i \in DOMAIN rechecks, NEW r
    PROVE  LET s == [rechecks EXCEPT ![i] = r]
           IN  /\ s # <<>> /\ rechecks # <<>> /\ DOMAIN s = DOMAIN rechecks /\ Len(s) = Len(rechecks)
               /\ s[Len(s)] = IF i = Len(rechecks) THEN r ELSE Latest
               /\ \A j \in DOMAIN s : s[j] = IF j = i THEN r ELSE rechecks[j]
               /\ Len(rechecks) \in DOMAIN rechecks
<1>1. rechecks \in Seq(Rechecks) /\ i \in 1 .. Len(rechecks) /\ Len(rechecks) \in Nat
  BY DEF ListenerTypeOK
<1> QED BY <1>1 DEF Latest

LEMMA Left ==
    ASSUME ListenerTypeOK, 1 \in DOMAIN rechecks
    PROVE  LET s == RemoveAt(rechecks, 1)
           IN  /\ s = <<>> <=> Len(rechecks) = 1
               /\ s # <<>> => s[Len(s)] = Latest
               /\ \A j \in DOMAIN s : \E k \in DOMAIN rechecks : s[j] = rechecks[k]
<1>1. rechecks \in Seq(Rechecks) /\ 1 \in 1 .. Len(rechecks) /\ Len(rechecks) \in Nat
  BY DEF ListenerTypeOK
<1>2. RemoveAt(rechecks, 1) = SubSeq(rechecks, 2, Len(rechecks))
  <2>1. SubSeq(rechecks, 1, 0) = <<>>
    BY <1>1
  <2>2. SubSeq(rechecks, 2, Len(rechecks)) \in Seq(Rechecks)
    BY <1>1
  <2>3. RemoveAt(rechecks, 1) = SubSeq(rechecks, 1, 0) \o SubSeq(rechecks, 2, Len(rechecks))
    BY DEF RemoveAt
  <2> QED BY <2>1, <2>2, <2>3
<1> DEFINE s == SubSeq(rechecks, 2, Len(rechecks))
<1>3. s \in Seq(Rechecks) /\ Len(s) = Len(rechecks) - 1 /\ \A j \in 1 .. Len(s) : s[j] = rechecks[j + 1]
  <2>1. s \in Seq(Rechecks)
    BY <1>1
  <2>2. Len(s) = Len(rechecks) - 1
    <3>1. CASE Len(rechecks) >= 2
      <4>1. Len(s) = (Len(rechecks) - 2) + 1
        BY <1>1, <3>1
      <4> HIDE DEF s
      <4> QED BY <1>1, <4>1
    <3>2. CASE Len(rechecks) = 1
      BY <1>1, <3>2
    <3>3. Len(rechecks) >= 2 \/ Len(rechecks) = 1
      <4> HIDE DEF s
      <4>1. \A n \in Nat : 1 \in 1 .. n => n >= 2 \/ n = 1
        OBVIOUS
      <4> QED BY <1>1, <4>1
    <3> QED BY <3>1, <3>2, <3>3
  <2>3. \A j \in 1 .. Len(s) : s[j] = rechecks[j + 1]
    BY <1>1, <2>2
  <2> QED BY <2>1, <2>2, <2>3
<1>4. s = <<>> <=> Len(rechecks) = 1
  <2> HIDE DEF s
  <2>1. s = <<>> <=> Len(s) = 0
    BY <1>3
  <2> QED BY <1>1, <1>3, <2>1
<1>5. s # <<>> => s[Len(s)] = Latest
  <2> SUFFICES ASSUME Len(s) # 0 PROVE s[Len(s)] = Latest
    BY <1>3
  <2>1. Len(s) \in 1 .. Len(s) /\ Len(s) + 1 = Len(rechecks)
    BY <1>1, <1>3
  <2> QED BY <1>3, <2>1 DEF Latest
<1>6. \A j \in DOMAIN s : \E k \in DOMAIN rechecks : s[j] = rechecks[k]
  <2> SUFFICES ASSUME NEW j \in 1 .. Len(s) PROVE s[j] = rechecks[j + 1] /\ j + 1 \in DOMAIN rechecks
    BY <1>3
  <2> QED BY <1>1, <1>3
<1> HIDE DEF s
<1> QED BY <1>2, <1>4, <1>5, <1>6 DEF s

LEMMA Dropped ==
    ASSUME ListenerTypeOK, NEW i \in DOMAIN rechecks
    PROVE  LET s == RemoveAt(rechecks, i)
           IN  /\ i # Len(rechecks) => s # <<>> /\ s[Len(s)] = Latest
               /\ \A j \in DOMAIN s : \E k \in DOMAIN rechecks : s[j] = rechecks[k]
<1>1. rechecks \in Seq(Rechecks) /\ i \in 1 .. Len(rechecks) /\ Len(rechecks) \in Nat
  BY DEF ListenerTypeOK
<1> DEFINE a == SubSeq(rechecks, 1, i - 1)
           b == SubSeq(rechecks, i + 1, Len(rechecks))
<1>2. a \in Seq(Rechecks) /\ Len(a) = i - 1 /\ \A j \in 1 .. i - 1 : a[j] = rechecks[j]
  BY <1>1
<1>3. /\ b \in Seq(Rechecks) /\ Len(b) = Len(rechecks) - i
      /\ \A j \in 1 .. Len(rechecks) - i : b[j] = rechecks[j + i]
  <2>1. b \in Seq(Rechecks) /\ Len(b) = Len(rechecks) - i
    BY <1>1
  <2>2. \A j \in 1 .. Len(rechecks) - i : b[j] = rechecks[j + i]
    BY <1>1
  <2> QED BY <2>1, <2>2
<1>4. RemoveAt(rechecks, i) = a \o b
  BY DEF RemoveAt
<1> HIDE DEF a, b
<1> DEFINE s == a \o b
<1>5. /\ DOMAIN s = 1 .. Len(rechecks) - 1 /\ Len(s) = Len(rechecks) - 1
      /\ \A j \in 1 .. Len(rechecks) - 1 : s[j] = IF j <= i - 1 THEN a[j] ELSE b[j - (i - 1)]
  <2>0. a \in Seq(Rechecks) /\ b \in Seq(Rechecks)
    BY <1>2, <1>3
  <2>1. s \in Seq(Rechecks) /\ Len(s) = Len(a) + Len(b)
    BY <2>0
  <2>2. \A j \in 1 .. Len(a) + Len(b) : s[j] = IF j <= Len(a) THEN a[j] ELSE b[j - Len(a)]
    BY ONLY <2>0, ConcatProperties
  <2>3. Len(a) + Len(b) = Len(rechecks) - 1 /\ DOMAIN s = 1 .. Len(s)
    BY <1>1, <1>2, <1>3, <2>1
  <2> HIDE DEF s
  <2> QED BY <1>2, <2>1, <2>2, <2>3
<1> HIDE DEF s
<1>6. ASSUME NEW j \in 1 .. Len(rechecks) - 1
      PROVE  s[j] = IF j <= i - 1 THEN rechecks[j] ELSE rechecks[j + 1]
  <2>1. CASE j <= i - 1
    BY <1>1, <1>2, <1>5, <2>1
  <2>2. CASE ~(j <= i - 1)
    <3>1. j - (i - 1) \in 1 .. Len(rechecks) - i /\ (j - (i - 1)) + i = j + 1
      BY <1>1, <2>2
    <3>2. b[j - (i - 1)] = rechecks[j + 1]
      BY <1>3, <3>1
    <3> QED BY <1>5, <2>2, <3>2
  <2> QED BY <2>1, <2>2
<1>7. ASSUME i # Len(rechecks) PROVE s # <<>> /\ s[Len(s)] = Latest
  <2>1. /\ Len(rechecks) - 1 \in 1 .. Len(rechecks) - 1 /\ ~(Len(rechecks) - 1 <= i - 1)
        /\ (Len(rechecks) - 1) + 1 = Len(rechecks)
    BY <1>1, <1>7
  <2> QED BY <1>5, <1>6, <2>1 DEF Latest
<1>8. ASSUME NEW j \in DOMAIN s PROVE \E k \in DOMAIN rechecks : s[j] = rechecks[k]
  <2>1. j \in 1 .. Len(rechecks) - 1 /\ j \in 1 .. Len(rechecks) /\ j + 1 \in 1 .. Len(rechecks)
    BY <1>1, <1>5
  <2>2. s[j] = rechecks[j] \/ s[j] = rechecks[j + 1]
    BY <1>6, <2>1
  <2> QED BY <1>1, <2>1, <2>2
<1> QED BY <1>4, <1>7, <1>8 DEF s

(* A change of what the reminders depend on starts a recheck. *)
LEMMA Asks ==
    ASSUME ListenerTypeOK, InTurn, Rested, StartKnown, Asked,
           Recheck, UNCHANGED <<running, snapshots, showing, ourDeviceIdsAtStart, scenario, setupToast, atStart>>,
           encrypted' = encrypted \/ encrypted' = TRUE, updating' \subseteq updating,
           running /\ (ourDeviceIdsAtStart = Unknown \/ Populating) => devices' = devices
    PROVE  Rested' /\ StartKnown' /\ Asked' /\ Reminding'
<1>0. /\ rechecks' = IF running THEN Append(rechecks, NewRecheck) ELSE rechecks
      /\ untold' = IF running THEN {} ELSE untold
  BY DEF Recheck
<1>1. CASE ~running
  <2>1. rechecks' = rechecks /\ rechecks = <<>> /\ snapshots = 0 /\ ~Showing /\ updating = {}
    BY <1>0, <1>1 DEF Rested, NothingUnderWay
  <2>2. DOMAIN rechecks = {} /\ DOMAIN rechecks' = {}
    BY <2>1
  <2>3. Rested'
    BY <1>1, <2>1, <2>2 DEF Rested, NothingUnderWay, Showing
  <2>4. StartKnown'
    BY <1>1, <2>1, <2>2 DEF StartKnown
  <2>5. Asked'
    BY <1>1, <2>1, <2>2 DEF Asked
  <2> QED BY <1>1, <2>3, <2>4, <2>5 DEF Reminding
<1>2. CASE running
  <2>1. /\ rechecks' # <<>> /\ Latest' = NewRecheck
        /\ \A i \in DOMAIN rechecks' : rechecks'[i] = NewRecheck \/ \E j \in DOMAIN rechecks : rechecks'[i] = rechecks[j]
    BY <1>0, <1>2, Joined DEF Latest
  <2>2. /\ NewRecheck.await = "crossSigning" /\ NewRecheck.client /\ ~NewRecheck.gone /\ ~NewRecheck.trusted
        /\ NewRecheck.left = {} /\ NewRecheck.oldSessions = {} /\ NewRecheck.newSessions = {}
    BY DEF NewRecheck
  <2>3. Populating' => Populating
    BY <2>1, <2>2 DEF Populating
  <2>4. Rested'
    BY <1>2, <2>1, <2>2 DEF Rested
  <2>5. StartKnown'
    BY <1>2, <2>1, <2>2, <2>3 DEF StartKnown, Late
  <2>6. Asked'
    BY <1>2, <2>1, <2>2 DEF Asked, Late
  <2>7. HasRead(NewRecheck)'
    BY <2>2 DEF HasRead, Late, NewRecheck
  <2> QED BY <1>0, <1>2, <2>1, <2>4, <2>5, <2>6, <2>7 DEF Reminding
<1> QED BY <1>1, <1>2

(* A recheck goes on; only the latest one has to have read what is true. *)
LEMMA Moves ==
    ASSUME ListenerTypeOK, InTurn, Rested, StartKnown, Asked, Reminding, NEW i \in DOMAIN rechecks, NEW r, Goes(i, r),
           r.await \in Range(Awaits), r.client = running, r.gone = rechecks[i].gone,
           UNCHANGED <<account, encrypted, devices, verified, updating, synced, atStart, running, dismissed,
                       dismissedThisDeviceToast, snapshots, showing, scenario>>,
           ourDeviceIdsAtStart' \in {ourDeviceIdsAtStart, atStart},
           ourDeviceIdsAtStart # Unknown => ourDeviceIdsAtStart' # Unknown,
           r.await \in Late => (r.await = "atStart" /\ r.populate) \/ ourDeviceIdsAtStart' # Unknown,
           r.await = "atStart" /\ r.populate => ourDeviceIdsAtStart = Unknown,
           untold' = untold \/ (i = Len(rechecks) /\ untold' = untold \cup {"setup"}),
           ~encrypted => setupToast' = "none",
           r.await \in {"keys", "backup"} => encrypted,
           setupToast' # setupToast => rechecks[i].await \notin Late,
           rechecks[i].await \in Late => r.await \in Late,
           IsLast(i) => HasRead(r)'
    PROVE  Rested' /\ StartKnown' /\ Asked' /\ Reminding'
<1>1. /\ rechecks' = [rechecks EXCEPT ![i] = r] /\ r.await # "end"
      /\ r.await \in Late => \A j \in 1 .. i - 1 : rechecks[j].await \in Late
  BY Turn, Ranks
<1>2. /\ rechecks' # <<>> /\ rechecks # <<>> /\ DOMAIN rechecks' = DOMAIN rechecks
      /\ Latest' = IF i = Len(rechecks) THEN r ELSE Latest
      /\ \A j \in DOMAIN rechecks' : rechecks'[j] = IF j = i THEN r ELSE rechecks[j]
      /\ Len(rechecks) \in DOMAIN rechecks
  BY <1>1, GoneOn DEF Latest
<1>3. running /\ \A j \in DOMAIN rechecks : rechecks[j].client /\ ~rechecks[j].gone
  BY <1>2 DEF Rested, NothingUnderWay
<1>4. Rested'
  BY <1>2, <1>3 DEF Rested
<1>5. StartKnown'
  <2>1. Populating' => Populating \/ ourDeviceIdsAtStart = Unknown
    BY <1>2 DEF Populating
  <2>2. /\ ourDeviceIdsAtStart' = Unknown \/ (running /\ ourDeviceIdsAtStart' = atStart)
        /\ ourDeviceIdsAtStart' = Unknown => ourDeviceIdsAtStart = Unknown
    BY <1>3 DEF StartKnown
  <2>3. \A j \in DOMAIN rechecks' :
          rechecks'[j].await \in Late =>
              (rechecks'[j].await = "atStart" /\ rechecks'[j].populate) \/ ourDeviceIdsAtStart' # Unknown
    BY <1>2 DEF StartKnown
  <2> QED BY <2>1, <2>2, <2>3 DEF StartKnown
<1>0. "sessions" \in untold' <=> "sessions" \in untold
  OBVIOUS
<1>6. Asked'
  <2>1. \A j \in DOMAIN rechecks' : rechecks'[j].await \in {"keys", "backup"} => encrypted'
    BY <1>2 DEF Asked
  <2>2. ASSUME "sessions" \notin untold, Latest'.await \in Late, NEW j \in DOMAIN rechecks' PROVE rechecks'[j].await \in Late
    <3>1. CASE i = Len(rechecks)
      <4>1. r.await \in Late
        BY <1>2, <2>2, <3>1
      <4>2. j = i \/ j \in 1 .. i - 1
        BY <1>2, <3>1 DEF ListenerTypeOK
      <4> QED BY <1>1, <1>2, <4>1, <4>2
    <3>2. CASE i # Len(rechecks)
      <4>1. \A k \in DOMAIN rechecks : rechecks[k].await \in Late
        BY <1>2, <2>2, <3>2 DEF Asked
      <4> QED BY <1>2, <4>1
    <3> QED BY <3>1, <3>2
  <2> QED BY <1>0, <2>1, <2>2 DEF Asked
<1>7. ASSUME "sessions" \notin untold PROVE HasRead(Latest)'
  <2>1. CASE i = Len(rechecks)
    <3>1. PICK x : x = Latest'
      OBVIOUS
    <3>2. x = r
      BY <1>2, <2>1, <3>1
    <3>3. HasRead(r)'
      BY <1>7, <2>1 DEF IsLast
    <3> QED BY <3>1, <3>2, <3>3 DEF HasRead
  <2>2. CASE i # Len(rechecks)
    <3>1. HasRead(Latest) /\ Latest' = Latest
      BY <1>2, <1>3, <1>7, <2>2 DEF Reminding
    <3>2. Latest.await \in Late => setupToast' = setupToast
      BY <1>2, <1>7 DEF Asked
    <3>3. Latest.await \in Late => SetupShown'
      BY <3>1, <3>2 DEF HasRead, SetupShown, DueSetup
    <3>4. Unverified' = Unverified
      BY DEF Unverified
    <3> HIDE DEF Late
    <3> QED BY <3>1, <3>3, <3>4 DEF HasRead
  <2> QED BY <2>1, <2>2
<1>8. Reminding'
  <2>1. CASE "sessions" \in untold
    BY <1>2, <1>3, <2>1 DEF Reminding
  <2>2. CASE "sessions" \notin untold
    BY <1>0, <1>2, <1>7, <2>2 DEF Reminding
  <2> QED BY <2>1, <2>2
<1> QED BY <1>4, <1>5, <1>6, <1>8

(* The latest recheck ends, and shows what it has read. *)
LEMMA Finishes ==
    ASSUME ListenerTypeOK, InTurn, ToastsInv, Rested, StartKnown, Asked, Reminding,
           NEW i \in DOMAIN rechecks, NEW r \in Rechecks, Ends(i, r), rechecks[i].await \in Late,
           UNCHANGED <<account, encrypted, devices, verified, updating, synced, atStart, running, dismissed,
                       dismissedThisDeviceToast, snapshots, untold, scenario>>,
           ourDeviceIdsAtStart' \in {ourDeviceIdsAtStart, atStart},
           ourDeviceIdsAtStart # Unknown => ourDeviceIdsAtStart' # Unknown,
           IsLast(i) =>         /\ SetupShown /\ (r.trusted <=> account.cross)
                                /\ r.oldSessions \cup r.newSessions = Unverified
                                /\ r.oldSessions \subseteq atStart /\ r.newSessions \cap atStart = {}
    PROVE  Rested' /\ StartKnown' /\ Asked' /\ Reminding'
<1>1. At(r, "end").await = "end" /\ Goes(i, At(r, "end"))
  BY DEF Ends, At, Rechecks
<1>2. ~Showing /\ i = 1 /\ rechecks' = RemoveAt(rechecks, 1)
  BY <1>1, Turn
<1>3. /\ rechecks' = <<>> <=> Len(rechecks) = 1
      /\ rechecks' # <<>> => Latest' = Latest
      /\ \A j \in DOMAIN rechecks' : \E k \in DOMAIN rechecks : rechecks'[j] = rechecks[k]
  BY <1>2, Left DEF Latest
<1>4. running /\ rechecks # <<>> /\ \A j \in DOMAIN rechecks : rechecks[j].client /\ ~rechecks[j].gone
  BY DEF Rested, NothingUnderWay
<1>5. UNCHANGED <<setupToast, snoozed, accessing>>
  BY DEF Ends
<1>6. Rested'
  BY <1>3, <1>4 DEF Rested
<1>7. StartKnown'
  <2>1. Populating' => Populating
    BY <1>3 DEF Populating
  <2>2. \A j \in DOMAIN rechecks' :
          rechecks'[j].await \in Late =>
              (rechecks'[j].await = "atStart" /\ rechecks'[j].populate) \/ ourDeviceIdsAtStart' # Unknown
    BY <1>3 DEF StartKnown
  <2> QED BY <1>4, <2>1, <2>2 DEF StartKnown
<1>8. Asked'
  <2>1. \A j \in DOMAIN rechecks' : rechecks'[j].await \in {"keys", "backup"} => encrypted'
    BY <1>3 DEF Asked
  <2>2. ASSUME "sessions" \notin untold, NEW j \in DOMAIN rechecks', Latest'.await \in Late PROVE rechecks'[j].await \in Late
    <3>1. rechecks' # <<>>
      BY <2>2
    <3> QED BY <1>3, <2>2, <3>1 DEF Asked
  <2> QED BY <1>5, <2>1, <2>2 DEF Asked
<1>9. Unverified' = Unverified /\ DueSetup' = DueSetup
  BY DEF Unverified, DueSetup
<1>10. ASSUME "sessions" \notin untold, rechecks' # <<>> PROVE HasRead(Latest)'
  <2>1. HasRead(Latest) /\ Latest' = Latest
    BY <1>3, <1>4, <1>10 DEF Reminding
  <2> HIDE DEF Late
  <2> QED BY <1>5, <1>9, <2>1 DEF HasRead, SetupShown
<1>11. ASSUME "sessions" \notin untold, rechecks' = <<>>
       PROVE  /\ SetupShown'
              /\ bulkToast' = IF snoozed' THEN {} ELSE Unverified' \cap atStart'
              /\ toasts' \cup {d \in Session : showing'[d] > 0} = Unverified' \ atStart'
  <2>1. IsLast(i)
    BY <1>2, <1>3, <1>11 DEF IsLast
  <2>2. /\ bulkToast' = IF r.trusted /\ ~snoozed THEN r.oldSessions ELSE {}
        /\ showing' = [d \in Session |-> IF d \in r.newSessions THEN showing[d] + 1 ELSE showing[d]]
        /\ toasts' = toasts \ (displayingToastsForDeviceIds \ r.newSessions)
    BY DEF Ends
  <2>3. r.oldSessions = Unverified \cap atStart /\ r.newSessions = Unverified \ atStart
    BY <2>1
  <2>4. r.trusted <=> account.cross
    BY <2>1
  <2>5. ~account.cross => Unverified = {}
    BY DEF Unverified
  <2>6. bulkToast' = IF snoozed THEN {} ELSE Unverified \cap atStart
    BY <2>2, <2>3, <2>4, <2>5
  <2>7. toasts \subseteq displayingToastsForDeviceIds /\ \A d \in Session : showing[d] = 0
    BY <1>2, <1>4 DEF ToastsInv, Tracked, InTurn, Showing
  <2>8. r.newSessions \subseteq Session
    BY DEF Rechecks, ListenerTypeOK
  <2>9. toasts' \cup {d \in Session : showing'[d] > 0} = r.newSessions
    BY <2>2, <2>7, <2>8
  <2>10. SetupShown'
    BY <1>5, <1>9, <2>1 DEF SetupShown
  <2> QED BY <1>5, <1>9, <2>3, <2>6, <2>9, <2>10
<1>12. Reminding'
  BY <1>4, <1>10, <1>11 DEF Reminding
<1> QED BY <1>6, <1>7, <1>8, <1>12

(* A recheck that is to learn the devices at the start. *)
LEMMA Populates ==
    ASSUME NEW r \in Rechecks
    PROVE  LET a == EnsureDeviceIdsAtStartPopulated(r)
           IN  /\ a.await = "atStart" /\ a.client = running /\ a.gone = r.gone /\ a.cross = r.cross
               /\ a.storage = r.storage /\ a.trusted = r.trusted
               /\ a.populate <=> ourDeviceIdsAtStart = Unknown
               /\ a.left = r.left /\ a.oldSessions = r.oldSessions /\ a.newSessions = r.newSessions
<1> DEFINE p == ourDeviceIdsAtStart = Unknown
           a == At(r, "atStart")
<1>1. p \in BOOLEAN
  OBVIOUS
<1>2. a = [r EXCEPT !.await = "atStart", !.client = running]
  BY DEF At
<1>3. EnsureDeviceIdsAtStartPopulated(r) = [a EXCEPT !.populate = p]
  BY DEF EnsureDeviceIdsAtStartPopulated
<1> HIDE DEF p, a
<1>4. LET b == [a EXCEPT !.populate = p]
      IN  /\ b.await = "atStart" /\ b.client = running /\ b.gone = r.gone /\ b.cross = r.cross
          /\ b.storage = r.storage /\ b.trusted = r.trusted /\ b.populate = p
          /\ b.left = r.left /\ b.oldSessions = r.oldSessions /\ b.newSessions = r.newSessions
  BY <1>1, <1>2 DEF Rechecks
<1> QED BY <1>3, <1>4 DEF p

(* A recheck that is answered goes on with what is true now, or ends. *)
LEMMA Answers ==
    ASSUME ListenerAssumption, ListenerTypeOK, ToastsInv, InTurn, Rested, StartKnown, Asked, Reminding,
           NEW i \in DOMAIN rechecks,
           \/ CrossSigningAnswered(i) \/ SecretStorageAnswered(i) \/ Reported(i) \/ KeysAnswered(i)
           \/ BackupAnswered(i) \/ DeviceIdsAtStart(i) \/ OwnTrustAnswered(i) \/ DeviceIdsAnswered(i)
           \/ \E d \in Session : TrustAnswered(i, d)
    PROVE  Rested' /\ StartKnown' /\ Asked' /\ Reminding'
<1>none. atStart # Unknown /\ devices # Unknown
  BY DEF ListenerAssumption, ListenerTypeOK
<1>acc. /\ account.cross \in BOOLEAN /\ account.storage \in BOOLEAN
        /\ account.lacks \in {"verify", "upgrade", "new", "nothing"}
        /\ account.storage => account.cross
        /\ account.storage <=> account.lacks = "nothing"
        /\ account.cross /\ ~account.storage => account.lacks = "new"
  BY DEF ListenerTypeOK, Account
(* What its steps start from. *)
<1>old. /\ rechecks[i] \in Rechecks /\ rechecks[i].client /\ ~rechecks[i].gone /\ running
        /\ IsLast(i) => HasRead(rechecks[i])
        /\ Populating => devices = atStart
  <2>1. rechecks[i] \in Rechecks /\ rechecks # <<>>
    BY DEF ListenerTypeOK
  <2>2. rechecks[i].client /\ ~rechecks[i].gone /\ running
    BY <2>1 DEF Rested, NothingUnderWay
  <2>3. IsLast(i) => HasRead(rechecks[i])
    BY <2>1, <2>2 DEF Reminding, Latest, IsLast
  <2> QED BY <2>1, <2>2, <2>3 DEF StartKnown
<1>aw. /\ {"crossSigning", "storage", "report", "keys", "backup", "atStart", "trust", "devices",
           "sessions"} \subseteq Range(Awaits)
       /\ rechecks[i].await \in Late =>
             (rechecks[i].await = "atStart" /\ rechecks[i].populate) \/ ourDeviceIdsAtStart # Unknown
       /\ ~encrypted => setupToast = "none"
  BY <1>old, AwaitsType DEF StartKnown, Asked
<1>1. CASE CrossSigningAnswered(i)
  <2>1. PICK r : r = [At(rechecks[i], IF synced THEN "storage" ELSE "end") EXCEPT !.cross = account.cross]
    OBVIOUS
  <2>2. /\ r.await = IF synced THEN "storage" ELSE "end"
        /\ r.client = running /\ r.gone = rechecks[i].gone /\ r.cross = account.cross
        /\ r.trusted = rechecks[i].trusted /\ r.left = rechecks[i].left
        /\ r.oldSessions = rechecks[i].oldSessions /\ r.newSessions = rechecks[i].newSessions
    BY <1>old, <2>1 DEF At, Rechecks
  <2>3. /\ rechecks[i].await = "crossSigning" /\ Goes(i, r)
        /\ UNCHANGED <<account, encrypted, devices, verified, updating, synced, atStart, running, dismissed,
                       dismissedThisDeviceToast, ourDeviceIdsAtStart, snapshots, showing, setupToast, bulkToast,
                       toasts, snoozed, accessing, untold, scenario>>
    BY <1>1, <2>1 DEF CrossSigningAnswered, WaitsAt, world, listener, screen
  <2>4. CASE synced
    <3>1. r.await = "storage" /\ r.await \in Range(Awaits)
      BY <1>aw, <2>2, <2>4
    <3>2. IsLast(i) => HasRead(r)'
      BY <1>old, <2>2, <2>3, <3>1 DEF HasRead, Late
    <3> QED BY <1>aw, <2>2, <2>3, <3>1, <3>2, Moves DEF Late
  <2>5. CASE ~synced
    <3>1. i = 1 /\ rechecks' = RemoveAt(rechecks, 1)
      BY <2>2, <2>3, <2>5, Turn
    <3>2. /\ rechecks' = <<>> <=> Len(rechecks) = 1
          /\ rechecks' # <<>> => Latest' = Latest
          /\ \A j \in DOMAIN rechecks' : \E k \in DOMAIN rechecks : rechecks'[j] = rechecks[k]
      BY <3>1, Left DEF Latest
    <3>3. Rested'
      BY <1>old, <2>3, <3>2 DEF Rested
    <3>4. StartKnown'
      <4>1. Populating' => Populating
        BY <2>3, <3>2 DEF Populating
      <4>2. \A j \in DOMAIN rechecks' :
              rechecks'[j].await \in Late =>
                  (rechecks'[j].await = "atStart" /\ rechecks'[j].populate) \/ ourDeviceIdsAtStart' # Unknown
        BY <2>3, <3>2 DEF StartKnown
      <4> QED BY <2>3, <4>1, <4>2 DEF StartKnown
    <3>5. Asked'
      <4>1. \A j \in DOMAIN rechecks' : rechecks'[j].await \in {"keys", "backup"} => encrypted'
        BY <2>3, <3>2 DEF Asked
      <4>2. ASSUME "sessions" \notin untold, NEW j \in DOMAIN rechecks', Latest'.await \in Late PROVE rechecks'[j].await \in Late
        <5>1. rechecks' # <<>>
          BY <4>2
        <5> QED BY <3>2, <4>2, <5>1 DEF Asked
      <4> QED BY <2>3, <4>1, <4>2 DEF Asked
    <3>6. Reminding'
      <4>1. ASSUME "sessions" \notin untold, rechecks' # <<>> PROVE HasRead(Latest)'
        <5>1. HasRead(Latest) /\ Latest' = Latest
          BY <1>old, <3>2, <4>1 DEF Reminding
        <5> HIDE DEF Late
        <5> QED BY <2>3, <5>1 DEF HasRead, SetupShown, DueSetup, Unverified
      <4> QED BY <1>old, <2>3, <2>5, <4>1 DEF Reminding
    <3> QED BY <3>3, <3>4, <3>5, <3>6
  <2> QED BY <2>4, <2>5
<1>2. CASE SecretStorageAnswered(i)
  <2>1. PICK r : r = [At(rechecks[i], "report") EXCEPT !.storage = account.storage]
    OBVIOUS
  <2>2. /\ r.await = "report" /\ r.client = running /\ r.gone = rechecks[i].gone
        /\ r.cross = rechecks[i].cross /\ r.storage = account.storage
        /\ r.trusted = rechecks[i].trusted /\ r.left = rechecks[i].left
        /\ r.oldSessions = rechecks[i].oldSessions /\ r.newSessions = rechecks[i].newSessions
    BY <1>old, <2>1 DEF At, Rechecks
  <2>3. /\ rechecks[i].await = "storage" /\ Goes(i, r)
        /\ UNCHANGED <<account, encrypted, devices, verified, updating, synced, atStart, running, dismissed,
                       dismissedThisDeviceToast, ourDeviceIdsAtStart, snapshots, showing, setupToast, bulkToast,
                       toasts, snoozed, accessing, untold, scenario>>
    BY <1>2, <2>1 DEF SecretStorageAnswered, WaitsAt, world, listener, screen
  <2>4. IsLast(i) => HasRead(r)'
    BY <1>old, <2>2, <2>3 DEF HasRead, Late
  <2> QED BY <1>aw, <2>2, <2>3, <2>4, Moves DEF Late
<1>3. CASE Reported(i)
  <2> DEFINE hide == dismissedThisDeviceToast \/ (rechecks[i].cross /\ rechecks[i].storage)
  <2>1. PICK r : r = IF ~hide /\ ShouldShowSetupEncryptionToast THEN At(rechecks[i], "keys")
                     ELSE EnsureDeviceIdsAtStartPopulated(rechecks[i])
    OBVIOUS
  <2>2. /\ r.client = running /\ r.gone = rechecks[i].gone
        /\ r.cross = rechecks[i].cross /\ r.storage = rechecks[i].storage
        /\ r.trusted = rechecks[i].trusted /\ r.left = rechecks[i].left
        /\ r.oldSessions = rechecks[i].oldSessions /\ r.newSessions = rechecks[i].newSessions
        /\ \/ r.await = "keys" /\ ~hide /\ ~accessing /\ encrypted
           \/ /\ r.await = "atStart" /\ (r.populate <=> ourDeviceIdsAtStart = Unknown)
              /\ hide \/ accessing \/ ~encrypted
    <3>1. CASE ~hide /\ ShouldShowSetupEncryptionToast
      BY <1>old, <2>1, <3>1 DEF ShouldShowSetupEncryptionToast, At, Rechecks
    <3>2. CASE ~(~hide /\ ShouldShowSetupEncryptionToast)
      BY <1>old, <2>1, <3>2, Populates DEF ShouldShowSetupEncryptionToast
    <3> QED BY <3>1, <3>2
  <2>3. /\ rechecks[i].await = "report" /\ Goes(i, r)
        /\ setupToast' = IF hide THEN "none" ELSE setupToast
        /\ untold' = IF i = Len(rechecks) /\ ~hide /\ accessing THEN untold \cup {"setup"} ELSE untold
        /\ UNCHANGED <<account, encrypted, devices, verified, updating, synced, atStart, running, dismissed,
                       dismissedThisDeviceToast, ourDeviceIdsAtStart, snapshots, showing, bulkToast,
                       toasts, snoozed, accessing, scenario>>
    BY <1>3, <2>1 DEF Reported, WaitsAt, world, listener
  <2>4. IsLast(i) => HasRead(r)'
    <3> SUFFICES ASSUME IsLast(i) PROVE HasRead(r)'
      OBVIOUS
    <3>1. /\ r.cross = account.cross /\ r.storage = account.storage /\ ~r.trusted
          /\ r.oldSessions = {} /\ r.newSessions = {} /\ r.left \subseteq devices
      BY <1>old, <2>2, <2>3 DEF HasRead, Late
    <3>2. hide <=> dismissedThisDeviceToast \/ (account.cross /\ account.storage)
      BY <2>2, <3>1
    <3>3. r.await = "atStart" => SetupShown'
      BY <1>aw, <2>2, <2>3, <3>2 DEF SetupShown, DueSetup, IsLast
    <3> HIDE DEF hide
    <3> QED BY <2>2, <2>3, <3>1, <3>2, <3>3 DEF HasRead, Late
  <2> HIDE DEF hide
  <2> QED BY <1>aw, <2>2, <2>3, <2>4, Moves DEF Late

<1>4. CASE KeysAnswered(i)
  <2> DEFINE verify == account.lacks = "verify"
  <2>1. PICK r : r = IF verify THEN EnsureDeviceIdsAtStartPopulated(rechecks[i]) ELSE At(rechecks[i], "backup")
    OBVIOUS
  <2>2. /\ r.client = running /\ r.gone = rechecks[i].gone
        /\ r.cross = rechecks[i].cross /\ r.storage = rechecks[i].storage
        /\ r.trusted = rechecks[i].trusted /\ r.left = rechecks[i].left
        /\ r.oldSessions = rechecks[i].oldSessions /\ r.newSessions = rechecks[i].newSessions
        /\ IF verify THEN r.await = "atStart" /\ (r.populate <=> ourDeviceIdsAtStart = Unknown)
           ELSE r.await = "backup"
    <3>1. CASE verify
      BY <1>old, <2>1, <3>1, Populates
    <3>2. CASE ~verify
      BY <1>old, <2>1, <3>2 DEF At, Rechecks
    <3> QED BY <3>1, <3>2
  <2>3. /\ rechecks[i].await = "keys" /\ Goes(i, r)
        /\ setupToast' = IF verify THEN "verify" ELSE setupToast
        /\ UNCHANGED <<account, encrypted, devices, verified, updating, synced, atStart, running, dismissed,
                       dismissedThisDeviceToast, ourDeviceIdsAtStart, snapshots, showing, bulkToast,
                       toasts, snoozed, accessing, untold, scenario>>
    BY <1>4, <2>1 DEF KeysAnswered, WaitsAt, world, listener
  <2>4. encrypted
    BY <2>3 DEF Asked
  <2>5. IsLast(i) => HasRead(r)'
    <3> SUFFICES ASSUME IsLast(i) PROVE HasRead(r)'
      OBVIOUS
    <3>1. /\ r.cross = account.cross /\ r.storage = account.storage /\ ~r.trusted
          /\ r.oldSessions = {} /\ r.newSessions = {} /\ r.left \subseteq devices
          /\ ~dismissedThisDeviceToast /\ ~(account.cross /\ account.storage)
      BY <1>old, <2>2, <2>3 DEF HasRead, Late
    <3>2. r.await = "atStart" => SetupShown'
      BY <2>2, <2>3, <2>4, <3>1 DEF SetupShown, DueSetup
    <3> QED BY <2>2, <2>3, <3>1, <3>2 DEF HasRead, Late
  <2> HIDE DEF verify
  <2> QED BY <1>aw, <2>2, <2>3, <2>4, <2>5, Moves DEF Late
<1>5. CASE BackupAnswered(i)
  <2> DEFINE backup == account.lacks = "upgrade"
             atOnce == ~backup /\ scenario.required
  <2>1. PICK r : r = EnsureDeviceIdsAtStartPopulated(rechecks[i])
    OBVIOUS
  <2>2. /\ r.client = running /\ r.gone = rechecks[i].gone
        /\ r.cross = rechecks[i].cross /\ r.storage = rechecks[i].storage
        /\ r.trusted = rechecks[i].trusted /\ r.left = rechecks[i].left
        /\ r.oldSessions = rechecks[i].oldSessions /\ r.newSessions = rechecks[i].newSessions
        /\ r.await = "atStart" /\ (r.populate <=> ourDeviceIdsAtStart = Unknown)
    BY <1>old, <2>1, Populates
  <2>3. /\ rechecks[i].await = "backup" /\ Goes(i, r)
        /\ setupToast' = IF backup THEN "upgrade" ELSE IF atOnce THEN "none" ELSE "new"
        /\ untold' = IF i = Len(rechecks) /\ atOnce THEN untold \cup {"setup"} ELSE untold
        /\ UNCHANGED <<account, encrypted, devices, verified, updating, synced, atStart, running, dismissed,
                       dismissedThisDeviceToast, ourDeviceIdsAtStart, snapshots, showing, bulkToast,
                       toasts, snoozed, scenario>>
    BY <1>5, <1>old, <2>1 DEF BackupAnswered, WaitsAt, world, listener
  <2>4. encrypted
    BY <2>3 DEF Asked
  <2>5. IsLast(i) => HasRead(r)'
    <3> SUFFICES ASSUME IsLast(i) PROVE HasRead(r)'
      OBVIOUS
    <3>1. /\ r.cross = account.cross /\ r.storage = account.storage /\ ~r.trusted
          /\ r.oldSessions = {} /\ r.newSessions = {} /\ r.left \subseteq devices
          /\ ~dismissedThisDeviceToast /\ ~(account.cross /\ account.storage) /\ account.lacks # "verify"
      BY <1>old, <2>2, <2>3 DEF HasRead, Late
    <3>2. account.lacks \in {"upgrade", "new"}
      BY <1>acc, <3>1
    <3>3. SetupShown'
      BY <2>3, <2>4, <3>1, <3>2 DEF SetupShown, DueSetup, IsLast
    <3> QED BY <2>2, <2>3, <3>1, <3>3 DEF HasRead, Late
  <2> HIDE DEF backup, atOnce
  <2> QED BY <1>aw, <2>2, <2>3, <2>4, <2>5, Moves DEF Late
<1>6. CASE DeviceIdsAtStart(i)
  <2>1. /\ rechecks[i].await = "atStart"
        /\ ourDeviceIdsAtStart' = IF rechecks[i].populate THEN devices ELSE ourDeviceIdsAtStart
        /\ IF rechecks[i].cross THEN Waits(i, At(rechecks[i], "trust")) ELSE Ends(i, rechecks[i])
        /\ UNCHANGED <<account, encrypted, devices, verified, updating, synced, atStart, running, dismissed,
                       dismissedThisDeviceToast, snapshots, untold, scenario>>
    BY <1>6, <1>old DEF DeviceIdsAtStart, WaitsAt, world
  <2>2. rechecks[i].populate => devices = atStart
    BY <1>old, <2>1 DEF Populating
  <2>3. ourDeviceIdsAtStart' \in {ourDeviceIdsAtStart, atStart} /\ ourDeviceIdsAtStart' # Unknown
    BY <1>none, <1>aw, <2>1, <2>2 DEF Late
  <2>4. CASE rechecks[i].cross
    <3>1. PICK r : r = At(rechecks[i], "trust")
      OBVIOUS
    <3>2. /\ r.client = running /\ r.gone = rechecks[i].gone
          /\ r.cross = rechecks[i].cross /\ r.storage = rechecks[i].storage
          /\ r.trusted = rechecks[i].trusted /\ r.left = rechecks[i].left
          /\ r.oldSessions = rechecks[i].oldSessions /\ r.newSessions = rechecks[i].newSessions
          /\ r.await = "trust"
      BY <1>old, <3>1 DEF At, Rechecks
    <3>3. Goes(i, r) /\ UNCHANGED <<showing, setupToast, accessing>>
      BY <2>1, <2>4, <3>1 DEF Waits, screen
    <3>4. IsLast(i) => HasRead(r)'
      <4> SUFFICES ASSUME IsLast(i) PROVE HasRead(r)'
        OBVIOUS
      <4>1. /\ r.cross = account.cross /\ r.storage = account.storage /\ ~r.trusted /\ account.cross
            /\ r.oldSessions = {} /\ r.newSessions = {} /\ r.left \subseteq devices /\ SetupShown
        BY <1>old, <2>1, <2>4, <3>2 DEF HasRead, Late
      <4>2. SetupShown'
        BY <2>1, <3>3, <4>1 DEF SetupShown, DueSetup
      <4> QED BY <2>1, <3>2, <4>1, <4>2 DEF HasRead, Late
    <3> QED BY <1>aw, <2>1, <2>3, <3>2, <3>3, <3>4, Moves DEF Late
  <2>5. CASE ~rechecks[i].cross
    <3>1. PICK r \in Rechecks : r = rechecks[i]
      BY <1>old
    <3>2. Ends(i, r) /\ rechecks[i].await \in Late
      BY <2>1, <2>5, <3>1 DEF Late
    <3>3. IsLast(i) =>         /\ SetupShown /\ (r.trusted <=> account.cross)
                               /\ r.oldSessions \cup r.newSessions = Unverified
                               /\ r.oldSessions \subseteq atStart /\ r.newSessions \cap atStart = {}
      BY <1>old, <2>1, <2>5, <3>1 DEF HasRead, Late, Unverified
    <3> QED BY <2>1, <2>3, <3>2, <3>3, Finishes
  <2> QED BY <2>4, <2>5
<1>7. CASE OwnTrustAnswered(i)
  <2>1. PICK r : r = [At(rechecks[i], "devices") EXCEPT !.trusted = account.cross]
    OBVIOUS
  <2>2. /\ r.await = "devices" /\ r.client = running /\ r.gone = rechecks[i].gone
        /\ r.cross = rechecks[i].cross /\ r.storage = rechecks[i].storage
        /\ r.trusted = account.cross /\ r.left = rechecks[i].left
        /\ r.oldSessions = rechecks[i].oldSessions /\ r.newSessions = rechecks[i].newSessions
    BY <1>old, <2>1 DEF At, Rechecks
  <2>3. /\ rechecks[i].await = "trust" /\ Goes(i, r)
        /\ UNCHANGED <<account, encrypted, devices, verified, updating, synced, atStart, running, dismissed,
                       dismissedThisDeviceToast, ourDeviceIdsAtStart, snapshots, showing, setupToast, bulkToast,
                       toasts, snoozed, accessing, untold, scenario>>
    BY <1>7, <2>1 DEF OwnTrustAnswered, Waits, WaitsAt, world, screen
  <2>4. IsLast(i) => HasRead(r)'
    <3> SUFFICES ASSUME IsLast(i) PROVE HasRead(r)'
      OBVIOUS
    <3>1. /\ r.cross = account.cross /\ r.storage = account.storage /\ account.cross
          /\ r.oldSessions = {} /\ r.newSessions = {} /\ r.left \subseteq devices /\ SetupShown
      BY <1>old, <2>2, <2>3 DEF HasRead, Late
    <3>2. SetupShown'
      BY <2>3, <3>1 DEF SetupShown, DueSetup
    <3> QED BY <2>2, <2>3, <3>1, <3>2 DEF HasRead, Late
  <2> QED BY <1>aw, <2>2, <2>3, <2>4, Moves DEF Late
<1>8. CASE DeviceIdsAnswered(i)
  <2>1. /\ rechecks[i].await = "devices"
        /\ IF devices = {} THEN Ends(i, rechecks[i])
           ELSE Waits(i, [At(rechecks[i], "sessions") EXCEPT !.left = devices])
        /\ UNCHANGED <<account, encrypted, devices, verified, updating, synced, atStart, running, dismissed,
                       dismissedThisDeviceToast, ourDeviceIdsAtStart, snapshots, untold, scenario>>
    BY <1>8, <1>old DEF DeviceIdsAnswered, WaitsAt, world
  <2>2. ourDeviceIdsAtStart # Unknown
    BY <1>aw, <2>1 DEF Late
  <2>3. CASE devices # {}
    <3>1. PICK r : r = [At(rechecks[i], "sessions") EXCEPT !.left = devices]
      OBVIOUS
    <3>2. /\ r.client = running /\ r.gone = rechecks[i].gone
          /\ r.cross = rechecks[i].cross /\ r.storage = rechecks[i].storage
          /\ r.trusted = rechecks[i].trusted /\ r.left = devices
          /\ r.oldSessions = rechecks[i].oldSessions /\ r.newSessions = rechecks[i].newSessions
          /\ r.await = "sessions"
      BY <1>old, <3>1 DEF At, Rechecks
    <3>3. Goes(i, r) /\ UNCHANGED <<showing, setupToast, accessing>>
      BY <2>1, <2>3, <3>1 DEF Waits, screen
    <3>4. IsLast(i) => HasRead(r)'
      <4> SUFFICES ASSUME IsLast(i) PROVE HasRead(r)'
        OBVIOUS
      <4>1. /\ r.cross = account.cross /\ r.storage = account.storage /\ r.trusted /\ account.cross
            /\ r.oldSessions = {} /\ r.newSessions = {} /\ SetupShown
        BY <1>old, <2>1, <3>2 DEF HasRead, Late
      <4>2. SetupShown'
        BY <2>1, <3>3, <4>1 DEF SetupShown, DueSetup
      <4>3. Unverified' \ devices' = {}
        BY DEF Unverified
      <4> QED BY <2>1, <3>2, <4>1, <4>2, <4>3 DEF HasRead, Late
    <3> QED BY <1>aw, <2>1, <2>2, <3>2, <3>3, <3>4, Moves DEF Late
  <2>4. CASE devices = {}
    <3>1. PICK r \in Rechecks : r = rechecks[i]
      BY <1>old
    <3>2. Ends(i, r) /\ rechecks[i].await \in Late
      BY <2>1, <2>4, <3>1 DEF Late
    <3>3. IsLast(i) =>         /\ SetupShown /\ (r.trusted <=> account.cross)
                               /\ r.oldSessions \cup r.newSessions = Unverified
                               /\ r.oldSessions \subseteq atStart /\ r.newSessions \cap atStart = {}
      BY <1>old, <2>1, <2>4, <3>1 DEF HasRead, Late, Unverified
    <3> QED BY <2>1, <2>2, <3>2, <3>3, Finishes
  <2> QED BY <2>3, <2>4
<1>9. ASSUME NEW d \in Session, TrustAnswered(i, d) PROVE Rested' /\ StartKnown' /\ Asked' /\ Reminding'
  <2> DEFINE isOld == ourDeviceIdsAtStart # Unknown /\ d \in ourDeviceIdsAtStart
             left == rechecks[i].left \ {d}
             olds == IF Lists(d) /\ isOld THEN rechecks[i].oldSessions \cup {d} ELSE rechecks[i].oldSessions
             news == IF Lists(d) /\ ~isOld THEN rechecks[i].newSessions \cup {d} ELSE rechecks[i].newSessions
  <2>1. PICK r : r = [rechecks[i] EXCEPT !.left = left, !.oldSessions = olds, !.newSessions = news]
    OBVIOUS
  <2>2. /\ rechecks[i].await = "sessions" /\ d \in rechecks[i].left
        /\ IF r.left = {} THEN Ends(i, r) ELSE Waits(i, r)
        /\ UNCHANGED <<account, encrypted, devices, verified, updating, synced, atStart, running, dismissed,
                       dismissedThisDeviceToast, ourDeviceIdsAtStart, snapshots, untold, scenario>>
    BY <1>9, <2>1 DEF TrustAnswered, WaitsAt, world
  <2>3. ourDeviceIdsAtStart = atStart /\ ourDeviceIdsAtStart # Unknown
    BY <1>aw, <2>2 DEF Late, StartKnown
  <2>4. left \subseteq devices /\ olds \subseteq devices /\ news \subseteq devices
    BY <1>old, <2>2 DEF Rechecks
  <2>5. /\ r \in Rechecks /\ r.client = running /\ r.gone = rechecks[i].gone /\ r.await = "sessions"
        /\ r.cross = rechecks[i].cross /\ r.storage = rechecks[i].storage /\ r.trusted = rechecks[i].trusted
        /\ r.left = left /\ r.oldSessions = olds /\ r.newSessions = news
    <3> HIDE DEF left, olds, news
    <3> QED BY <1>old, <2>1, <2>2, <2>4 DEF Rechecks
  <2>6. IsLast(i) =>
           /\ r.cross = account.cross /\ r.storage = account.storage /\ r.trusted /\ account.cross
           /\ SetupShown /\ r.oldSessions \cup r.newSessions = Unverified \ r.left
           /\ r.oldSessions \subseteq atStart /\ r.newSessions \cap atStart = {}
    <3> SUFFICES ASSUME IsLast(i)
                 PROVE  /\ r.cross = account.cross /\ r.storage = account.storage /\ r.trusted /\ account.cross
                        /\ SetupShown /\ r.oldSessions \cup r.newSessions = Unverified \ r.left
                        /\ r.oldSessions \subseteq atStart /\ r.newSessions \cap atStart = {}
      OBVIOUS
    <3>1. /\ r.cross = account.cross /\ r.storage = account.storage /\ r.trusted /\ account.cross /\ SetupShown
          /\ rechecks[i].oldSessions \cup rechecks[i].newSessions = Unverified \ rechecks[i].left
          /\ rechecks[i].oldSessions \subseteq atStart /\ rechecks[i].newSessions \cap atStart = {}
      BY <1>old, <2>2, <2>5 DEF HasRead, Late
    <3>2. olds \cup news =
             IF Lists(d) THEN rechecks[i].oldSessions \cup rechecks[i].newSessions \cup {d}
             ELSE rechecks[i].oldSessions \cup rechecks[i].newSessions
      OBVIOUS
    <3>3. Lists(d) <=> d \in Unverified
      BY <1>old, <2>2, <3>1 DEF Lists, Unverified, Rechecks
    <3>4. olds \cup news = Unverified \ left
      <4> HIDE DEF olds, news
      <4> QED BY <2>2, <3>1, <3>2, <3>3
    <3>5. olds \subseteq atStart /\ news \cap atStart = {}
      BY <2>3, <3>1
    <3> QED BY <2>5, <3>1, <3>4, <3>5
  <2> HIDE DEF left, olds, news
  <2>7. CASE r.left = {}
    <3>1. Ends(i, r) /\ rechecks[i].await \in Late
      BY <2>2, <2>7 DEF Late
    <3>2. IsLast(i) =>         /\ SetupShown /\ (r.trusted <=> account.cross)
                               /\ r.oldSessions \cup r.newSessions = Unverified
                               /\ r.oldSessions \subseteq atStart /\ r.newSessions \cap atStart = {}
      BY <2>6, <2>7
    <3> QED BY <2>2, <2>3, <2>5, <3>1, <3>2, Finishes
  <2>8. CASE r.left # {}
    <3>1. Goes(i, r) /\ UNCHANGED <<showing, setupToast, accessing>>
      BY <2>2, <2>8 DEF Waits, screen
    <3>2. IsLast(i) => HasRead(r)'
      <4> SUFFICES ASSUME IsLast(i) PROVE HasRead(r)'
        OBVIOUS
      <4>1. SetupShown' /\ Unverified' = Unverified
        BY <2>2, <2>6, <3>1 DEF SetupShown, DueSetup, Unverified
      <4> QED BY <2>2, <2>4, <2>5, <2>6, <4>1 DEF HasRead, Late
    <3> QED BY <1>aw, <2>2, <2>3, <2>5, <3>1, <3>2, Moves DEF Late
  <2> QED BY <2>7, <2>8
<1> QED BY <1>1, <1>2, <1>3, <1>4, <1>5, <1>6, <1>7, <1>8, <1>9

(* Each step keeps the reminders those of the account. *)
LEMMA RemindersStep ==
    ASSUME ListenerAssumption, ListenerTypeOK, ToastsInv, RemindersInv, [ListenerNext]_listenerVars
    PROVE  RemindersInv'
<1>0. scenario' = scenario
  <2>1. CASE AccountChanged \/ RoomEncrypted \/ OnSync \/ SnapshotTaken \/ DismissBulk
             \/ SnapshotFailed \/ DismissEncryptionSetup \/ AccessSecretStorage \/ SecretStorageAccessed
             \/ Stop \/ Start \/ UNCHANGED listenerVars
    BY <2>1 DEF listenerVars, AccountChanged, RoomEncrypted, OnSync, SnapshotTaken, SnapshotFailed, DismissBulk,
       DismissEncryptionSetup, AccessSecretStorage, SecretStorageAccessed, Stop, Start
  <2>2. ASSUME NEW d \in Session,
               \/ DeviceVerificationChanged(d) \/ OnWillUpdateDevices(d) \/ OnDevicesUpdated(d)
               \/ DismissSession(d) \/ SessionToastShown(d) \/ SessionToastFailed(d)
        PROVE  scenario' = scenario
    BY <2>2 DEF DeviceVerificationChanged, OnWillUpdateDevices, OnDevicesUpdated, DismissSession,
       SessionToastShown, SessionToastFailed
  <2>3. ASSUME NEW i \in DOMAIN rechecks,
               \/ CrossSigningAnswered(i) \/ SecretStorageAnswered(i) \/ Reported(i) \/ KeysAnswered(i)
               \/ BackupAnswered(i) \/ DeviceIdsAtStart(i) \/ OwnTrustAnswered(i) \/ DeviceIdsAnswered(i)
               \/ (\E d \in Session : TrustAnswered(i, d)) \/ RecheckFailed(i)
        PROVE  scenario' = scenario
    BY <2>3 DEF CrossSigningAnswered, SecretStorageAnswered, Reported, KeysAnswered, BackupAnswered,
       DeviceIdsAtStart, OwnTrustAnswered, DeviceIdsAnswered, TrustAnswered, RecheckFailed
  <2> QED BY <2>1, <2>2, <2>3 DEF ListenerNext
<1> SUFFICES ASSUME InTurn PROVE Rested' /\ StartKnown' /\ Asked' /\ Reminding'
  BY <1>0 DEF RemindersInv, InTurn
<1>inv. InTurn /\ Rested /\ StartKnown /\ Asked /\ Reminding
  BY DEF RemindersInv
<1>1. CASE AccountChanged
  BY <1>1, <1>inv, Asks DEF AccountChanged, listener, screen
<1>2. ASSUME NEW d \in Session, DeviceVerificationChanged(d) PROVE Rested' /\ StartKnown' /\ Asked' /\ Reminding'
  BY <1>2, <1>inv, Asks DEF DeviceVerificationChanged, listener, screen
<1>3. CASE RoomEncrypted
  BY <1>3, <1>inv, Asks DEF RoomEncrypted, listener, screen
<1>4. CASE OnSync
  BY <1>4, <1>inv, Asks DEF OnSync, listener, screen
<1>5. ASSUME NEW d \in Session, OnDevicesUpdated(d) PROVE Rested' /\ StartKnown' /\ Asked' /\ Reminding'
  <2>1. ~Populating /\ d \in updating
    BY <1>5, <1>inv DEF OnDevicesUpdated, InTurn
  <2>2. ourDeviceIdsAtStart # Unknown
    BY <1>inv, <2>1 DEF StartKnown, Populating, ListenerTypeOK
  <2> QED BY <1>5, <1>inv, <2>1, <2>2, Asks DEF OnDevicesUpdated, listener, screen
<1>6. ASSUME NEW d \in Session, DismissSession(d) PROVE Rested' /\ StartKnown' /\ Asked' /\ Reminding'
  BY <1>6, <1>inv, Asks DEF DismissSession, world, screen
<1>7. CASE DismissBulk
  BY <1>7, <1>inv, Asks DEF DismissBulk, world
<1>8. CASE DismissEncryptionSetup
  BY <1>8, <1>inv, Asks DEF DismissEncryptionSetup, world, screen
<1>9. ASSUME NEW d \in Session, OnWillUpdateDevices(d) PROVE Rested' /\ StartKnown' /\ Asked' /\ Reminding'
  <2>1. /\ running /\ snapshots' = IF ourDeviceIdsAtStart = Unknown THEN snapshots + 1 ELSE snapshots
        /\ UNCHANGED <<account, encrypted, devices, verified, synced, atStart, listener, rechecks, showing, screen, untold, scenario>>
    BY <1>9 DEF OnWillUpdateDevices
  <2>2. Rested'
    BY <1>inv, <2>1 DEF Rested, listener
  <2>3. StartKnown'
    <3>1. Populating' => Populating \/ ourDeviceIdsAtStart = Unknown
      BY <2>1 DEF Populating
    <3>2. ourDeviceIdsAtStart' # Unknown \/ snapshots' > 0
      BY <2>1 DEF ListenerTypeOK, listener
    <3> QED BY <1>inv, <2>1, <3>1, <3>2 DEF StartKnown, listener
  <2>4. Asked'
    BY <1>inv, <2>1 DEF Asked, Latest, screen, listener
  <2>5. Reminding'
    BY <1>inv, <2>1 DEF Reminding, HasRead, Latest, Unverified, SetupShown, DueSetup, screen, listener
  <2> QED BY <2>2, <2>3, <2>4, <2>5
<1>10. CASE SnapshotTaken
  <2>1. /\ snapshots > 0 /\ snapshots' = snapshots - 1 /\ ourDeviceIdsAtStart' = devices
        /\ UNCHANGED <<world, running, dismissed, dismissedThisDeviceToast, rechecks, showing, screen, untold, scenario>>
    BY <1>10 DEF SnapshotTaken
  <2>2. Populating /\ running
    BY <1>inv, <2>1 DEF Populating, Rested, NothingUnderWay, ListenerTypeOK
  <2>3. devices = atStart
    BY <1>inv, <2>2 DEF StartKnown
  <2>4. Rested'
    BY <1>inv, <2>1, <2>2 DEF Rested
  <2>5. StartKnown'
    <3>1. atStart # Unknown
      BY DEF ListenerAssumption, ListenerTypeOK
    <3> QED BY <1>inv, <2>1, <2>2, <2>3, <3>1 DEF StartKnown, world
  <2>6. Asked'
    BY <1>inv, <2>1 DEF Asked, Latest, screen, world
  <2>7. Reminding'
    BY <1>inv, <2>1 DEF Reminding, HasRead, Latest, Unverified, SetupShown, DueSetup, screen, world
  <2> QED BY <2>4, <2>5, <2>6, <2>7
<1>11. CASE AccessSecretStorage \/ SecretStorageAccessed
  <2>1. UNCHANGED <<world, listener, rechecks, snapshots, showing, setupToast, bulkToast, toasts, snoozed, untold,
                    scenario>>
    BY <1>11 DEF AccessSecretStorage, SecretStorageAccessed
  <2>2. Rested'
    BY <1>inv, <2>1 DEF Rested, NothingUnderWay, Showing, listener, world
  <2>3. StartKnown'
    BY <1>inv, <2>1 DEF StartKnown, Populating, listener, world
  <2>4. Asked'
    BY <1>inv, <2>1 DEF Asked, Latest, listener, world
  <2>5. Reminding'
    BY <1>inv, <2>1 DEF Reminding, HasRead, Latest, Unverified, SetupShown, DueSetup, listener, world
  <2> QED BY <2>2, <2>3, <2>4, <2>5
<1>12. ASSUME NEW d \in Session, SessionToastShown(d) PROVE Rested' /\ StartKnown' /\ Asked' /\ Reminding'
  <2>1. /\ showing[d] > 0 /\ showing' = [showing EXCEPT ![d] = @ - 1] /\ toasts' = toasts \cup {d}
        /\ UNCHANGED <<world, listener, rechecks, snapshots, setupToast, bulkToast, snoozed, accessing, untold,
                       scenario>>
    BY <1>12 DEF SessionToastShown
  <2>2. running
    BY <1>inv, <2>1 DEF Rested, NothingUnderWay, Showing
  <2>3. Rested'
    BY <1>inv, <2>1, <2>2 DEF Rested, listener, world
  <2>4. StartKnown'
    BY <1>inv, <2>1 DEF StartKnown, Populating, listener, world
  <2>5. Asked'
    BY <1>inv, <2>1 DEF Asked, Latest, listener, world
  <2>6. toasts' \cup {e \in Session : showing'[e] > 0} = toasts \cup {e \in Session : showing[e] > 0}
    BY <2>1 DEF ListenerTypeOK
  <2>7. Reminding'
    BY <1>inv, <2>1, <2>6 DEF Reminding, HasRead, Latest, Unverified, SetupShown, DueSetup, listener, world
  <2> QED BY <2>3, <2>4, <2>5, <2>7
<1>13. CASE Stop
  <2>1. /\ ~running' /\ NothingUnderWay /\ updating = {} /\ ourDeviceIdsAtStart' = Unknown
        /\ rechecks' = [i \in DOMAIN rechecks |-> [rechecks[i] EXCEPT !.gone = TRUE]]
        /\ UNCHANGED <<world, snapshots, showing, screen, untold, scenario>>
    BY <1>13, <1>inv DEF Stop, InTurn
  <2>2. rechecks = <<>> /\ snapshots = 0 /\ ~Showing
    BY <2>1 DEF NothingUnderWay
  <2>3. DOMAIN rechecks' = {} /\ rechecks' = <<>>
    BY <2>1, <2>2
  <2>4. Rested'
    BY <2>1, <2>2, <2>3 DEF Rested, NothingUnderWay, Showing, world
  <2>5. StartKnown'
    BY <2>1, <2>3 DEF StartKnown, world
  <2>6. Asked'
    BY <1>inv, <2>1, <2>3 DEF Asked, world, screen
  <2> QED BY <2>1, <2>4, <2>5, <2>6 DEF Reminding
<1>14. CASE Start
  <2>1. /\ ~running /\ running' /\ ~synced' /\ setupToast' = "none" /\ rechecks' = Append(rechecks, NewRecheck)
        /\ atStart' = devices /\ untold' = {}
        /\ UNCHANGED <<account, encrypted, devices, verified, updating, dismissed, dismissedThisDeviceToast,
                       ourDeviceIdsAtStart, snapshots, showing, accessing, scenario>>
    BY <1>14 DEF Start
  <2>2. rechecks = <<>> /\ snapshots = 0 /\ ~Showing /\ updating = {} /\ DOMAIN rechecks = {}
    BY <1>inv, <2>1 DEF Rested, NothingUnderWay
  <2>3. rechecks' # <<>> /\ Latest' = NewRecheck /\ \A i \in DOMAIN rechecks' : rechecks'[i] = NewRecheck
    BY <2>1, <2>2, Joined DEF Latest
  <2>4. /\ NewRecheck.await = "crossSigning" /\ NewRecheck.client /\ ~NewRecheck.gone /\ ~NewRecheck.trusted
        /\ NewRecheck.left = {} /\ NewRecheck.oldSessions = {} /\ NewRecheck.newSessions = {}
    BY DEF NewRecheck
  <2>5. Rested'
    BY <2>1, <2>3, <2>4 DEF Rested
  <2>6. StartKnown'
    <3>1. ourDeviceIdsAtStart = Unknown
      BY <1>inv, <2>1 DEF StartKnown
    <3> QED BY <2>1, <2>2, <2>3, <2>4, <3>1 DEF StartKnown, Late
  <2>7. Asked'
    BY <1>inv, <2>1, <2>3, <2>4 DEF Asked, Late
  <2>8. HasRead(NewRecheck)'
    BY <2>4 DEF HasRead, Late, NewRecheck
  <2> QED BY <2>1, <2>3, <2>5, <2>6, <2>7, <2>8 DEF Reminding
<1>15. CASE UNCHANGED listenerVars
  <2>1. UNCHANGED <<world, listener, rechecks, snapshots, showing, screen, untold, scenario>>
    BY <1>15 DEF listenerVars
  <2>2. Rested'
    BY <1>inv, <2>1 DEF Rested, NothingUnderWay, Showing, listener, world
  <2>3. StartKnown'
    BY <1>inv, <2>1 DEF StartKnown, Populating, listener, world
  <2>4. Asked'
    BY <1>inv, <2>1 DEF Asked, Latest, listener, world, screen
  <2>5. Reminding'
    BY <1>inv, <2>1 DEF Reminding, HasRead, Latest, Unverified, SetupShown, DueSetup, listener, world, screen
  <2> QED BY <2>2, <2>3, <2>4, <2>5
<1>16. ASSUME NEW i \in DOMAIN rechecks, RecheckFailed(i) PROVE Rested' /\ StartKnown' /\ Asked' /\ Reminding'
  <2>1. /\ rechecks' = RemoveAt(rechecks, i)
        /\ untold' = IF i = Len(rechecks) THEN {"setup", "sessions"} ELSE untold
        /\ UNCHANGED <<world, listener, snapshots, showing, screen, scenario>>
    BY <1>16 DEF RecheckFailed
  <2>2. /\ i # Len(rechecks) => rechecks' # <<>> /\ Latest' = Latest
        /\ \A j \in DOMAIN rechecks' : \E k \in DOMAIN rechecks : rechecks'[j] = rechecks[k]
    BY <2>1, Dropped DEF Latest
  <2>3. running /\ rechecks # <<>>
    BY <1>inv DEF Rested, NothingUnderWay, ListenerTypeOK
  <2>4. Rested'
    BY <1>inv, <2>1, <2>2, <2>3 DEF Rested, listener
  <2>5. StartKnown'
    <3>1. Populating' => Populating
      BY <2>1, <2>2 DEF Populating
    <3>2. \A j \in DOMAIN rechecks' :
            rechecks'[j].await \in Late =>
                (rechecks'[j].await = "atStart" /\ rechecks'[j].populate) \/ ourDeviceIdsAtStart' # Unknown
      BY <1>inv, <2>1, <2>2 DEF StartKnown, listener
    <3> QED BY <1>inv, <2>1, <3>1, <3>2 DEF StartKnown, listener, world
  <2>6. Asked'
    <3>1. \A j \in DOMAIN rechecks' : rechecks'[j].await \in {"keys", "backup"} => encrypted'
      BY <1>inv, <2>1, <2>2 DEF Asked, world
    <3>2. ASSUME "sessions" \notin untold', NEW j \in DOMAIN rechecks', Latest'.await \in Late
          PROVE  rechecks'[j].await \in Late
      <4>1. i # Len(rechecks) /\ "sessions" \notin untold /\ Latest' = Latest
        BY <2>1, <2>2, <3>2
      <4> QED BY <1>inv, <2>2, <3>2, <4>1 DEF Asked
    <3> QED BY <1>inv, <2>1, <3>1, <3>2 DEF Asked, world, listener, screen
  <2>7. Reminding'
    <3>1. CASE i = Len(rechecks)
      BY <2>1, <3>1 DEF Reminding
    <3>2. CASE i # Len(rechecks) /\ "sessions" \in untold
      BY <1>inv, <2>1, <2>3, <3>2 DEF Reminding, world
    <3>3. CASE i # Len(rechecks) /\ "sessions" \notin untold
      <4>1. HasRead(Latest) /\ Latest' = Latest /\ rechecks' # <<>> /\ untold' = untold
        BY <1>inv, <2>1, <2>2, <2>3, <3>3 DEF Reminding
      <4>2. HasRead(Latest)'
        <5> HIDE DEF Late
        <5> QED BY <2>1, <4>1 DEF HasRead, SetupShown, DueSetup, Unverified, world, listener, screen
      <4> QED BY <3>3, <4>1, <4>2 DEF Reminding
    <3> QED BY <3>1, <3>2, <3>3
  <2> QED BY <2>4, <2>5, <2>6, <2>7
<1>19. ASSUME NEW d \in Session, SessionToastFailed(d) PROVE Rested' /\ StartKnown' /\ Asked' /\ Reminding'
  <2>1. /\ showing[d] > 0 /\ showing' = [showing EXCEPT ![d] = @ - 1]
        /\ untold' = IF rechecks = <<>> THEN untold \cup {"sessions"} ELSE untold
        /\ UNCHANGED <<world, listener, rechecks, snapshots, screen, scenario>>
    BY <1>19 DEF SessionToastFailed
  <2>2. running
    BY <1>inv, <2>1 DEF Rested, NothingUnderWay, Showing
  <2>3. Rested'
    BY <1>inv, <2>1, <2>2 DEF Rested, listener, world
  <2>4. StartKnown'
    BY <1>inv, <2>1 DEF StartKnown, Populating, listener, world
  <2>5. Asked'
    BY <1>inv, <2>1 DEF Asked, Latest, listener, world, screen
  <2>6. Reminding'
    <3>1. CASE rechecks # <<>>
      BY <1>inv, <2>1, <3>1 DEF Reminding, HasRead, Latest, Unverified, SetupShown, DueSetup, listener, world, screen
    <3>2. CASE rechecks = <<>>
      <4>1. synced /\ "setup" \notin untold => SetupShown
        BY <1>inv, <2>2, <3>2 DEF Reminding
      <4>2. SetupShown' <=> SetupShown
        BY <2>1 DEF SetupShown, DueSetup, listener, world, screen
      <4> QED BY <2>1, <3>2, <4>1, <4>2 DEF Reminding, world
    <3> QED BY <3>1, <3>2
  <2> QED BY <2>3, <2>4, <2>5, <2>6
<1>20. CASE SnapshotFailed
  BY <1>20, <1>inv DEF SnapshotFailed, InTurn
<1>17. ASSUME NEW d \in Session,
              \/ DeviceVerificationChanged(d) \/ OnWillUpdateDevices(d) \/ OnDevicesUpdated(d)
              \/ DismissSession(d) \/ SessionToastShown(d) \/ SessionToastFailed(d)
       PROVE  Rested' /\ StartKnown' /\ Asked' /\ Reminding'
  BY <1>17, <1>2, <1>5, <1>6, <1>9, <1>12, <1>19
<1>18. ASSUME NEW i \in DOMAIN rechecks,
              \/ CrossSigningAnswered(i) \/ SecretStorageAnswered(i) \/ Reported(i) \/ KeysAnswered(i)
              \/ BackupAnswered(i) \/ DeviceIdsAtStart(i) \/ OwnTrustAnswered(i) \/ DeviceIdsAnswered(i)
              \/ (\E d \in Session : TrustAnswered(i, d)) \/ RecheckFailed(i)
       PROVE  Rested' /\ StartKnown' /\ Asked' /\ Reminding'
  BY <1>18, <1>16, <1>inv, Answers
<1> QED BY <1>1, <1>3, <1>4, <1>7, <1>8, <1>10, <1>11, <1>13, <1>14, <1>15, <1>17, <1>18, <1>20 DEF ListenerNext

(* Where rechecks keep their order, the toasts are those of the account as *)
(* it is once the last recheck has ended, whatever changed, was dismissed   *)
(* or failed during it, also after a logout, but for what the latest one   *)
(* has not seen to.                                                        *)
THEOREM RemindersAreCurrent == ASSUME ListenerAssumption PROVE ListenerSpec => []RemindersCurrent
<1>1. ListenerInit => RemindersInv
  <2> SUFFICES ASSUME ListenerInit PROVE RemindersInv
    OBVIOUS
  <2>1. /\ DOMAIN rechecks = {1} /\ Len(rechecks) = 1 /\ rechecks # <<>> /\ Latest = NewRecheck
        /\ \A i \in DOMAIN rechecks : rechecks[i] = NewRecheck
    <3>1. rechecks = << NewRecheck >>
      BY DEF ListenerInit
    <3> QED BY <3>1 DEF Latest
  <2>2. /\ NewRecheck.await = "crossSigning" /\ NewRecheck.client /\ ~NewRecheck.gone /\ ~NewRecheck.trusted
        /\ NewRecheck.left = {} /\ NewRecheck.oldSessions = {} /\ NewRecheck.newSessions = {}
    BY DEF NewRecheck
  <2>3. /\ running /\ ourDeviceIdsAtStart = Unknown /\ atStart = devices /\ updating = {}
        /\ setupToast = "none" /\ untold = {}
    BY DEF ListenerInit
  <2>4. Rested
    BY <2>1, <2>2, <2>3 DEF Rested
  <2>5. StartKnown
    BY <2>1, <2>2, <2>3 DEF StartKnown, Late
  <2>6. Asked
    BY <2>1, <2>2, <2>3 DEF Asked, Late
  <2>7. HasRead(NewRecheck)
    BY <2>2 DEF HasRead, Late
  <2> QED BY <2>1, <2>3, <2>4, <2>5, <2>6, <2>7 DEF RemindersInv, Reminding
<1>2. RemindersInv /\ ToastsInv => RemindersCurrent
  <2> SUFFICES ASSUME RemindersInv, ToastsInv, InTurn, running, synced, NothingUnderWay
               PROVE  /\ "setup" \notin untold => setupToast = DueSetup
                      /\ "sessions" \notin untold =>
                            /\ bulkToast = IF snoozed THEN {} ELSE Unverified \cap atStart
                            /\ toasts = Unverified \ atStart
    BY DEF RemindersCurrent, InTurn, Unverified
  <2>1. rechecks = <<>> /\ {d \in Session : showing[d] > 0} = {}
    BY DEF NothingUnderWay, Showing
  <2> QED BY <2>1 DEF RemindersInv, Reminding, SetupShown
<1> QED BY <1>1, <1>2, RemindersStep, TypeCorrect, ToastsInvariant, PTL DEF ListenerSpec

(* No reminder is forgotten and none is left behind, but for what the      *)
(* latest recheck has not seen to.                                         *)
THEOREM ToastsTrue == ASSUME ListenerAssumption PROVE ListenerSpec => []ToastsAreTrue
<1>1. RemindersCurrent /\ SessionToastsTracked => ToastsAreTrue
  BY DEF ToastsAreTrue
<1> QED BY <1>1, RemindersAreCurrent, ToastsTracked, PTL
=============================================================================
