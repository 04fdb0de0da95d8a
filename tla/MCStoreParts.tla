--------------------------- MODULE MCStoreParts ---------------------------
(***************************************************************************)
(* An instance for TLC of two parts of the client that share no state:     *)
(* live location sharing (OwnBeaconStore) and the reminders about          *)
(* encryption (DeviceListener).  Each behaviour is one of one part, the    *)
(* other rests in one initial state.                                       *)
(***************************************************************************)
EXTENDS MCOwnBeaconStore, DeviceListener

CONSTANTS e1, e2

VARIABLE part

allVars == <<part, vars, listenerVars>>

(* Rechecks that keep their order, over a change of the account, a login   *)
(* and a click; over calls that fail; over a logout; where a secure backup *)
(* is required; and rechecks in any order, over a login whose snapshot may *)
(* fail, and over a logout.                                                *)
Orderly == [changes |-> 1, logins |-> 1, clicks |-> 1, restarts |-> 0, faults |-> 0, inTurn |-> TRUE,
            prompt |-> TRUE, required |-> FALSE]
Faulty == [Orderly EXCEPT !.clicks = 0, !.faults = 2]
Restarted == [Orderly EXCEPT !.changes = 0, !.restarts = 1]
Required == [Orderly EXCEPT !.logins = 0, !.required = TRUE]
Disorder == [Orderly EXCEPT !.changes = 0, !.clicks = 0, !.faults = 1, !.inTurn = FALSE]
DisorderRestarted == [Disorder EXCEPT !.logins = 0, !.restarts = 1, !.faults = 0]
ListenerScenarios == {Orderly, Faulty, Restarted, Required, Disorder, DisorderRestarted}

(* Rooms are interchangeable, and so are sessions. *)
PartsSymmetry == RoomSymmetry \cup Permutations(Session)

----------------------------------------------------------------------------
PartsInit ==
    /\ part \in {"beacons", "listener"}
    /\ Init /\ ListenerInit
    /\ part # "listener" => /\ account.lacks = "nothing" /\ devices = {} /\ encrypted
                            /\ scenario = Orderly

Sharing == part = "beacons" /\ UNCHANGED <<part, listenerVars>>
Listening == part = "listener" /\ UNCHANGED <<part, vars>>

PartsNext ==
    \/ \E r \in Rooms :
          \/ Sharing /\ Sync(r)
          \/ Sharing /\ Expire(r)
          \/ Sharing /\ StopBeacon(r)
          \/ Sharing /\ CreateLiveBeacon(r)
          \/ Sharing /\ CreateAccepted(r)
          \/ Sharing /\ CreateAnswered(r)
          \/ Sharing /\ CreateFailed(r)
          \/ Sharing /\ ForeignBeacon(r)
          \/ Sharing /\ SendAnswered(r)
          \/ Sharing /\ ResetLocationPublishError(r)
    \/ \E s \in stops : Sharing /\ StopAccepted(s)
    \/ \E s \in stops : Sharing /\ StopAnswered(s)
    \/ \E s \in stops : Sharing /\ StopFailed(s)
    \/ Sharing /\ OnWatchedPosition
    \/ Sharing /\ DebounceEnds
    \/ Sharing /\ StaticInterval
    \/ Sharing /\ Located
    \/ Sharing /\ PermissionDenied
    \/ Sharing /\ Reload
    \/ Listening /\ AccountChanged
    \/ Listening /\ RoomEncrypted
    \/ Listening /\ OnSync
    \/ Listening /\ SnapshotTaken
    \/ Listening /\ DismissBulk
    \/ Listening /\ DismissEncryptionSetup
    \/ Listening /\ AccessSecretStorage
    \/ Listening /\ SecretStorageAccessed
    \/ Listening /\ SnapshotFailed
    \/ Listening /\ Stop
    \/ Listening /\ Start
    \/ \E d \in Session :
          \/ Listening /\ DeviceVerificationChanged(d)
          \/ Listening /\ OnWillUpdateDevices(d)
          \/ Listening /\ OnDevicesUpdated(d)
          \/ Listening /\ DismissSession(d)
          \/ Listening /\ SessionToastShown(d)
          \/ Listening /\ SessionToastFailed(d)
    \/ \E i \in DOMAIN rechecks : Listening /\ CrossSigningAnswered(i)
    \/ \E i \in DOMAIN rechecks : Listening /\ SecretStorageAnswered(i)
    \/ \E i \in DOMAIN rechecks : Listening /\ Reported(i)
    \/ \E i \in DOMAIN rechecks : Listening /\ KeysAnswered(i)
    \/ \E i \in DOMAIN rechecks : Listening /\ BackupAnswered(i)
    \/ \E i \in DOMAIN rechecks : Listening /\ DeviceIdsAtStart(i)
    \/ \E i \in DOMAIN rechecks : Listening /\ OwnTrustAnswered(i)
    \/ \E i \in DOMAIN rechecks : Listening /\ DeviceIdsAnswered(i)
    \/ \E i \in DOMAIN rechecks, d \in Session : Listening /\ TrustAnswered(i, d)
    \/ \E i \in DOMAIN rechecks : Listening /\ RecheckFailed(i)

PartsSpec == PartsInit /\ [][PartsNext]_allVars

=============================================================================
