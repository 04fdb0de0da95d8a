--------------------------- MODULE DeviceListener ---------------------------
(***************************************************************************)
(* The reminders about encryption of src/DeviceListener.ts: the toast that *)
(* asks to set up encryption, the one about unverified sessions that were  *)
(* there when the application started, and one for each session that has   *)
(* appeared since, with the toasts of src/toasts and the ToastStore.       *)
(*                                                                         *)
(* Everything that may matter starts a recheck, which reads the state of   *)
(* the account over many awaits; rechecks overlap.  Backups are never      *)
(* deleted, so the cached answer about them is never wrong.                *)
(***************************************************************************)
EXTENDS Naturals, FiniteSets, Sequences, SequencesExt

CONSTANTS
    Session,     \* the user's other sessions
    MaxRechecks, \* bound: rechecks that overlap
    Unknown,
    Scenarios    \* bound: what happens, and how often

(* changes: of the account, of rooms, or of the trust in a session; logins: *)
(* new sessions; clicks: of the user on a toast, or to access secret        *)
(* storage; restarts: logouts; faults: calls that fail; inTurn: no recheck  *)
(* overtakes an earlier one, the devices at the start are learnt before a   *)
(* new one is downloaded, and nothing is under way at a logout; prompt: the *)
(* details of a session are there, or missing, at once.                     *)
ListenerAssumption ==
    /\ MaxRechecks \in Nat \ {0} /\ \A S \in SUBSET Session : S # Unknown
    /\ \A s \in Scenarios :
         /\ {s.changes, s.logins, s.clicks, s.restarts, s.faults} \subseteq Nat
         /\ {s.inTurn, s.prompt, s.required} \subseteq BOOLEAN

VARIABLES
    account,     \* what is set up, and what the user lacks
    encrypted,   \* is the user in an encrypted room?
    devices, verified, \* the sessions the crypto module knows, and trusts
    updating,    \* those whose download has begun (WillUpdateDevices)
    synced,      \* has the initial sync been completed?
    running, dismissed, dismissedThisDeviceToast, ourDeviceIdsAtStart,
    displayingToastsForDeviceIds,
    rechecks,    \* calls of doRecheck under way
    snapshots,   \* handlers of WillUpdateDevices that wait for the devices
    showing,     \* calls of showToast that wait for a session's details
    setupToast, bulkToast, toasts, \* the toasts on the screen
    snoozed,     \* has the user put off the reminder of old sessions?
    accessing,   \* is secret storage being accessed?
    atStart,     \* history: the devices known when the listener started
    untold,      \* history: what the latest recheck has not seen to, "setup" or "sessions"
    listenerCount, scenario

world == <<account, encrypted, devices, verified, updating, synced, atStart>>
listener == <<running, dismissed, dismissedThisDeviceToast, ourDeviceIdsAtStart,
         displayingToastsForDeviceIds>>
screen == <<setupToast, bulkToast, toasts, snoozed, accessing>>
listenerVars == <<world, listener, rechecks, snapshots, showing, screen, untold, listenerCount, scenario>>

(* The states of an account: is cross-signing ready, is secret storage, and *)
(* what the user is asked for if not.  A key backup calls for "upgrade".    *)
Account ==
    {a \in [cross : BOOLEAN, storage : BOOLEAN, lacks : {"verify", "upgrade", "new", "nothing"}] :
        /\ a.storage => a.cross
        /\ a.storage <=> a.lacks = "nothing"
        /\ a.cross /\ ~a.storage => a.lacks = "new"}

(* The awaits of doRecheck in their order. *)
Awaits == <<"crossSigning", "storage", "report", "keys", "backup", "atStart", "trust", "devices",
            "sessions">>
Rank(await) == IF await = "end" THEN Len(Awaits) + 1 ELSE CHOOSE k \in DOMAIN Awaits : Awaits[k] = await

(* A recheck that waits at await; client: did this.client exist when it     *)
(* asked?  left: the sessions whose trust it has not asked for yet; gone:   *)
(* its client has been stopped.                                            *)
NewRecheck == [await |-> "crossSigning", client |-> TRUE, gone |-> FALSE, cross |-> FALSE,
               storage |-> FALSE, trusted |-> FALSE, populate |-> FALSE,
               left |-> {}, oldSessions |-> {}, newSessions |-> {}]

OneMore(what) == listenerCount[what] < scenario[what] /\ listenerCount' = [listenerCount EXCEPT ![what] = @ + 1]

ListenerInit ==
    /\ account \in Account /\ encrypted \in BOOLEAN /\ synced = FALSE
    /\ devices \in SUBSET Session /\ verified \in SUBSET devices /\ updating = {}
    /\ atStart = devices
    /\ running = TRUE /\ dismissed = {} /\ dismissedThisDeviceToast = FALSE
    /\ ourDeviceIdsAtStart = Unknown /\ displayingToastsForDeviceIds = {}
    /\ rechecks = << NewRecheck >> /\ snapshots = 0 /\ showing = [d \in Session |-> 0]
    /\ setupToast = "none" /\ bulkToast = {} /\ toasts = {} /\ snoozed = FALSE /\ accessing = FALSE
    /\ untold = {} /\ listenerCount = [k \in {"changes", "logins", "clicks", "restarts", "faults"} |-> 0]
    /\ scenario \in Scenarios

----------------------------------------------------------------------------
(* WHAT STARTS A RECHECK *)

(* recheck: there is nothing to do once the listener has been stopped. *)
Recheck ==
    /\ Len(rechecks) < MaxRechecks
    /\ rechecks' = IF running THEN Append(rechecks, NewRecheck) ELSE rechecks
    /\ untold' = IF running THEN {} ELSE untold

(* onCrossSingingKeysChanged, onAccountData, onUserTrustStatusChanged *)
AccountChanged ==
    /\ OneMore("changes") /\ Recheck
    /\ account' \in Account \ {account}
    /\ UNCHANGED <<encrypted, devices, verified, updating, synced, atStart, listener, snapshots, showing,
                   screen, scenario>>

(* onDeviceVerificationChanged *)
DeviceVerificationChanged(d) ==
    /\ OneMore("changes") /\ Recheck
    /\ d \in devices
    /\ verified' = IF d \in verified THEN verified \ {d} ELSE verified \cup {d}
    /\ UNCHANGED <<account, encrypted, devices, updating, synced, atStart, listener, snapshots, showing,
                   screen, scenario>>

(* onRoomStateEvents: a room becomes encrypted. *)
RoomEncrypted ==
    /\ Recheck
    /\ ~encrypted /\ encrypted' = TRUE
    /\ UNCHANGED <<account, devices, verified, updating, synced, atStart, listener, snapshots, showing,
                   screen, listenerCount, scenario>>

(* onSync *)
OnSync ==
    /\ Recheck
    /\ ~synced /\ synced' = TRUE
    /\ UNCHANGED <<account, encrypted, devices, verified, updating, atStart, listener, snapshots, showing,
                   screen, listenerCount, scenario>>

(* onWillUpdateDevices and ensureDeviceIdsAtStartPopulated: a session of    *)
(* the user has appeared and is going to be downloaded.                    *)
OnWillUpdateDevices(d) ==
    /\ OneMore("logins")
    /\ running /\ d \notin devices \cup updating
    /\ updating' = updating \cup {d}
    /\ snapshots' = IF ourDeviceIdsAtStart = Unknown THEN snapshots + 1 ELSE snapshots
    /\ UNCHANGED <<account, encrypted, devices, verified, synced, atStart, listener, rechecks, showing,
                   screen, untold, scenario>>

(* The devices are there: getDeviceIds goes on. *)
SnapshotTaken ==
    /\ snapshots > 0 /\ snapshots' = snapshots - 1
    /\ ourDeviceIdsAtStart' = devices
    /\ UNCHANGED <<world, running, dismissed, dismissedThisDeviceToast,
                   displayingToastsForDeviceIds, rechecks, showing, screen, listenerCount, untold, scenario>>

(* getDeviceIds fails: a recheck or the next new session takes the snapshot. *)
SnapshotFailed ==
    /\ OneMore("faults") /\ ~scenario.inTurn
    /\ snapshots > 0 /\ snapshots' = snapshots - 1
    /\ UNCHANGED <<world, listener, rechecks, showing, screen, untold, scenario>>

Populating ==
    snapshots > 0 \/ \E i \in DOMAIN rechecks : rechecks[i].await = "atStart" /\ rechecks[i].populate
Showing == \E d \in Session : showing[d] > 0
NothingUnderWay == rechecks = <<>> /\ snapshots = 0 /\ ~Showing

(* onDevicesUpdated *)
OnDevicesUpdated(d) ==
    /\ Recheck
    /\ d \in updating /\ updating' = updating \ {d}
    /\ scenario.inTurn => ~Populating
    /\ devices' = devices \cup {d}
    /\ UNCHANGED <<account, encrypted, verified, synced, atStart, listener, snapshots, showing, screen,
                   listenerCount, scenario>>

(* dismissUnverifiedSessions, from the toast of one session. *)
DismissSession(d) ==
    /\ OneMore("clicks")
    /\ running /\ d \in toasts
    /\ dismissed' = dismissed \cup {d}
    /\ Recheck
    /\ UNCHANGED <<world, running, dismissedThisDeviceToast, ourDeviceIdsAtStart,
                   displayingToastsForDeviceIds, snapshots, showing, screen, scenario>>

(* The same from the toast of the old ones, to review them or to put them off. *)
DismissBulk ==
    /\ OneMore("clicks")
    /\ running /\ bulkToast # {}
    /\ dismissed' = dismissed \cup bulkToast
    /\ snoozed' \in {snoozed, TRUE}
    /\ Recheck
    /\ UNCHANGED <<world, running, dismissedThisDeviceToast, ourDeviceIdsAtStart,
                   displayingToastsForDeviceIds, snapshots, showing, setupToast, bulkToast, toasts,
                   accessing, scenario>>

(* dismissEncryptionSetup *)
DismissEncryptionSetup ==
    /\ OneMore("clicks")
    /\ running /\ setupToast # "none"
    /\ dismissedThisDeviceToast' = TRUE
    /\ Recheck
    /\ UNCHANGED <<world, running, dismissed, ourDeviceIdsAtStart, displayingToastsForDeviceIds,
                   snapshots, showing, screen, scenario>>

----------------------------------------------------------------------------
(* A RECHECK, one step per await                                           *)

(* The i-th recheck goes on to wait at r.await, or ends. *)
Goes(i, r) ==
    /\ scenario.inTurn => \A j \in 1 .. i - 1 : Rank(rechecks[j].await) >= Rank(r.await)
    /\ scenario.prompt => ~Showing
    /\ rechecks' = IF r.await = "end" THEN RemoveAt(rechecks, i) ELSE [rechecks EXCEPT ![i] = r]

WaitsAt(i, await) == rechecks[i].await = await

At(r, await) == [r EXCEPT !.await = await, !.client = running]

(* Mutant: the devices at the start are the devices now. *)
EnsureAgain(r) == [At(r, "atStart") EXCEPT !.populate = TRUE]
(* ensureDeviceIdsAtStartPopulated, up to its await. *)
EnsureDeviceIdsAtStartPopulated(r) ==
    [At(r, "atStart") EXCEPT !.populate = ourDeviceIdsAtStart = Unknown]

(* isVersionSupported and isCrossSigningReady *)
CrossSigningAnswered(i) ==
    /\ WaitsAt(i, "crossSigning")
    /\ Goes(i, [At(rechecks[i], IF synced THEN "storage" ELSE "end") EXCEPT !.cross = account.cross])
    /\ UNCHANGED <<world, listener, snapshots, showing, screen, listenerCount, untold, scenario>>

(* isSecretStorageReady *)
SecretStorageAnswered(i) ==
    /\ WaitsAt(i, "storage")
    /\ Goes(i, [At(rechecks[i], "report") EXCEPT !.storage = account.storage])
    /\ UNCHANGED <<world, listener, snapshots, showing, screen, listenerCount, untold, scenario>>

ShouldShowSetupEncryptionToast == ~accessing /\ running /\ encrypted

(* reportCryptoSessionStateToAnalytics has returned. *)
Reported(i) ==
    LET r == rechecks[i]
        hide == dismissedThisDeviceToast \/ (r.cross /\ r.storage)
    IN /\ WaitsAt(i, "report")
       /\ setupToast' = IF hide THEN "none" ELSE setupToast
       /\ untold' = IF i = Len(rechecks) /\ ~hide /\ accessing THEN untold \cup {"setup"} ELSE untold
       /\ Goes(i, IF ~hide /\ ShouldShowSetupEncryptionToast THEN At(r, "keys")
                  ELSE EnsureDeviceIdsAtStartPopulated(r))
       /\ UNCHANGED <<world, listener, snapshots, showing, bulkToast, toasts, snoozed, accessing, listenerCount,
                      scenario>>

(* getUserDeviceInfo, getCrossSigningKeyId and userHasCrossSigningKeys *)
KeysAnswered(i) ==
    LET verify == account.lacks = "verify"
    IN /\ WaitsAt(i, "keys")
       /\ setupToast' = IF verify THEN "verify" ELSE setupToast
       /\ Goes(i, IF verify THEN EnsureDeviceIdsAtStartPopulated(rechecks[i])
                  ELSE At(rechecks[i], "backup"))
       /\ UNCHANGED <<world, listener, snapshots, showing, bulkToast, toasts, snoozed, accessing, listenerCount,
                      untold, scenario>>

(* getKeyBackupInfo, and waitForClientWellKnown where there is none. *)
BackupAnswered(i) ==
    LET backup == rechecks[i].client /\ account.lacks = "upgrade"
        atOnce == ~backup /\ scenario.required
    IN /\ WaitsAt(i, "backup")
       /\ setupToast' = IF backup THEN "upgrade" ELSE IF atOnce THEN "none" ELSE "new"
       /\ accessing' = (accessing \/ atOnce)
       /\ untold' = IF i = Len(rechecks) /\ atOnce THEN untold \cup {"setup"} ELSE untold
       /\ Goes(i, EnsureDeviceIdsAtStartPopulated(rechecks[i]))
       /\ UNCHANGED <<world, listener, snapshots, showing, bulkToast, toasts, snoozed, listenerCount, scenario>>

(* accessSecretStorage, from the button of the setup toast or the settings. *)
AccessSecretStorage ==
    /\ OneMore("clicks")
    /\ running /\ accessing' = TRUE
    /\ UNCHANGED <<world, listener, rechecks, snapshots, showing, setupToast, bulkToast, toasts, snoozed,
                   untold, scenario>>

(* The dialogs of an access have been completed or cancelled; one flag      *)
(* stands for all that are under way, and the first to end clears it.      *)
SecretStorageAccessed ==
    /\ accessing /\ accessing' = FALSE
    /\ UNCHANGED <<world, listener, rechecks, snapshots, showing, setupToast, bulkToast, toasts, snoozed,
                   listenerCount, untold, scenario>>

----------------------------------------------------------------------------
(* The end of doRecheck, once it knows the trust in all sessions. *)
Ends(i, r) ==
    /\ bulkToast' = IF r.trusted /\ ~snoozed THEN r.oldSessions ELSE {}
    /\ showing' = [d \in Session |-> IF d \in r.newSessions THEN showing[d] + 1 ELSE showing[d]]
    /\ toasts' = toasts \ (displayingToastsForDeviceIds \ r.newSessions)
    /\ displayingToastsForDeviceIds' = r.newSessions
    /\ Goes(i, At(r, "end"))
    /\ UNCHANGED <<setupToast, snoozed, accessing>>

Waits(i, r) ==
    /\ Goes(i, r)
    /\ UNCHANGED <<displayingToastsForDeviceIds, showing, screen>>

(* ensureDeviceIdsAtStartPopulated has returned. *)
DeviceIdsAtStart(i) ==
    LET r == rechecks[i]
    IN /\ WaitsAt(i, "atStart")
       /\ ourDeviceIdsAtStart' = IF ~r.populate THEN ourDeviceIdsAtStart
                                 ELSE IF r.client THEN devices ELSE {}
       /\ IF r.cross THEN Waits(i, At(r, "trust")) ELSE Ends(i, r)
       /\ UNCHANGED <<world, running, dismissed, dismissedThisDeviceToast, snapshots, listenerCount, untold, scenario>>

(* getDeviceVerificationStatus of this device: verified where cross-signing is ready. *)
OwnTrustAnswered(i) ==
    /\ WaitsAt(i, "trust")
    /\ Waits(i, [At(rechecks[i], "devices") EXCEPT !.trusted = account.cross])
    /\ UNCHANGED <<world, running, dismissed, dismissedThisDeviceToast, ourDeviceIdsAtStart,
                   snapshots, listenerCount, untold, scenario>>

DeviceIdsAnswered(i) ==
    LET r == rechecks[i]
        ids == IF r.client THEN devices ELSE {}
    IN /\ WaitsAt(i, "devices")
       /\ IF ids = {} THEN Ends(i, r) ELSE Waits(i, [At(r, "sessions") EXCEPT !.left = ids])
       /\ UNCHANGED <<world, running, dismissed, dismissedThisDeviceToast, ourDeviceIdsAtStart,
                      snapshots, listenerCount, untold, scenario>>

Lists(d) == d \notin verified /\ d \notin dismissed

(* getDeviceVerificationStatus of another session, in any order. *)
TrustAnswered(i, d) ==
    LET r == rechecks[i]
        isOld == ourDeviceIdsAtStart # Unknown /\ d \in ourDeviceIdsAtStart
        seen == [r EXCEPT !.left = @ \ {d},
                          !.oldSessions = IF Lists(d) /\ isOld THEN @ \cup {d} ELSE @,
                          !.newSessions = IF Lists(d) /\ ~isOld THEN @ \cup {d} ELSE @]
    IN /\ WaitsAt(i, "sessions") /\ d \in r.left
       /\ IF seen.left = {} THEN Ends(i, seen) ELSE Waits(i, seen)
       /\ UNCHANGED <<world, running, dismissed, dismissedThisDeviceToast, ourDeviceIdsAtStart,
                      snapshots, listenerCount, untold, scenario>>

(* showToast of UnverifiedSessionToast, after its awaits. *)
SessionToastShown(d) ==
    /\ showing[d] > 0 /\ showing' = [showing EXCEPT ![d] = @ - 1]
    /\ toasts' = toasts \cup {d}
    /\ UNCHANGED <<world, listener, rechecks, snapshots, setupToast, bulkToast, snoozed, accessing, listenerCount,
                   untold, scenario>>

(* The details of the session cannot be fetched. *)
SessionToastFailed(d) ==
    /\ OneMore("faults")
    /\ showing[d] > 0 /\ showing' = [showing EXCEPT ![d] = @ - 1]
    /\ untold' = IF rechecks = <<>> THEN untold \cup {"sessions"} ELSE untold
    /\ UNCHANGED <<world, listener, rechecks, snapshots, screen, scenario>>

(* recheck catches the error of any await, ClientStoppedError of a stopped *)
(* client or another one; nothing is shown or hidden, and nobody asks again. *)
RecheckFailed(i) ==
    /\ (rechecks[i].gone /\ UNCHANGED listenerCount) \/ OneMore("faults")
    /\ rechecks' = RemoveAt(rechecks, i)
    /\ untold' = IF i = Len(rechecks) THEN {"setup", "sessions"} ELSE untold
    /\ UNCHANGED <<world, listener, snapshots, showing, screen, scenario>>

----------------------------------------------------------------------------
(* STOP AND START *)

(* stop, at a soft logout: the session and its data are kept. *)
Stop ==
    /\ OneMore("restarts")
    /\ running /\ running' = FALSE
    /\ scenario.inTurn => NothingUnderWay /\ updating = {}
    /\ dismissed' = {} /\ dismissedThisDeviceToast' = FALSE
    /\ ourDeviceIdsAtStart' = Unknown /\ displayingToastsForDeviceIds' = {}
    /\ rechecks' = [i \in DOMAIN rechecks |-> [rechecks[i] EXCEPT !.gone = TRUE]]
    /\ UNCHANGED <<world, snapshots, showing, screen, untold, scenario>>

(* startMatrixClient of a new client, with start and ToastStore.reset *)
Start ==
    /\ ~running /\ running' = TRUE /\ synced' = FALSE
    /\ Len(rechecks) < MaxRechecks /\ (scenario.prompt => ~Showing)
    /\ setupToast' = "none" /\ bulkToast' = {} /\ toasts' = {}
    /\ rechecks' = Append(rechecks, NewRecheck) /\ untold' = {}
    /\ atStart' = devices
    /\ UNCHANGED <<account, encrypted, devices, verified, updating, dismissed,
                   dismissedThisDeviceToast, ourDeviceIdsAtStart, displayingToastsForDeviceIds,
                   snapshots, showing, snoozed, accessing, listenerCount, scenario>>

ListenerNext ==
    \/ AccountChanged \/ RoomEncrypted \/ OnSync
    \/ SnapshotTaken \/ SnapshotFailed \/ DismissBulk \/ DismissEncryptionSetup
    \/ AccessSecretStorage \/ SecretStorageAccessed
    \/ \E d \in Session :
          \/ DeviceVerificationChanged(d) \/ OnWillUpdateDevices(d) \/ OnDevicesUpdated(d)
          \/ DismissSession(d) \/ SessionToastShown(d) \/ SessionToastFailed(d)
    \/ \E i \in DOMAIN rechecks :
          \/ CrossSigningAnswered(i) \/ SecretStorageAnswered(i) \/ Reported(i) \/ KeysAnswered(i)
          \/ BackupAnswered(i) \/ DeviceIdsAtStart(i) \/ OwnTrustAnswered(i) \/ DeviceIdsAnswered(i)
          \/ \E d \in Session : TrustAnswered(i, d)
          \/ RecheckFailed(i)
    \/ Stop \/ Start

ListenerSpec == ListenerInit /\ [][ListenerNext]_listenerVars

----------------------------------------------------------------------------
Rechecks ==
    [await : Range(Awaits), client : BOOLEAN, gone : BOOLEAN, cross : BOOLEAN, storage : BOOLEAN,
     trusted : BOOLEAN, populate : BOOLEAN, left : SUBSET devices,
     oldSessions : SUBSET devices, newSessions : SUBSET devices]

ListenerTypeOK ==
    /\ account \in Account /\ {encrypted, synced, running, dismissedThisDeviceToast} \subseteq BOOLEAN
    /\ verified \subseteq devices /\ devices \subseteq Session /\ updating \subseteq Session \ devices
    /\ atStart \subseteq devices /\ dismissed \subseteq Session
    /\ ourDeviceIdsAtStart \in {Unknown} \cup SUBSET devices
    /\ displayingToastsForDeviceIds \subseteq devices
    /\ rechecks \in Seq(Rechecks) /\ Len(rechecks) <= MaxRechecks
    /\ snapshots \in Nat /\ showing \in [Session -> Nat] /\ \A d \in Session \ devices : showing[d] = 0
    /\ setupToast \in {"none", "verify", "upgrade", "new"}
    /\ bulkToast \subseteq devices /\ toasts \subseteq devices
    /\ {snoozed, accessing} \subseteq BOOLEAN /\ untold \subseteq {"setup", "sessions"}

(* The setup toast that the account calls for. *)
DueSetup ==
    IF dismissedThisDeviceToast \/ (account.cross /\ account.storage) \/ ~encrypted
    THEN "none" ELSE account.lacks

(* Where rechecks keep their order, the toasts are those of the account as *)
(* it is once the last recheck has ended, whatever changed, was dismissed   *)
(* or failed during it: sessions known at the start share one toast, and    *)
(* each newer one has its own ("batch ones that were already there",        *)
(* "display new ones in their own toasts"), also after a logout.  Excepted  *)
(* is what the latest recheck has not seen to, until the next one: all, if  *)
(* it has failed; the setup toast, if secret storage was being accessed or  *)
(* it has opened the dialog instead of the toast; those of sessions, if the *)
(* details of one could not be fetched.                                     *)
RemindersCurrent ==
    scenario.inTurn /\ scenario.prompt /\ running /\ synced /\ NothingUnderWay =>
        LET unverified == IF account.cross THEN (devices \ verified) \ dismissed ELSE {}
        IN /\ "setup" \notin untold => setupToast = DueSetup
           /\ "sessions" \notin untold => /\ bulkToast = IF snoozed THEN {} ELSE unverified \cap atStart
                                         /\ toasts = unverified \ atStart

(* However rechecks overlap, a toast of a session that is shown is among   *)
(* those that the next recheck hides ("hide any we don't need any more").  *)
SessionToastsTracked ==
    scenario.prompt /\ running => toasts \subseteq displayingToastsForDeviceIds

(* No reminder is forgotten, and none is left behind, but for what the     *)
(* latest recheck has not seen to.                                         *)
ToastsAreTrue == RemindersCurrent /\ SessionToastsTracked
=============================================================================
