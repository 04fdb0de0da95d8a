----------------------------- MODULE EchoChamber -----------------------------
(***************************************************************************)
(* The local echo of a room's notification volume: the chamber, context    *)
(* and transactions of src/stores/local-echo, the push rule requests of    *)
(* src/RoomNotifs.ts, the resend button of the ServerOfflineDialog, the    *)
(* server and its push rules, and the /sync that brings them back.         *)
(*                                                                         *)
(* The volume of a room follows from two rules: an override rule that      *)
(* mutes, and a room rule.  A transaction is a call of setValue; what its  *)
(* listeners do when it is notified is part of the step that notifies it.  *)
(***************************************************************************)
EXTENDS Integers, FiniteSets, Sequences

CONSTANT Scenarios    \* bounds and assumptions, one of which a behaviour is under

Scenario ==
    [sets : Nat,           \* bound: calls of setValue
     resends : Nat,        \* bound: clicks on resend
     faults : Nat,         \* bound: failing requests
     foreign : Nat,        \* bound: changes made on another device
     serial : BOOLEAN,     \* does the user, on all devices, wait for one
                           \* change before the next?
     wholeEchoes : BOOLEAN,\* does /sync bring all rules of a change at once?
     fair : BOOLEAN]       \* do requests settle, and syncs go on?

ASSUME EchoAssumption == Scenarios \subseteq Scenario

VARIABLES
    server,        \* the rules on the server
    rules,         \* the rules that the client knows
    properties,    \* the volume that the chamber knows
    cache,         \* the transaction whose value getValue returns, 0 if none
    txns,          \* the transactions
    requests,      \* requests under way
    contextState,  \* of the context, and with it the toast
    resends, faults, foreign,
    scenario       \* never changes

bounds == <<resends, faults, foreign, scenario>>
vars == <<server, rules, properties, cache, txns, requests, contextState, bounds>>

Volume == {"loud", "all", "mentions", "mute"}
Rules == [mute : BOOLEAN, room : {"none", "mentions", "loud"}]
Operation == {"addMute", "deleteMute", "deleteRoom", "addMentions", "addLoud"}
(* run counts the runs; open are those whose promise has not settled;      *)
(* button: the dialog had a resend button for it; won: a run has succeeded. *)
Txn == [val : Volume, status : {"Pending", "Success", "Error"}, didFail : BOOLEAN,
        owned : BOOLEAN, heard : BOOLEAN, run : Nat, open : SUBSET Nat, button : BOOLEAN,
        won : BOOLEAN]
Request == [txn : 1 .. scenario.sets, run : Nat, op : Operation]
ContextState == {"NotStarted", "PendingErrors", "AllSuccessful"}

TypeOK ==
    /\ server \in Rules /\ rules \in Rules /\ properties \in Volume
    /\ txns \in Seq(Txn) /\ Len(txns) <= scenario.sets
    /\ cache \in 0 .. Len(txns)
    /\ requests \subseteq Request
    /\ contextState \in ContextState /\ scenario \in Scenarios
    /\ resends \in 0 .. scenario.resends /\ faults \in 0 .. scenario.faults /\ foreign \in 0 .. scenario.foreign

(* getRoomNotifsState *)
VolumeOf(r) == IF r.mute THEN "mute" ELSE IF r.room = "none" THEN "all" ELSE r.room

Init ==
    /\ server \in Rules /\ rules = server /\ properties = VolumeOf(rules)
    /\ cache = 0 /\ txns = <<>> /\ requests = {}
    /\ contextState = "NotStarted"
    /\ resends = 0 /\ faults = 0 /\ foreign = 0 /\ scenario \in Scenarios

----------------------------------------------------------------------------
(* Mutant: the room rule goes only when the room is muted. *)
OperationsKeepRoomRule(r, v) ==
    (IF v # "mute" /\ r.mute THEN {"deleteMute"} ELSE {})
        \cup (IF v = "mute" /\ r.room # "none" THEN {"deleteRoom"} ELSE {})
        \cup (CASE v = "mute" -> {"addMute"} [] v = "mentions" -> {"addMentions"}
                [] v = "loud" -> {"addLoud"} [] v = "all" -> {})
(* setRoomNotifsState: the requests that lead from the rules r to v. *)
Operations(r, v) ==
    (IF v # "mute" /\ r.mute THEN {"deleteMute"} ELSE {})
        \cup (IF v \in {"mute", "all"} /\ r.room # "none" THEN {"deleteRoom"} ELSE {})
        \cup (CASE v = "mute" -> {"addMute"} [] v = "mentions" -> {"addMentions"}
                [] v = "loud" -> {"addLoud"} [] v = "all" -> {})

(* What the server does; it knows no rule that is not there to delete. *)
Possible(r, op) == (op = "deleteMute" => r.mute) /\ (op = "deleteRoom" => r.room # "none")
Applied(r, op) ==
    CASE op = "addMute" -> [r EXCEPT !.mute = TRUE]
      [] op = "deleteMute" -> [r EXCEPT !.mute = FALSE]
      [] op = "deleteRoom" -> [r EXCEPT !.room = "none"]
      [] op = "addMentions" -> [r EXCEPT !.room = "mentions"]
      [] op = "addLoud" -> [r EXCEPT !.room = "loud"]

Owned(ts) == {ts[i] : i \in {j \in DOMAIN ts : ts[j].owned}}
(* Mutant: a pending transaction hides the failed ones. *)
CheckedPendingFirst(ts) ==
    IF \E t \in Owned(ts) : t.status = "Pending" THEN "NotStarted"
    ELSE IF \E t \in Owned(ts) : t.status = "Error" \/ t.didFail THEN "PendingErrors" ELSE "AllSuccessful"
(* checkTransactions *)
Checked(ts) ==
    IF \E t \in Owned(ts) : t.status = "Error" \/ t.didFail THEN "PendingErrors"
    ELSE IF \E t \in Owned(ts) : t.status = "Pending" THEN "NotStarted" ELSE "AllSuccessful"

(* setStatus of transaction i; one that succeeds loses its listeners. *)
WithStatus(ts, i, status) ==
    LET didFail == CASE status = "Error" -> TRUE [] status = "Success" -> FALSE
                     [] status = "Pending" -> ts[i].didFail
        heard == ts[i].heard /\ status # "Success"
    IN [ts EXCEPT ![i] = [@ EXCEPT !.status = status, !.didFail = didFail, !.heard = heard]]

(* notifyCondition: the context hears of a transaction that has listeners. *)
Notified(ts, i, after) == IF ts[i].heard THEN Checked(after) ELSE contextState

(* disownTransaction, cancel and decacheKey for the transaction i. *)
Disowned(ts, i) ==
    [ts EXCEPT ![i] = [@ EXCEPT !.owned = FALSE, !.heard = FALSE, !.status = "Success",
                                !.didFail = FALSE]]

----------------------------------------------------------------------------
Quiet == requests = {} /\ rules = server /\ \A i \in DOMAIN txns : txns[i].open = {}

(* cancel, of the transaction of the key, pending or not. *)
Cancelled(ts) == IF cache = 0 THEN ts ELSE WithStatus(ts, cache, "Success")

(* setValue: the earlier transaction of the key is cancelled, a new one is *)
(* begun, cached and run.                                                  *)
SetValue(v) ==
    LET n == Len(txns) + 1
        new == [val |-> v, status |-> "Pending", didFail |-> FALSE, owned |-> TRUE,
                heard |-> TRUE, run |-> 0, open |-> {0}, button |-> FALSE, won |-> FALSE]
    IN  /\ n <= scenario.sets /\ (scenario.serial => Quiet)
        /\ txns' = Append(Cancelled(txns), new)
        /\ cache' = n
        /\ contextState' = Checked(txns')
        /\ requests' = requests \cup {[txn |-> n, run |-> 0, op |-> o] : o \in Operations(rules, v)}
        /\ UNCHANGED <<server, rules, properties, bounds>>

RunAgain(t) == [t EXCEPT !.run = t.run + 1, !.open = t.open \cup {t.run + 1}]

(* The resend button: run, which refuses a transaction that has succeeded. *)
(* The dialog shows the button of a failed transaction, and is not rendered *)
(* again when the transaction is run or disowned, as long as there is a    *)
(* toast (of this room or another): it can be clicked all the while.       *)
Resend(i) ==
    /\ i \in DOMAIN txns /\ txns[i].button /\ txns[i].status # "Success"
    /\ resends < scenario.resends /\ resends' = resends + 1
    /\ (scenario.serial => Quiet)
    /\ txns' = [WithStatus(txns, i, "Pending") EXCEPT ![i] = RunAgain(@)]
    /\ requests' = requests \cup {[txn |-> i, run |-> txns[i].run + 1, op |-> o] :
                                     o \in Operations(rules, txns[i].val)}
    /\ cache' = IF txns[i].heard THEN i ELSE cache
    /\ contextState' = Notified(txns, i, txns')
    /\ UNCHANGED <<server, rules, properties, faults, foreign, scenario>>

(* A transaction that fails has a resend button, if the context lists it.  *)
AfterRun(t, r, status) ==
    [t EXCEPT !.open = t.open \ {r}, !.won = t.won \/ status = "Success",
              !.button = t.button \/ (status = "Error" /\ t.owned)]

(* The promise of the run r settles. *)
Settle(i, r, status) ==
    /\ txns' = [WithStatus(txns, i, status) EXCEPT ![i] = AfterRun(@, r, status)]
    /\ contextState' = Notified(txns, i, txns')

OfRun(i, r) == {q \in requests : q.txn = i /\ q.run = r}

(* A request is done; Promise.all waits for the others. *)
RequestDone(q) ==
    /\ q \in requests /\ Possible(server, q.op)
    /\ server' = Applied(server, q.op)
    /\ requests' = requests \ {q}
    /\ UNCHANGED <<rules, properties, cache, txns, contextState, bounds>>

(* A request fails, and its run with it; the other requests go on. *)
RequestFailed(q) ==
    /\ q \in requests /\ requests' = requests \ {q}
    /\ \/ ~Possible(server, q.op) /\ UNCHANGED faults
       \/ faults < scenario.faults /\ faults' = faults + 1
    /\ \/ q.run \in txns[q.txn].open /\ Settle(q.txn, q.run, "Error")
       \/ q.run \notin txns[q.txn].open /\ UNCHANGED <<txns, contextState>>
    /\ UNCHANGED <<server, rules, properties, cache, resends, foreign, scenario>>

(* All requests of a run are done. *)
RunDone(i) ==
    /\ i \in DOMAIN txns
    /\ \E r \in txns[i].open : OfRun(i, r) = {} /\ Settle(i, r, "Success")
    /\ UNCHANGED <<server, rules, properties, cache, requests, bounds>>

(* Mutant: push rules are listened to only while a change is cached. *)
OnAccountDataOwn ==
    /\ rules # server /\ (scenario.wholeEchoes => requests = {}) /\ cache # 0
    /\ rules' = server /\ properties' = VolumeOf(server)
    /\ IF properties = properties'
       THEN UNCHANGED <<cache, txns, contextState>>
       ELSE /\ cache' = 0 /\ txns' = Disowned(txns, cache)
            /\ contextState' = Checked(txns')
    /\ UNCHANGED <<server, requests, bounds>>

(* /sync brings the push rules: onAccountData; a changed volume is the     *)
(* echo of whatever the key's transaction is.                              *)
OnAccountData ==
    /\ rules # server /\ (scenario.wholeEchoes => requests = {})
    /\ rules' = server /\ properties' = VolumeOf(server)
    /\ \/ /\ properties = properties'
          /\ UNCHANGED <<cache, txns, contextState>>
       \/ /\ properties # properties' /\ cache = 0
          /\ UNCHANGED <<cache, txns, contextState>>
       \/ /\ properties # properties' /\ cache # 0
          /\ cache' = 0 /\ txns' = Disowned(txns, cache)
          /\ contextState' = Checked(txns')
    /\ UNCHANGED <<server, requests, bounds>>

(* Another device of the user changes the volume. *)
ForeignChange(v) ==
    /\ foreign < scenario.foreign /\ foreign' = foreign + 1
    /\ (scenario.serial => Quiet)
    /\ server' = [mute |-> v = "mute", room |-> IF v \in {"mute", "all"} THEN "none" ELSE v]
    /\ UNCHANGED <<rules, properties, cache, txns, requests, contextState, resends, faults,
                   scenario>>

Next ==
    \/ \E v \in Volume : SetValue(v) \/ ForeignChange(v)
    \/ \E i \in DOMAIN txns : Resend(i) \/ RunDone(i)
    \/ \E q \in requests : RequestDone(q) \/ RequestFailed(q)
    \/ OnAccountData

Spec == Init /\ [][Next]_vars
----------------------------------------------------------------------------
(* SAFETY *)

(* getValue *)
Shown == IF cache = 0 THEN properties ELSE txns[cache].val

(* "You're all caught up", says the dialog when it lists no failed         *)
(* transaction: once nothing is under way the server has the user's last   *)
(* choice, if no other device chose after it.                              *)
CaughtUp ==
    Quiet /\ foreign = 0 /\ txns # <<>> /\ (\A t \in Owned(txns) : t.status # "Error" /\ ~t.didFail) =>
        VolumeOf(server) = txns[Len(txns)].val

(* The room shows no volume that the server does not have, once nothing is *)
(* under way, unless the toast says so: for changes one after the other,   *)
(* that fail in part and are resent.                                       *)
ShownIsTrue ==
    scenario.serial /\ Quiet /\ contextState # "PendingErrors" => Shown = VolumeOf(server)

(* A room that shows a choice that failed has its toast, also when changes, *)
(* resends and the runs of one change overlap and late answers of          *)
(* cancelled ones come in between; unless a run of that change had         *)
(* succeeded before another one failed, which nobody is told.              *)
FailureReported ==
    cache # 0 /\ txns[cache].status = "Error" /\ ~txns[cache].won =>
        contextState = "PendingErrors"

----------------------------------------------------------------------------
(* LIVENESS: requests settle and /sync goes on. *)
Fairness ==
    /\ WF_vars(scenario.fair /\ OnAccountData)
    /\ WF_vars(scenario.fair /\ \E i \in DOMAIN txns : RunDone(i))
    /\ WF_vars(scenario.fair /\ \E q \in requests : RequestDone(q) \/ RequestFailed(q))

FairSpec == Spec /\ Fairness

(* The room ends up showing what the server has, or a toast. *)
Converges ==
    <>[](scenario.fair => contextState = "PendingErrors" \/ Shown = VolumeOf(server))
=============================================================================
