-------------------------- MODULE ClientPartsProofs --------------------------
(***************************************************************************)
(* Proofs about two parts of the client that share no state.               *)
(*                                                                         *)
(* EchoChamber: for all bounds on what the user, the requests and other    *)
(* devices do.                                                             *)
(* PlaybackQueue: for every set of voice messages, every timeline, and any *)
(* number of clicks, mounts and changes of the room.                       *)
(***************************************************************************)
EXTENDS EchoChamber, PlaybackQueue, FiniteSetTheorems, SequenceTheorems, TLAPS

----------------------------------------------------------------------------
(* THE LOCAL ECHO *)


(* Every request belongs to a transaction. *)
RequestsKnown == \A q \in requests : q.txn \in DOMAIN txns

(* The context owns the transaction whose value is shown, hears of it until *)
(* a run of it has succeeded, and has told of what it heard.               *)
CacheHeard ==
    cache # 0 =>
        /\ txns[cache].owned /\ (txns[cache].heard \/ txns[cache].won)
        /\ txns[cache].heard /\ txns[cache].status = "Error" => contextState = "PendingErrors"

HeardOwned == \A i \in DOMAIN txns : txns[i].heard => txns[i].owned

EchoInv == TypeOK /\ RequestsKnown /\ HeardOwned /\ CacheHeard

Status == {"Pending", "Success", "Error"}

----------------------------------------------------------------------------
(* The bounds of a behaviour are numbers. *)
LEMMA BoundsType ==
    ASSUME TypeOK
    PROVE  /\ scenario.sets \in Nat /\ scenario.resends \in Nat
           /\ scenario.faults \in Nat /\ scenario.foreign \in Nat
BY EchoAssumption DEF TypeOK, Scenario

(* What setStatus does to a transaction, and that it leaves the others. *)
LEMMA WithStatusType ==
    ASSUME NEW ts \in Seq(Txn), NEW i \in DOMAIN ts, NEW status \in Status
    PROVE  /\ WithStatus(ts, i, status) \in Seq(Txn)
           /\ Len(WithStatus(ts, i, status)) = Len(ts)
           /\ DOMAIN WithStatus(ts, i, status) = DOMAIN ts
           /\ \A j \in DOMAIN ts \ {i} : WithStatus(ts, i, status)[j] = ts[j]
           /\ WithStatus(ts, i, status)[i].status = status
           /\ WithStatus(ts, i, status)[i].owned = ts[i].owned
           /\ WithStatus(ts, i, status)[i].heard <=> ts[i].heard /\ status # "Success"
           /\ WithStatus(ts, i, status)[i].val = ts[i].val
           /\ WithStatus(ts, i, status)[i].run = ts[i].run
           /\ WithStatus(ts, i, status)[i].open = ts[i].open
           /\ WithStatus(ts, i, status)[i].won <=> ts[i].won
<1> DEFINE fails == CASE status = "Error" -> TRUE [] status = "Success" -> FALSE
                      [] status = "Pending" -> ts[i].didFail
           hears == ts[i].heard /\ status # "Success"
           t == [ts[i] EXCEPT !.status = status, !.didFail = fails, !.heard = hears]
<1>1. ts[i] \in Txn
  OBVIOUS
<1>2. fails \in BOOLEAN
  BY <1>1, Zenon DEF Status, Txn
<1>3. hears \in BOOLEAN
  OBVIOUS
<1>4. /\ t \in Txn /\ t.status = status /\ t.owned = ts[i].owned
      /\ t.heard = (ts[i].heard /\ status # "Success")
      /\ t.val = ts[i].val /\ t.run = ts[i].run /\ t.open = ts[i].open /\ t.won = ts[i].won
  <2> HIDE DEF fails, hears
  <2>1. /\ t \in Txn /\ t.status = status /\ t.owned = ts[i].owned /\ t.heard = hears
        /\ t.val = ts[i].val /\ t.run = ts[i].run /\ t.open = ts[i].open /\ t.won = ts[i].won
    BY <1>1, <1>2, <1>3 DEF Txn, Status
  <2> QED BY <2>1 DEF hears
<1>5. WithStatus(ts, i, status) = [ts EXCEPT ![i] = t]
  BY Zenon DEF WithStatus
<1>6. /\ [ts EXCEPT ![i] = t] \in Seq(Txn) /\ Len([ts EXCEPT ![i] = t]) = Len(ts)
      /\ DOMAIN [ts EXCEPT ![i] = t] = DOMAIN ts
      /\ \A j \in DOMAIN ts \ {i} : [ts EXCEPT ![i] = t][j] = ts[j]
      /\ [ts EXCEPT ![i] = t][i] = t
  <2> HIDE DEF t
  <2> QED BY <1>4
<1> HIDE DEF t
<1> QED BY <1>4, <1>5, <1>6

(* What the promise of a run does to the transactions when it settles. *)
LEMMA SettledType ==
    ASSUME txns \in Seq(Txn), NEW i \in DOMAIN txns, NEW r, NEW status \in {"Success", "Error"},
           Settle(i, r, status)
    PROVE  /\ txns' \in Seq(Txn) /\ Len(txns') = Len(txns) /\ DOMAIN txns' = DOMAIN txns
           /\ \A j \in DOMAIN txns \ {i} : txns'[j] = txns[j]
           /\ txns'[i].status = status /\ txns'[i].owned = txns[i].owned
           /\ txns'[i].open = txns[i].open \ {r} /\ txns'[i].val = txns[i].val
           /\ txns'[i].run = txns[i].run
           /\ txns'[i].heard <=> txns[i].heard /\ status # "Success"
           /\ txns'[i].won <=> txns[i].won \/ status = "Success"
<1> DEFINE ts == WithStatus(txns, i, status)
           t == AfterRun(ts[i], r, status)
<1>1. status \in Status /\ txns[i] \in Txn
  BY DEF Status
<1>2. /\ ts \in Seq(Txn) /\ Len(ts) = Len(txns) /\ DOMAIN ts = DOMAIN txns
      /\ \A j \in DOMAIN txns \ {i} : ts[j] = txns[j]
      /\ ts[i].status = status /\ ts[i].owned = txns[i].owned /\ ts[i].val = txns[i].val
      /\ ts[i].run = txns[i].run /\ ts[i].open = txns[i].open
      /\ ts[i].heard <=> txns[i].heard /\ status # "Success"
      /\ ts[i].won <=> txns[i].won
  <2> HIDE DEF t
  <2> QED BY <1>1, WithStatusType
<1>3. ts[i] \in Txn
  BY <1>2
<1>4. txns' = [ts EXCEPT ![i] = t]
  BY DEF Settle
<1> HIDE DEF ts
<1>5. /\ t \in Txn /\ t.status = ts[i].status /\ t.owned = ts[i].owned /\ t.heard = ts[i].heard
      /\ t.val = ts[i].val /\ t.run = ts[i].run /\ t.open = ts[i].open \ {r}
      /\ t.won = (ts[i].won \/ status = "Success")
  BY <1>3 DEF Txn, AfterRun
<1>6. /\ txns' \in Seq(Txn) /\ Len(txns') = Len(txns) /\ DOMAIN txns' = DOMAIN txns
      /\ txns'[i] = t /\ \A j \in DOMAIN txns \ {i} : txns'[j] = txns[j]
  <2> HIDE DEF t
  <2> QED BY <1>2, <1>4, <1>5
<1> HIDE DEF t
<1>7. txns'[i].heard <=> txns[i].heard /\ status # "Success"
  BY <1>2, <1>5, <1>6, Zenon
<1>8. txns'[i].won <=> txns[i].won \/ status = "Success"
  BY <1>2, <1>5, <1>6, Zenon
<1> QED BY <1>2, <1>5, <1>6, <1>7, <1>8

(* What resend does to its transaction. *)
LEMMA ResendType ==
    ASSUME txns \in Seq(Txn), NEW i \in DOMAIN txns, Resend(i)
    PROVE  /\ txns' \in Seq(Txn) /\ Len(txns') = Len(txns) /\ DOMAIN txns' = DOMAIN txns
           /\ \A j \in DOMAIN txns \ {i} : txns'[j] = txns[j]
           /\ txns'[i].status = "Pending" /\ txns'[i].owned = txns[i].owned
           /\ txns'[i].run = txns[i].run + 1 /\ txns'[i].run \in Nat
           /\ txns'[i].open = txns[i].open \cup {txns'[i].run} /\ txns'[i].val = txns[i].val
           /\ txns'[i].heard <=> txns[i].heard
           /\ txns'[i].won <=> txns[i].won
           /\ requests' = requests \cup {[txn |-> i, run |-> txns'[i].run, op |-> o] :
                                            o \in Operations(rules, txns[i].val)}
<1> DEFINE ts == WithStatus(txns, i, "Pending")
           r == txns[i].run + 1
           t == RunAgain(ts[i])
<1>1. "Pending" \in Status /\ txns[i] \in Txn
  BY DEF Status
<1>2. /\ ts \in Seq(Txn) /\ Len(ts) = Len(txns) /\ DOMAIN ts = DOMAIN txns
      /\ \A j \in DOMAIN txns \ {i} : ts[j] = txns[j]
      /\ ts[i].status = "Pending" /\ ts[i].owned = txns[i].owned /\ ts[i].val = txns[i].val
      /\ ts[i].open = txns[i].open /\ ts[i].run = txns[i].run
      /\ ts[i].heard <=> txns[i].heard
      /\ ts[i].won <=> txns[i].won
  <2> HIDE DEF r, t
  <2> QED BY <1>1, WithStatusType
<1>3. ts[i] \in Txn /\ r \in Nat
  <2>1. r \in Nat
    BY <1>1 DEF Txn
  <2> QED BY <1>2, <2>1
<1>4. /\ txns' = [ts EXCEPT ![i] = t]
      /\ requests' = requests \cup {[txn |-> i, run |-> r, op |-> o] :
                                       o \in Operations(rules, txns[i].val)}
  BY DEF Resend
<1> HIDE DEF ts
<1>5. /\ t \in Txn /\ t.status = ts[i].status /\ t.owned = ts[i].owned /\ t.heard = ts[i].heard
      /\ t.val = ts[i].val /\ t.run = r /\ t.open = ts[i].open \cup {r} /\ t.won = ts[i].won
  <2>1. t = [ts[i] EXCEPT !.run = r, !.open = ts[i].open \cup {r}]
    BY <1>2 DEF RunAgain
  <2> HIDE DEF r, t
  <2> QED BY <1>3, <2>1 DEF Txn
<1>6. /\ txns' \in Seq(Txn) /\ Len(txns') = Len(txns) /\ DOMAIN txns' = DOMAIN txns
      /\ txns'[i] = t /\ \A j \in DOMAIN txns \ {i} : txns'[j] = txns[j]
  <2> HIDE DEF t
  <2> QED BY <1>2, <1>4, <1>5
<1> HIDE DEF t
<1>7. txns'[i].run = r
  BY <1>5, <1>6
<1>8. /\ txns'[i].heard <=> txns[i].heard
      /\ txns'[i].won <=> txns[i].won
  BY <1>2, <1>5, <1>6, Zenon
<1>9. txns'[i].open = txns[i].open \cup {txns'[i].run}
  BY <1>2, <1>5, <1>6, <1>7
<1>10. requests' = requests \cup {[txn |-> i, run |-> txns'[i].run, op |-> o] :
                                     o \in Operations(rules, txns[i].val)}
  BY <1>4, <1>7
<1>11. txns'[i].run = txns[i].run + 1 /\ txns'[i].run \in Nat
  BY <1>3, <1>7
<1>12. txns'[i].status = "Pending" /\ txns'[i].owned = txns[i].owned /\ txns'[i].val = txns[i].val
  BY <1>2, <1>5, <1>6
<1> HIDE DEF r
<1> QED BY <1>6, <1>8, <1>9, <1>10, <1>11, <1>12

----------------------------------------------------------------------------
(* What the client knows of the rules has one of the four volumes. *)
LEMMA VolumeType == \A r \in Rules : VolumeOf(r) \in Volume
BY DEF Rules, VolumeOf, Volume

----------------------------------------------------------------------------
(* Whatever is shown and may still fail is heard of. *)
THEOREM EchoInvariant == Spec => []EchoInv
(* checkTransactions reports a failed transaction that the context owns. *)
<1>FailureCounts.
      ASSUME NEW ts \in Seq(Txn)
      PROVE  /\ Checked(ts) \in ContextState
             /\ \A i \in DOMAIN ts : ts[i].owned /\ ts[i].status = "Error" => Checked(ts) = "PendingErrors"
  <2> USE <1>FailureCounts
  <2>1. Checked(ts) \in ContextState
    BY DEF Checked, ContextState
  <2>2. ASSUME NEW i \in DOMAIN ts, ts[i].owned, ts[i].status = "Error"
        PROVE  Checked(ts) = "PendingErrors"
    <3>1. ts[i] \in Owned(ts)
      BY <2>2, Zenon DEF Owned
    <3> QED BY <2>2, <3>1 DEF Checked
  <2> QED BY <2>1, <2>2
(* Once the promise of a run has settled, a transaction that is shown is   *)
(* still heard of, or has succeeded; a failure is told.                    *)
<1>SettleKeeps.
      ASSUME EchoInv, NEW i \in DOMAIN txns, NEW r, NEW status \in {"Success", "Error"},
             Settle(i, r, status), cache' = cache, requests' \subseteq requests
      PROVE  /\ txns' \in Seq(Txn) /\ Len(txns') = Len(txns) /\ contextState' \in ContextState
             /\ RequestsKnown' /\ HeardOwned' /\ CacheHeard'
  <2> USE <1>SettleKeeps
  <2>1. txns \in Seq(Txn) /\ cache \in 0 .. Len(txns) /\ contextState \in ContextState
    BY DEF EchoInv, TypeOK
  <2>2. /\ txns' \in Seq(Txn) /\ Len(txns') = Len(txns) /\ DOMAIN txns' = DOMAIN txns
        /\ \A j \in DOMAIN txns \ {i} : txns'[j] = txns[j]
        /\ txns'[i].status = status /\ txns'[i].owned = txns[i].owned
        /\ txns'[i].heard <=> txns[i].heard /\ status # "Success"
        /\ txns'[i].won <=> txns[i].won \/ status = "Success"
    BY <2>1, SettledType
  <2>3. contextState' = IF txns[i].heard THEN Checked(txns') ELSE contextState
    BY DEF Settle, Notified
  <2>4. contextState' \in ContextState
    BY <2>1, <2>2, <2>3, <1>FailureCounts
  <2>5. RequestsKnown'
    BY <2>2 DEF EchoInv, RequestsKnown
  <2>6. cache # 0 => cache \in DOMAIN txns
    BY <2>1
  <2>8. HeardOwned'
    <3> SUFFICES ASSUME NEW j \in DOMAIN txns, txns'[j].heard PROVE txns'[j].owned
      BY <2>2 DEF HeardOwned
    <3>1. CASE j = i
      BY <2>2, <3>1, Zenon DEF EchoInv, HeardOwned
    <3>2. CASE j # i
      BY <2>2, <3>2, Zenon DEF EchoInv, HeardOwned
    <3> QED BY <3>1, <3>2
  <2>7. CacheHeard'
    <3> SUFFICES ASSUME cache # 0
                 PROVE  /\ txns'[cache].owned /\ (txns'[cache].heard \/ txns'[cache].won)
                        /\ txns'[cache].heard /\ txns'[cache].status = "Error" =>
                              contextState' = "PendingErrors"
      BY DEF CacheHeard
    <3>1. txns'[cache].owned /\ (txns'[cache].heard \/ txns'[cache].won)
      <4>1. CASE cache = i
        BY <2>2, <4>1, Zenon DEF EchoInv, CacheHeard
      <4>2. CASE cache # i
        BY <2>2, <2>6, <4>2, Zenon DEF EchoInv, CacheHeard
      <4> QED BY <4>1, <4>2
    <3>2. ASSUME txns'[cache].heard, txns'[cache].status = "Error"
          PROVE  contextState' = "PendingErrors"
      <4>1. Checked(txns') = "PendingErrors"
        BY <2>2, <2>6, <3>1, <3>2, <1>FailureCounts
      <4>2. CASE txns[i].heard
        BY <2>3, <4>1, <4>2
      <4>3. CASE ~txns[i].heard
        <5>1. cache # i
          BY <2>2, <3>2, <4>3
        <5>2. txns'[cache] = txns[cache]
          BY <2>2, <2>6, <5>1
        <5> QED BY <2>3, <3>2, <4>3, <5>2 DEF EchoInv, CacheHeard
      <4> QED BY <4>2, <4>3
    <3> QED BY <3>1, <3>2
  <2> QED BY <2>2, <2>4, <2>5, <2>7, <2>8
(* A change is pending at first, and the context hears of it. *)
<1>SetValueKeeps. ASSUME EchoInv, NEW v \in Volume, SetValue(v) PROVE EchoInv'
  <2> USE <1>SetValueKeeps
  <2> DEFINE n == Len(txns) + 1
             new == [val |-> v, status |-> "Pending", didFail |-> FALSE, owned |-> TRUE,
                     heard |-> TRUE, run |-> 0, open |-> {0}, button |-> FALSE, won |-> FALSE]
             added == {[txn |-> n, run |-> 0, op |-> o] : o \in Operations(rules, v)}
  <2>1. TypeOK /\ txns \in Seq(Txn) /\ cache \in 0 .. Len(txns) /\ requests \subseteq Request
    BY DEF EchoInv, TypeOK
  <2>2. scenario.sets \in Nat
    BY <2>1, BoundsType
  <2>3. /\ n <= scenario.sets /\ txns' = Append(Cancelled(txns), new) /\ cache' = n
        /\ contextState' = Checked(txns') /\ requests' = requests \cup added
        /\ UNCHANGED <<server, rules, properties, resends, faults, foreign, scenario>>
    BY DEF SetValue, bounds
  <2>4. /\ Cancelled(txns) \in Seq(Txn) /\ Len(Cancelled(txns)) = Len(txns)
        /\ \A j \in DOMAIN txns :
              /\ Cancelled(txns)[j].heard => txns[j].heard
              /\ Cancelled(txns)[j].owned = txns[j].owned
    <3>1. CASE cache = 0
      BY <2>1, <3>1 DEF Cancelled
    <3>2. CASE cache # 0
      <4>1. cache \in DOMAIN txns /\ "Success" \in Status
        BY <2>1, <3>2 DEF Status
      <4>2. /\ Cancelled(txns) \in Seq(Txn) /\ Len(Cancelled(txns)) = Len(txns)
            /\ \A j \in DOMAIN txns \ {cache} : Cancelled(txns)[j] = txns[j]
            /\ Cancelled(txns)[cache].owned = txns[cache].owned
            /\ Cancelled(txns)[cache].heard => txns[cache].heard
        BY <2>1, <3>2, <4>1, WithStatusType DEF Cancelled
      <4> QED BY <4>2, Zenon
    <3> QED BY <3>1, <3>2
  <2>5. new \in Txn /\ new.owned /\ new.heard /\ new.status = "Pending"
    BY DEF Txn
  <2>6. added \subseteq Request
    <3>1. n \in 1 .. scenario.sets
      BY <2>1, <2>2, <2>3
    <3>2. Operations(rules, v) \subseteq Operation
      BY DEF Operations, Operation, Volume
    <3> QED BY <3>1, <3>2 DEF Request
  <2>7. \A q \in added : q.txn = n
    OBVIOUS
  <2> HIDE DEF new, added
  <2>8. /\ txns' \in Seq(Txn) /\ Len(txns') = n /\ DOMAIN txns' = 1 .. n /\ txns'[n] = new
        /\ DOMAIN txns \subseteq DOMAIN txns' /\ n \in Nat \ {0}
    BY <2>1, <2>3, <2>4, <2>5
  <2>9. contextState' \in ContextState
    BY <2>3, <2>8, <1>FailureCounts
  <2>10. TypeOK'
    BY <2>1, <2>3, <2>6, <2>8, <2>9 DEF TypeOK, Request
  <2>11. RequestsKnown'
    BY <2>3, <2>7, <2>8 DEF EchoInv, RequestsKnown
  <2>12. CacheHeard'
    BY <2>3, <2>5, <2>8 DEF CacheHeard
  <2>13. HeardOwned'
    <3> SUFFICES ASSUME NEW j \in DOMAIN txns', txns'[j].heard PROVE txns'[j].owned
      BY DEF HeardOwned
    <3>1. CASE j = n
      BY <2>5, <2>8, <3>1
    <3>2. CASE j # n
      <4>1. j \in DOMAIN txns /\ txns'[j] = Cancelled(txns)[j]
        BY <2>1, <2>3, <2>4, <2>5, <2>8, <3>2
      <4> QED BY <2>4, <4>1 DEF EchoInv, HeardOwned
    <3> QED BY <3>1, <3>2
  <2> QED BY <2>10, <2>11, <2>12, <2>13 DEF EchoInv
(* A failed change that is run again is pending, and is the one that is    *)
(* shown if the context still hears of it.                                 *)
<1>ResendKeeps. ASSUME EchoInv, NEW i \in DOMAIN txns, Resend(i) PROVE EchoInv'
  <2> USE <1>ResendKeeps
  <2> DEFINE added == {[txn |-> i, run |-> txns'[i].run, op |-> o] : o \in Operations(rules, txns[i].val)}
  <2>1. /\ TypeOK /\ txns \in Seq(Txn) /\ Len(txns) <= scenario.sets /\ cache \in 0 .. Len(txns)
        /\ requests \subseteq Request /\ contextState \in ContextState /\ txns[i] \in Txn
    BY DEF EchoInv, TypeOK
  <2>2. scenario.sets \in Nat /\ scenario.resends \in Nat
    BY <2>1, BoundsType
  <2>3. /\ txns[i].status # "Success" /\ resends < scenario.resends /\ resends' = resends + 1
        /\ cache' = (IF txns[i].heard THEN i ELSE cache)
        /\ contextState' = (IF txns[i].heard THEN Checked(txns') ELSE contextState)
        /\ UNCHANGED <<server, rules, properties, faults, foreign, scenario>>
    BY DEF Resend, Notified
  <2>4. /\ txns' \in Seq(Txn) /\ Len(txns') = Len(txns) /\ DOMAIN txns' = DOMAIN txns
        /\ \A j \in DOMAIN txns \ {i} : txns'[j] = txns[j]
        /\ txns'[i].status = "Pending" /\ txns'[i].owned = txns[i].owned /\ txns'[i].run \in Nat
        /\ (txns'[i].heard <=> txns[i].heard) /\ (txns'[i].won <=> txns[i].won)
        /\ requests' = requests \cup added
    BY <2>1, ResendType
  <2>5. added \subseteq Request /\ \A q \in added : q.txn = i
    <3>1. i \in 1 .. scenario.sets
      BY <2>1, <2>2
    <3>2. Operations(rules, txns[i].val) \subseteq Operation
      <4>1. txns[i].val \in Volume
        BY <2>1 DEF Txn
      <4> QED BY <4>1 DEF Operations, Operation, Volume
    <3> QED BY <2>4, <3>1, <3>2 DEF Request
  <2> HIDE DEF added
  <2>6. contextState' \in ContextState /\ cache' \in 0 .. Len(txns')
    <3>1. Checked(txns') \in ContextState
      BY <2>4, <1>FailureCounts
    <3>2. cache' \in 0 .. Len(txns')
      BY <2>1, <2>3, <2>4
    <3> QED BY <2>1, <2>3, <3>1, <3>2
  <2>7. TypeOK'
    <3>1. resends' \in 0 .. scenario'.resends
      BY <2>1, <2>2, <2>3 DEF TypeOK
    <3> QED BY <2>1, <2>3, <2>4, <2>5, <2>6, <3>1 DEF TypeOK, Request
  <2>8. RequestsKnown'
    BY <2>4, <2>5 DEF EchoInv, RequestsKnown
  <2>11. HeardOwned'
    <3> SUFFICES ASSUME NEW j \in DOMAIN txns, txns'[j].heard PROVE txns'[j].owned
      BY <2>4 DEF HeardOwned
    <3>1. CASE j = i
      BY <2>4, <3>1, Zenon DEF EchoInv, HeardOwned
    <3>2. CASE j # i
      BY <2>4, <3>2, Zenon DEF EchoInv, HeardOwned
    <3> QED BY <3>1, <3>2
  <2>9. CASE txns[i].heard
    <3>1. cache' = i
      BY <2>3, <2>9
    <3>2. txns[i].owned
      BY <2>9 DEF EchoInv, HeardOwned
    <3>3. CacheHeard'
      BY <2>4, <2>9, <3>1, <3>2, Zenon DEF CacheHeard
    <3> QED BY <2>7, <2>8, <2>11, <3>3 DEF EchoInv
  <2>10. CASE ~txns[i].heard
    <3>1. cache' = cache /\ contextState' = contextState
      BY <2>3, <2>10
    <3>4. CacheHeard'
      <4> SUFFICES ASSUME cache # 0
                   PROVE  /\ txns'[cache].owned /\ (txns'[cache].heard \/ txns'[cache].won)
                          /\ txns'[cache].heard /\ txns'[cache].status = "Error" =>
                                contextState = "PendingErrors"
        BY <3>1 DEF CacheHeard
      <4>1. CASE cache = i
        BY <2>4, <2>10, <4>1, Zenon DEF EchoInv, CacheHeard
      <4>2. CASE cache # i
        <5>1. txns'[cache] = txns[cache]
          BY <2>1, <2>4, <4>2
        <5> QED BY <5>1 DEF EchoInv, CacheHeard
      <4> QED BY <4>1, <4>2
    <3> QED BY <2>7, <2>8, <2>11, <3>4 DEF EchoInv
  <2> QED BY <2>9, <2>10
(* A run whose requests are all done has succeeded. *)
<1>RunDoneKeeps. ASSUME EchoInv, NEW i \in DOMAIN txns, RunDone(i) PROVE EchoInv'
  <2> USE <1>RunDoneKeeps
  <2>1. PICK r \in txns[i].open : Settle(i, r, "Success")
    BY DEF RunDone
  <2>2. UNCHANGED <<server, rules, properties, cache, requests, resends, faults, foreign, scenario>>
    BY DEF RunDone, bounds
  <2>3. /\ txns' \in Seq(Txn) /\ Len(txns') = Len(txns) /\ contextState' \in ContextState
        /\ RequestsKnown' /\ HeardOwned' /\ CacheHeard'
    BY <2>1, <2>2, <1>SettleKeeps
  <2> QED BY <2>2, <2>3 DEF EchoInv, TypeOK, Request
(* The run of a failed request fails, unless another one has failed it. *)
<1>RequestFailedKeeps. ASSUME EchoInv, NEW q \in requests, RequestFailed(q) PROVE EchoInv'
  <2> USE <1>RequestFailedKeeps
  <2>1. /\ requests' \subseteq requests
        /\ UNCHANGED <<server, rules, properties, cache, resends, foreign, scenario>>
    BY DEF RequestFailed
  <2>2. q.txn \in DOMAIN txns
    BY DEF EchoInv, RequestsKnown
  <2>3. faults' \in 0 .. scenario.faults
    <3>1. faults \in 0 .. scenario.faults /\ scenario.faults \in Nat
      BY BoundsType DEF EchoInv, TypeOK
    <3> QED BY <3>1 DEF RequestFailed
  <2>4. CASE Settle(q.txn, q.run, "Error")
    <3>1. /\ txns' \in Seq(Txn) /\ Len(txns') = Len(txns) /\ contextState' \in ContextState
          /\ RequestsKnown' /\ HeardOwned' /\ CacheHeard'
      BY <2>1, <2>2, <2>4, <1>SettleKeeps
    <3> QED BY <2>1, <2>3, <3>1 DEF EchoInv, TypeOK, Request
  <2>5. CASE UNCHANGED <<txns, contextState>>
    BY <2>1, <2>3, <2>5 DEF EchoInv, TypeOK, Request, RequestsKnown, HeardOwned, CacheHeard
  <2> QED BY <2>4, <2>5 DEF RequestFailed
(* A change of the volume that /sync brings takes the transaction off. *)
<1>OnAccountDataKeeps. ASSUME EchoInv, OnAccountData PROVE EchoInv'
  <2> USE <1>OnAccountDataKeeps
  <2>1. /\ rules' = server /\ properties' = VolumeOf(server)
        /\ UNCHANGED <<server, requests, resends, faults, foreign, scenario>>
    BY DEF OnAccountData, bounds
  <2>2. TypeOK /\ txns \in Seq(Txn) /\ cache \in 0 .. Len(txns) /\ server \in Rules
    BY DEF EchoInv, TypeOK
  <2>3. rules' \in Rules /\ properties' \in Volume
    BY <2>1, <2>2, VolumeType
  <2>4. CASE UNCHANGED <<cache, txns, contextState>>
    BY <2>1, <2>3, <2>4 DEF EchoInv, TypeOK, Request, RequestsKnown, HeardOwned, CacheHeard
  <2>5. CASE /\ cache # 0 /\ cache' = 0 /\ txns' = Disowned(txns, cache)
             /\ contextState' = Checked(txns')
    <3> DEFINE t == [txns[cache] EXCEPT !.owned = FALSE, !.heard = FALSE, !.status = "Success",
                                        !.didFail = FALSE]
    <3>1. t \in Txn /\ ~t.heard
      <4>1. txns[cache] \in Txn
        BY <2>2, <2>5
      <4> QED BY <4>1 DEF Txn
    <3>2. txns' = [txns EXCEPT ![cache] = t]
      BY <2>5 DEF Disowned
    <3> HIDE DEF t
    <3>3. /\ txns' \in Seq(Txn) /\ Len(txns') = Len(txns) /\ DOMAIN txns' = DOMAIN txns
          /\ \A j \in DOMAIN txns : txns'[j] = IF j = cache THEN t ELSE txns[j]
      BY <2>2, <2>5, <3>1, <3>2
    <3>4. contextState' \in ContextState
      BY <2>5, <3>3, <1>FailureCounts
    <3>5. TypeOK'
      BY <2>1, <2>2, <2>3, <2>5, <3>3, <3>4 DEF TypeOK, Request
    <3>6. RequestsKnown'
      BY <2>1, <3>3 DEF EchoInv, RequestsKnown
    <3>7. HeardOwned'
      BY <3>1, <3>3 DEF EchoInv, HeardOwned
    <3> QED BY <2>5, <3>5, <3>6, <3>7 DEF EchoInv, CacheHeard
  <2> QED BY <2>4, <2>5 DEF OnAccountData
(* The two steps that happen on the server alone. *)
<1>ServerKeeps. ASSUME EchoInv,
                       (\E q \in requests : RequestDone(q)) \/ (\E v \in Volume : ForeignChange(v))
                PROVE  EchoInv'
  <2> USE <1>ServerKeeps
  <2>1. /\ requests' \subseteq requests
        /\ UNCHANGED <<rules, properties, cache, txns, contextState, resends, faults, scenario>>
    BY DEF RequestDone, ForeignChange, bounds
  <2>2. server' \in Rules
    <3>1. ASSUME NEW q \in requests, RequestDone(q) PROVE server' \in Rules
      <4>1. server \in Rules /\ q.op \in Operation /\ server' = Applied(server, q.op)
        BY <3>1 DEF EchoInv, TypeOK, Request, RequestDone
      <4> QED BY <4>1 DEF Applied, Rules, Operation
    <3>2. ASSUME NEW v \in Volume, ForeignChange(v) PROVE server' \in Rules
      <4> DEFINE muted == v = "mute"
      <4>1. muted \in BOOLEAN
        OBVIOUS
      <4>2. server' = [mute |-> muted, room |-> IF v \in {"mute", "all"} THEN "none" ELSE v]
        BY <3>2 DEF ForeignChange
      <4> HIDE DEF muted
      <4> QED BY <4>1, <4>2 DEF Volume, Rules
    <3> QED BY <3>1, <3>2
  <2>3. foreign' \in 0 .. scenario.foreign
    <3>1. foreign \in 0 .. scenario.foreign /\ scenario.foreign \in Nat
      BY BoundsType DEF EchoInv, TypeOK
    <3> QED BY <3>1 DEF RequestDone, ForeignChange, bounds
  <2> QED BY <2>1, <2>2, <2>3
          DEF EchoInv, TypeOK, Request, RequestsKnown, HeardOwned, CacheHeard
<1>1. Init => EchoInv
  <2> SUFFICES ASSUME Init PROVE EchoInv
    OBVIOUS
  <2>1. txns = <<>> /\ txns \in Seq(Txn) /\ Len(txns) = 0
    BY DEF Init
  <2>2. scenario \in Scenarios /\ scenario \in Scenario
    BY EchoAssumption DEF Init
  <2>3. /\ scenario.sets \in Nat /\ scenario.resends \in Nat
        /\ scenario.faults \in Nat /\ scenario.foreign \in Nat
    BY <2>2 DEF Scenario
  <2>4. TypeOK
    BY <2>1, <2>2, <2>3, VolumeType DEF Init, TypeOK, ContextState
  <2> QED BY <2>1, <2>4 DEF Init, EchoInv, RequestsKnown, HeardOwned, CacheHeard
<1>2. EchoInv /\ [Next]_vars => EchoInv'
  <2> SUFFICES ASSUME EchoInv, [Next]_vars PROVE EchoInv'
    OBVIOUS
  <2>1. CASE UNCHANGED vars
    BY <2>1 DEF vars, bounds, EchoInv, TypeOK, Request, RequestsKnown, HeardOwned, CacheHeard
  <2>2. CASE Next
    BY <2>2, <1>SetValueKeeps, <1>ResendKeeps, <1>RunDoneKeeps, <1>RequestFailedKeeps, <1>OnAccountDataKeeps,
       <1>ServerKeeps DEF Next
  <2> QED BY <2>1, <2>2
<1> QED BY <1>1, <1>2, PTL DEF Spec

(* The values of the program have their types. *)
THEOREM EchoTypeCorrect == Spec => []TypeOK
<1>1. EchoInv => TypeOK
  BY DEF EchoInv
<1> QED BY <1>1, EchoInvariant, PTL

(* A room that shows a choice that failed has its toast, in every order of *)
(* changes, resends, answers and echoes, unless a run of that change had   *)
(* succeeded before another one failed.                                    *)
THEOREM Reported == Spec => []FailureReported
<1>1. EchoInv => FailureReported
  BY DEF EchoInv, CacheHeard, FailureReported
<1> QED BY <1>1, EchoInvariant, PTL

----------------------------------------------------------------------------
(* The volume once the operations that are under way have been done. *)
VolumeAfter(r, ops) ==
    IF "addMute" \in ops \/ (r.mute /\ "deleteMute" \notin ops) THEN "mute"
    ELSE IF "addMentions" \in ops THEN "mentions"
    ELSE IF "addLoud" \in ops THEN "loud"
    ELSE IF "deleteRoom" \in ops \/ r.room = "none" THEN "all" ELSE r.room
Compatible(ops) ==
    /\ ~("addMute" \in ops /\ "deleteMute" \in ops)
    /\ ~("addMentions" \in ops /\ "addLoud" \in ops)
    /\ "deleteRoom" \in ops => "addMentions" \notin ops /\ "addLoud" \notin ops

Ops == {q.op : q \in requests}

(* For changes one after the other: a failed transaction is heard of;      *)
Hearing ==
    \A i \in DOMAIN txns :
        txns[i].owned /\ ~txns[i].heard => txns[i].status = "Success" /\ txns[i].open = {}

(* the one that is shown, while it runs, runs once and alone, and what is  *)
(* left of its requests leads the server to its value;                     *)
Running ==
    cache # 0 /\ txns[cache].open # {} =>
        /\ txns[cache].status = "Pending" /\ txns[cache].open = {txns[cache].run}
        /\ \A q \in requests : q.txn = cache /\ q.run = txns[cache].run
        /\ Compatible(Ops) /\ VolumeAfter(server, Ops) = txns[cache].val

(* and when it has succeeded the server has its value, or did until another *)
(* device or a resend of an earlier one changed it, which an echo tells.   *)
Succeeded ==
    cache # 0 /\ txns[cache].open = {} =>
        /\ txns[cache].status # "Pending"
        /\ txns[cache].status = "Success" =>
              \/ txns[cache].val = properties
              \/ requests = {} /\ txns[cache].val = VolumeOf(server)

(* no transaction runs twice at a time;                                    *)
OneRun == \A i \in DOMAIN txns : txns[i].open \subseteq {txns[i].run}

Synced == properties = VolumeOf(rules)
OneByOne == Synced /\ (scenario.serial => Hearing /\ OneRun /\ Running /\ Succeeded)

(* The operations of a change lead to its volume, in whatever order they   *)
(* are done.                                                               *)
LEMMA Leading ==
    /\ \A r \in Rules, v \in Volume :
          Compatible(Operations(r, v)) /\ VolumeAfter(r, Operations(r, v)) = v
    /\ \A r \in Rules : VolumeAfter(r, {}) = VolumeOf(r)
    /\ \A r \in Rules, ops \in SUBSET Operation : \A op \in ops :
          Compatible(ops) => /\ Compatible(ops \ {op})
                             /\ VolumeAfter(Applied(r, op), ops \ {op}) = VolumeAfter(r, ops)
<1>1. ASSUME NEW r \in Rules, NEW v \in Volume
      PROVE  Compatible(Operations(r, v)) /\ VolumeAfter(r, Operations(r, v)) = v
  <2>1. /\ "addMute" \in Operations(r, v) <=> v = "mute"
        /\ "deleteMute" \in Operations(r, v) <=> (v # "mute" /\ r.mute)
        /\ "deleteRoom" \in Operations(r, v) <=> (v \in {"mute", "all"} /\ r.room # "none")
        /\ "addMentions" \in Operations(r, v) <=> v = "mentions"
        /\ "addLoud" \in Operations(r, v) <=> v = "loud"
    BY DEF Operations, Volume
  <2>2. Compatible(Operations(r, v))
    BY <2>1 DEF Compatible
  <2>3. VolumeAfter(r, Operations(r, v)) = v
    BY <2>1 DEF VolumeAfter, Rules, Volume
  <2> QED BY <2>2, <2>3
<1>2. ASSUME NEW r \in Rules PROVE VolumeAfter(r, {}) = VolumeOf(r)
  BY DEF VolumeAfter, VolumeOf, Rules
<1>3. ASSUME NEW r \in Rules, NEW ops \in SUBSET Operation, NEW op \in ops, Compatible(ops)
      PROVE  /\ Compatible(ops \ {op})
             /\ VolumeAfter(Applied(r, op), ops \ {op}) = VolumeAfter(r, ops)
  <2>1. Compatible(ops \ {op})
    BY <1>3 DEF Compatible
  <2>2. CASE op = "addMute"
    <3>1. Applied(r, op).mute /\ Applied(r, op).room = r.room
      BY <2>2 DEF Applied, Rules
    <3> QED BY <1>3, <2>2, <3>1 DEF VolumeAfter, Compatible
  <2>3. CASE op = "deleteMute"
    <3>1. ~Applied(r, op).mute /\ Applied(r, op).room = r.room
      BY <2>3 DEF Applied, Rules
    <3> QED BY <1>3, <2>3, <3>1 DEF VolumeAfter, Compatible
  <2>4. CASE op = "deleteRoom"
    <3>1. (Applied(r, op).mute <=> r.mute) /\ Applied(r, op).room = "none"
      BY <2>4 DEF Applied, Rules
    <3> QED BY <1>3, <2>4, <3>1 DEF VolumeAfter, Compatible
  <2>5. CASE op = "addMentions"
    <3>1. (Applied(r, op).mute <=> r.mute) /\ Applied(r, op).room = "mentions"
      BY <2>5 DEF Applied, Rules
    <3> QED BY <1>3, <2>5, <3>1 DEF VolumeAfter, Compatible
  <2>6. CASE op = "addLoud"
    <3>1. (Applied(r, op).mute <=> r.mute) /\ Applied(r, op).room = "loud"
      BY <2>6 DEF Applied, Rules
    <3> QED BY <1>3, <2>6, <3>1 DEF VolumeAfter, Compatible
  <2> QED BY <2>1, <2>2, <2>3, <2>4, <2>5, <2>6 DEF Operation
<1> QED BY <1>1, <1>2, <1>3

(* For changes one after the other, on all devices: the one that is shown  *)
(* is alone under way, and once it has succeeded the server has its value  *)
(* or a later echo takes it off.                                           *)
THEOREM OneAfterAnother == Spec => []OneByOne
<1>Typed. ASSUME EchoInv
          PROVE  /\ txns \in Seq(Txn) /\ cache \in 0 .. Len(txns) /\ requests \subseteq Request
                 /\ server \in Rules /\ rules \in Rules /\ DOMAIN txns = 1 .. Len(txns)
                 /\ Len(txns) \in Nat /\ (cache # 0 => cache \in DOMAIN txns)
                 /\ Ops \subseteq Operation
  <2>1. /\ txns \in Seq(Txn) /\ cache \in 0 .. Len(txns) /\ requests \subseteq Request
        /\ server \in Rules /\ rules \in Rules
    BY <1>Typed DEF EchoInv, TypeOK
  <2>2. Ops \subseteq Operation
    BY <2>1 DEF Ops, Request
  <2> QED BY <2>1, <2>2
<1>1. Init => OneByOne
  BY DEF Init, OneByOne, Synced, Hearing, OneRun, Running, Succeeded
(* A change is begun, or begun again, when nothing else is under way. *)
<1>Begun. ASSUME EchoInv, OneByOne, scenario.serial, Quiet, NEW n \in Nat \ {0}, n \in DOMAIN txns',
                 txns'[n].open = {txns'[n].run},
                 txns'[n].status = "Pending", cache' = n, NEW added, requests' = requests \cup added,
                 added = {[txn |-> n, run |-> txns'[n].run, op |-> o] : o \in Operations(rules, txns'[n].val)},
                 server' = server, txns'[n].val \in Volume
          PROVE  Running' /\ Succeeded'
  <2> USE <1>Begun
  <2>1. requests' = added /\ rules = server /\ server \in Rules
    BY <1>Typed DEF Quiet
  <2>2. Ops' = Operations(rules, txns'[n].val)
    <3>1. \A q \in added : q.op \in Operations(rules, txns'[n].val)
      OBVIOUS
    <3>2. ASSUME NEW o \in Operations(rules, txns'[n].val) PROVE \E q \in added : q.op = o
      <4>1. [txn |-> n, run |-> txns'[n].run, op |-> o] \in added
        OBVIOUS
      <4>2. [txn |-> n, run |-> txns'[n].run, op |-> o].op = o
        OBVIOUS
      <4> QED BY <4>1, <4>2
    <3> QED BY <2>1, <3>1, <3>2 DEF Ops
  <2>3. \A q \in requests' : q.txn = n /\ q.run = txns'[n].run
    BY <2>1
  <2>4. Compatible(Ops') /\ VolumeAfter(server, Ops') = txns'[n].val
    BY <2>1, <2>2, Leading
  <2>5. Running'
    BY <2>3, <2>4, Zenon DEF Running
  <2>6. txns'[n].open # {}
    OBVIOUS
  <2>7. Succeeded'
    BY <2>6 DEF Succeeded
  <2> QED BY <2>5, <2>7
<1>SetValue. ASSUME EchoInv, OneByOne, NEW v \in Volume, SetValue(v) PROVE OneByOne'
  <2> USE <1>SetValue
  <2> DEFINE n == Len(txns) + 1
             new == [val |-> v, status |-> "Pending", didFail |-> FALSE, owned |-> TRUE,
                     heard |-> TRUE, run |-> 0, open |-> {0}, button |-> FALSE, won |-> FALSE]
             added == {[txn |-> n, run |-> 0, op |-> o] : o \in Operations(rules, v)}
  <2>1. /\ txns' = Append(Cancelled(txns), new) /\ cache' = n /\ requests' = requests \cup added
        /\ UNCHANGED <<server, rules, properties, scenario>> /\ (scenario.serial => Quiet)
    BY DEF SetValue, bounds
  <2>2. Synced'
    BY <2>1 DEF OneByOne, Synced
  <2> SUFFICES ASSUME scenario.serial PROVE Hearing' /\ OneRun' /\ Running' /\ Succeeded'
    BY <2>1, <2>2 DEF OneByOne
  <2>3. PICK ts \in Seq(Txn) :
          /\ ts = Cancelled(txns) /\ Len(ts) = Len(txns) /\ DOMAIN ts = DOMAIN txns
          /\ \A j \in DOMAIN txns : \/ ts[j] = txns[j]
                                    \/ ts[j].status = "Success" /\ ts[j].open = txns[j].open
    <3>1. CASE cache = 0
      BY <3>1, <1>Typed DEF Cancelled
    <3>2. CASE cache # 0
      <4>1. cache \in DOMAIN txns /\ "Success" \in Status
        BY <3>2, <1>Typed DEF Status
      <4> QED BY <3>2, <4>1, <1>Typed, WithStatusType DEF Cancelled
    <3> QED BY <3>1, <3>2
  <2>4. /\ new \in Txn /\ new.owned /\ new.heard /\ new.status = "Pending" /\ new.open = {0}
        /\ new.run = 0 /\ new.val = v
    BY DEF Txn
  <2> HIDE DEF new
  <2>5. /\ DOMAIN txns' = 1 .. n /\ txns'[n] = new /\ n \in Nat \ {0} /\ n \in DOMAIN txns'
        /\ \A j \in DOMAIN txns : txns'[j] = ts[j]
        /\ \A j \in DOMAIN txns' : j = n \/ j \in DOMAIN txns
    BY <2>1, <2>3, <2>4, <1>Typed
  <2>6. \A j \in DOMAIN txns : txns[j].open = {}
    BY <2>1 DEF Quiet
  <2>7. \A j \in DOMAIN txns' \ {n} :
            txns'[j].open = {} /\ (txns'[j] = txns[j] \/ txns'[j].status = "Success")
    BY <2>3, <2>5, <2>6
  <2>8. Hearing'
    <3> SUFFICES ASSUME NEW j \in DOMAIN txns', txns'[j].owned, ~txns'[j].heard
                 PROVE  txns'[j].status = "Success" /\ txns'[j].open = {}
      BY DEF Hearing
    <3>1. j # n
      BY <2>4, <2>5
    <3>2. j \in DOMAIN txns
      BY <2>5, <3>1
    <3> QED BY <2>7, <3>1, <3>2 DEF OneByOne, Hearing
  <2>10. OneRun'
    <3> SUFFICES ASSUME NEW j \in DOMAIN txns' PROVE txns'[j].open \subseteq {txns'[j].run}
      BY DEF OneRun
    <3> QED BY <2>4, <2>5, <2>7
  <2>9. Running' /\ Succeeded'
    <3>1. /\ txns'[n].run = 0 /\ txns'[n].val = v /\ txns'[n].open = {txns'[n].run}
          /\ txns'[n].status = "Pending"
      BY <2>4, <2>5
    <3>2. added = {[txn |-> n, run |-> txns'[n].run, op |-> o] : o \in Operations(rules, txns'[n].val)}
      BY <3>1
    <3> HIDE DEF n, added
    <3> QED BY <2>1, <2>5, <3>1, <3>2, <1>Begun
  <2> QED BY <2>8, <2>9, <2>10
<1>Resend. ASSUME EchoInv, OneByOne, NEW i \in DOMAIN txns, Resend(i) PROVE OneByOne'
  <2> USE <1>Resend
  <2>1. /\ txns[i].status # "Success" /\ cache' = (IF txns[i].heard THEN i ELSE cache)
        /\ UNCHANGED <<server, rules, properties, scenario>> /\ (scenario.serial => Quiet)
    BY DEF Resend
  <2>2. Synced'
    BY <2>1 DEF OneByOne, Synced
  <2> SUFFICES ASSUME scenario.serial PROVE Hearing' /\ OneRun' /\ Running' /\ Succeeded'
    BY <2>1, <2>2 DEF OneByOne
  <2>3. /\ DOMAIN txns' = DOMAIN txns /\ \A j \in DOMAIN txns \ {i} : txns'[j] = txns[j]
        /\ txns'[i].status = "Pending" /\ txns'[i].owned = txns[i].owned
        /\ txns'[i].open = txns[i].open \cup {txns'[i].run} /\ txns'[i].val = txns[i].val
        /\ (txns'[i].heard <=> txns[i].heard)
        /\ requests' = requests \cup {[txn |-> i, run |-> txns'[i].run, op |-> o] :
                                         o \in Operations(rules, txns[i].val)}
    BY <1>Typed, ResendType
  <2>4. Quiet /\ \A j \in DOMAIN txns : txns[j].open = {}
    BY <2>1 DEF Quiet
  <2>5. ~txns[i].heard => ~txns[i].owned
    BY <2>1 DEF OneByOne, Hearing
  <2>6. Hearing'
    <3> SUFFICES ASSUME NEW j \in DOMAIN txns, txns'[j].owned, ~txns'[j].heard
                 PROVE  txns'[j].status = "Success" /\ txns'[j].open = {}
      BY <2>3 DEF Hearing
    <3>1. j # i
      BY <2>3, <2>5
    <3> QED BY <2>3, <3>1 DEF OneByOne, Hearing
  <2>9. OneRun'
    <3> SUFFICES ASSUME NEW j \in DOMAIN txns PROVE txns'[j].open \subseteq {txns'[j].run}
      BY <2>3 DEF OneRun
    <3>1. CASE j = i
      BY <2>3, <2>4, <3>1
    <3>2. CASE j # i
      BY <2>3, <2>4, <3>2
    <3> QED BY <3>1, <3>2
  <2>7. CASE txns[i].heard
    <3>1. txns'[i].val \in Volume /\ i \in Nat \ {0}
      <4>1. txns[i] \in Txn /\ i \in Nat \ {0}
        BY <1>Typed
      <4> QED BY <2>3, <4>1 DEF Txn
    <3>2. cache' = i /\ txns'[i].open = {txns'[i].run}
      BY <2>1, <2>3, <2>4, <2>7
    <3>3. requests' = requests \cup {[txn |-> i, run |-> txns'[i].run, op |-> o] :
                                       o \in Operations(rules, txns'[i].val)}
      BY <2>3
    <3>4. Running' /\ Succeeded'
      BY <2>1, <2>3, <2>4, <3>1, <3>2, <3>3, <1>Begun
    <3> QED BY <2>6, <2>9, <3>4
  <2>8. CASE ~txns[i].heard
    <3>1. cache' = cache
      BY <2>1, <2>8
    <3>2. cache # 0 => cache # i
      BY <2>5, <2>8 DEF EchoInv, CacheHeard
    <3>3. cache # 0 => txns'[cache] = txns[cache] /\ txns[cache].open = {}
      BY <2>3, <2>4, <3>2, <1>Typed
    <3>4. properties = VolumeOf(server)
      BY <2>4 DEF Quiet, OneByOne, Synced
    <3>5. Running'
      BY <3>1, <3>3 DEF Running
    <3>6. Succeeded'
      BY <2>1, <3>1, <3>3, <3>4 DEF OneByOne, Succeeded
    <3> QED BY <2>6, <2>9, <3>5, <3>6
  <2> QED BY <2>7, <2>8
<1>RunDone. ASSUME EchoInv, OneByOne, NEW i \in DOMAIN txns, RunDone(i) PROVE OneByOne'
  <2> USE <1>RunDone
  <2>1. PICK r \in txns[i].open : OfRun(i, r) = {} /\ Settle(i, r, "Success")
    BY DEF RunDone
  <2>2. UNCHANGED <<server, rules, properties, cache, requests, scenario>>
    BY DEF RunDone, bounds
  <2>3. Synced'
    BY <2>2 DEF OneByOne, Synced
  <2> SUFFICES ASSUME scenario.serial PROVE Hearing' /\ OneRun' /\ Running' /\ Succeeded'
    BY <2>2, <2>3 DEF OneByOne
  <2>4. /\ DOMAIN txns' = DOMAIN txns /\ \A j \in DOMAIN txns \ {i} : txns'[j] = txns[j]
        /\ txns'[i].status = "Success" /\ txns'[i].open = txns[i].open \ {r}
        /\ txns'[i].val = txns[i].val /\ txns'[i].owned = txns[i].owned
        /\ txns'[i].run = txns[i].run /\ (txns'[i].heard <=> txns[i].heard /\ "Success" # "Success")
    BY <2>1, <1>Typed, SettledType
  <2>5. ASSUME cache = i, cache # 0
        PROVE  /\ txns[i].open = {r} /\ requests = {} /\ VolumeOf(server) = txns[i].val
    <3>1. /\ txns[i].open = {txns[i].run} /\ r = txns[i].run
          /\ \A q \in requests : q.txn = i /\ q.run = r
      BY <2>1, <2>5 DEF OneByOne, Running
    <3>2. requests = {}
      BY <2>1, <3>1 DEF OfRun
    <3>3. Ops = {}
      BY <3>2 DEF Ops
    <3>4. VolumeAfter(server, Ops) = txns[i].val
      BY <2>1, <2>5 DEF OneByOne, Running
    <3> QED BY <3>1, <3>2, <3>3, <3>4, <1>Typed, Leading
  <2>6. cache # 0 /\ cache # i => txns'[cache] = txns[cache]
    BY <2>4, <1>Typed
  <2>7. Hearing'
    <3> SUFFICES ASSUME NEW j \in DOMAIN txns, txns'[j].owned, ~txns'[j].heard
                 PROVE  txns'[j].status = "Success" /\ txns'[j].open = {}
      BY <2>4 DEF Hearing
    <3>1. CASE j # i
      BY <2>4, <3>1 DEF OneByOne, Hearing
    <3>2. CASE j = i
      <4>1. txns[i].open = {r}
        BY <2>1 DEF OneByOne, OneRun
      <4> QED BY <2>4, <3>2, <4>1
    <3> QED BY <3>1, <3>2
  <2>8. Running'
    <3>1. CASE cache = i /\ cache # 0
      <4>1. txns'[cache].open = {}
        BY <2>4, <2>5, <3>1
      <4> QED BY <2>2, <4>1 DEF Running
    <3>2. CASE cache # 0 /\ cache # i
      BY <2>2, <2>6, <3>2 DEF OneByOne, Running, Ops
    <3>3. CASE cache = 0
      BY <2>2, <3>3 DEF Running
    <3> QED BY <3>1, <3>2, <3>3
  <2>9. Succeeded'
    <3>1. CASE cache = i /\ cache # 0
      BY <2>2, <2>4, <2>5, <3>1 DEF Succeeded
    <3>2. CASE cache # 0 /\ cache # i
      BY <2>2, <2>6, <3>2 DEF OneByOne, Succeeded
    <3>3. CASE cache = 0
      BY <2>2, <3>3 DEF Succeeded
    <3> QED BY <3>1, <3>2, <3>3
  <2>10. OneRun'
    <3> SUFFICES ASSUME NEW j \in DOMAIN txns PROVE txns'[j].open \subseteq {txns'[j].run}
      BY <2>4 DEF OneRun
    <3>1. CASE j = i
      BY <2>4, <3>1 DEF OneByOne, OneRun
    <3>2. CASE j # i
      BY <2>4, <3>2 DEF OneByOne, OneRun
    <3> QED BY <3>1, <3>2
  <2> QED BY <2>7, <2>8, <2>9, <2>10
<1>RequestFailed. ASSUME EchoInv, OneByOne, NEW q \in requests, RequestFailed(q) PROVE OneByOne'
  <2> USE <1>RequestFailed
  <2>1. /\ requests' = requests \ {q} /\ UNCHANGED <<server, rules, properties, cache, scenario>>
        /\ q.txn \in DOMAIN txns
    BY DEF RequestFailed, EchoInv, RequestsKnown
  <2>2. Synced'
    BY <2>1 DEF OneByOne, Synced
  <2> SUFFICES ASSUME scenario.serial PROVE Hearing' /\ OneRun' /\ Running' /\ Succeeded'
    BY <2>1, <2>2 DEF OneByOne
  <2>3. CASE q.run \in txns[q.txn].open /\ Settle(q.txn, q.run, "Error")
    <3>1. /\ DOMAIN txns' = DOMAIN txns /\ \A j \in DOMAIN txns \ {q.txn} : txns'[j] = txns[j]
          /\ txns'[q.txn].status = "Error" /\ txns'[q.txn].open = txns[q.txn].open \ {q.run}
          /\ txns'[q.txn].owned = txns[q.txn].owned /\ txns'[q.txn].run = txns[q.txn].run
          /\ txns'[q.txn].heard <=> txns[q.txn].heard
      BY <2>1, <2>3, <1>Typed, SettledType
    <3>2. Hearing'
      <4> SUFFICES ASSUME NEW j \in DOMAIN txns', txns'[j].owned, ~txns'[j].heard
                   PROVE  txns'[j].status = "Success" /\ txns'[j].open = {}
        BY DEF Hearing
      <4>1. j # q.txn
        BY <2>3, <3>1 DEF OneByOne, Hearing
      <4> QED BY <3>1, <4>1 DEF OneByOne, Hearing
    <3>6. OneRun'
      <4> SUFFICES ASSUME NEW j \in DOMAIN txns PROVE txns'[j].open \subseteq {txns'[j].run}
        BY <3>1 DEF OneRun
      <4>1. CASE j = q.txn
        BY <3>1, <4>1 DEF OneByOne, OneRun
      <4>2. CASE j # q.txn
        BY <3>1, <4>2 DEF OneByOne, OneRun
      <4> QED BY <4>1, <4>2
    <3>3. CASE cache # 0 /\ txns[cache].open # {}
      <4>1. cache = q.txn /\ txns[cache].open = {q.run}
        BY <3>3 DEF OneByOne, Running
      <4>2. txns'[cache].open = {} /\ txns'[cache].status = "Error"
        BY <3>1, <4>1
      <4>3. Running'
        BY <2>1, <4>2 DEF Running
      <4>4. Succeeded'
        BY <2>1, <4>2 DEF Succeeded
      <4> QED BY <3>2, <3>6, <4>3, <4>4
    <3>4. CASE cache # 0 /\ txns[cache].open = {}
      <4>1. cache # q.txn
        BY <2>3, <3>4
      <4>2. txns'[cache] = txns[cache]
        BY <3>1, <3>4, <4>1, <1>Typed
      <4>3. Running'
        BY <2>1, <3>4, <4>2 DEF Running
      <4>4. Succeeded'
        BY <2>1, <3>4, <4>2 DEF OneByOne, Succeeded
      <4> QED BY <3>2, <3>6, <4>3, <4>4
    <3>5. CASE cache = 0
      BY <2>1, <3>2, <3>5, <3>6 DEF Running, Succeeded
    <3> QED BY <3>3, <3>4, <3>5
  <2>4. CASE UNCHANGED txns /\ q.run \notin txns[q.txn].open
    <3>1. cache # 0 => txns[cache].open = {}
      BY <2>4 DEF OneByOne, Running
    <3>2. Hearing' /\ OneRun' /\ Running'
      BY <2>1, <2>4, <3>1 DEF OneByOne, Hearing, OneRun, Running
    <3>3. Succeeded'
      BY <2>1, <2>4 DEF OneByOne, Succeeded
    <3> QED BY <3>2, <3>3
  <2> QED BY <2>3, <2>4 DEF RequestFailed
<1>OnAccountData. ASSUME EchoInv, OneByOne, OnAccountData PROVE OneByOne'
  <2> USE <1>OnAccountData
  <2>1. /\ rules' = server /\ properties' = VolumeOf(server)
        /\ UNCHANGED <<server, requests, scenario>>
    BY DEF OnAccountData, bounds
  <2>2. Synced'
    BY <2>1 DEF Synced
  <2> SUFFICES ASSUME scenario.serial PROVE Hearing' /\ OneRun' /\ Running' /\ Succeeded'
    BY <2>1, <2>2 DEF OneByOne
  <2>3. CASE UNCHANGED <<cache, txns>> /\ (properties = properties' \/ cache = 0)
    <3>1. Ops' = Ops
      BY <2>1 DEF Ops
    <3>2. Hearing' /\ OneRun' /\ Running'
      BY <2>1, <2>3, <3>1 DEF OneByOne, Hearing, OneRun, Running
    <3>3. Succeeded'
      BY <2>1, <2>3 DEF OneByOne, Succeeded
    <3> QED BY <3>2, <3>3
  <2>4. CASE cache # 0 /\ cache' = 0 /\ txns' = Disowned(txns, cache)
    <3>1. /\ DOMAIN txns' = DOMAIN txns /\ ~txns'[cache].owned
          /\ txns'[cache].open = txns[cache].open /\ txns'[cache].run = txns[cache].run
          /\ \A j \in DOMAIN txns \ {cache} : txns'[j] = txns[j]
      <4>1. cache \in DOMAIN txns /\ txns[cache] \in Txn
        BY <2>4, <1>Typed
      <4> QED BY <2>4, <4>1, <1>Typed DEF Disowned, Txn
    <3>2. Hearing'
      BY <3>1 DEF OneByOne, Hearing
    <3>3. OneRun'
      <4> SUFFICES ASSUME NEW j \in DOMAIN txns PROVE txns'[j].open \subseteq {txns'[j].run}
        BY <3>1 DEF OneRun
      <4>1. CASE j = cache
        BY <3>1, <4>1 DEF OneByOne, OneRun
      <4>2. CASE j # cache
        BY <3>1, <4>2 DEF OneByOne, OneRun
      <4> QED BY <4>1, <4>2
    <3> QED BY <2>4, <3>2, <3>3 DEF Running, Succeeded
  <2> QED BY <2>3, <2>4 DEF OnAccountData
<1>RequestDone. ASSUME EchoInv, OneByOne, NEW q \in requests, RequestDone(q) PROVE OneByOne'
  <2> USE <1>RequestDone
  <2>1. /\ server' = Applied(server, q.op) /\ requests' = requests \ {q}
        /\ UNCHANGED <<rules, properties, cache, txns, scenario>>
    BY DEF RequestDone, bounds
  <2>2. Synced'
    BY <2>1 DEF OneByOne, Synced
  <2> SUFFICES ASSUME scenario.serial PROVE Hearing' /\ OneRun' /\ Running' /\ Succeeded'
    BY <2>1, <2>2 DEF OneByOne
  <2>3. Hearing' /\ OneRun' /\ Succeeded'
    BY <2>1 DEF OneByOne, Hearing, OneRun, Succeeded
  <2>4. ASSUME cache # 0, txns[cache].open # {}
        PROVE  Compatible(Ops') /\ VolumeAfter(server', Ops') = txns[cache].val
    <3>1. /\ \A p \in requests : p.txn = cache /\ p.run = txns[cache].run
          /\ Compatible(Ops) /\ VolumeAfter(server, Ops) = txns[cache].val
      BY <2>4 DEF OneByOne, Running
    <3>2. ASSUME NEW p \in requests, p.op = q.op PROVE p = q
      <4>1. p \in Request /\ q \in Request
        BY <1>Typed
      <4> QED BY <3>1, <3>2, <4>1 DEF Request
    <3>3. Ops' = Ops \ {q.op} /\ q.op \in Ops
      BY <2>1, <3>2 DEF Ops
    <3> QED BY <2>1, <3>1, <3>3, <1>Typed, Leading
  <2>5. Running'
    BY <2>1, <2>4 DEF OneByOne, Running
  <2> QED BY <2>3, <2>5
<1>ForeignChange. ASSUME EchoInv, OneByOne, NEW v \in Volume, ForeignChange(v) PROVE OneByOne'
  <2> USE <1>ForeignChange
  <2>1. /\ UNCHANGED <<rules, properties, cache, txns, requests, scenario>> /\ (scenario.serial => Quiet)
    BY DEF ForeignChange
  <2>2. Synced'
    BY <2>1 DEF OneByOne, Synced
  <2> SUFFICES ASSUME scenario.serial PROVE Hearing' /\ OneRun' /\ Running' /\ Succeeded'
    BY <2>1, <2>2 DEF OneByOne
  <2>3. properties = VolumeOf(server) /\ (cache # 0 => txns[cache].open = {})
    BY <2>1, <1>Typed DEF Quiet, OneByOne, Synced
  <2>4. Hearing' /\ OneRun' /\ Running'
    BY <2>1, <2>3 DEF OneByOne, Hearing, OneRun, Running
  <2>5. Succeeded'
    BY <2>1, <2>3 DEF OneByOne, Succeeded
  <2> QED BY <2>4, <2>5
<1>2. EchoInv /\ OneByOne /\ [Next]_vars => OneByOne'
  <2> SUFFICES ASSUME EchoInv, OneByOne, [Next]_vars PROVE OneByOne'
    OBVIOUS
  <2>1. CASE UNCHANGED vars
    BY <2>1 DEF vars, bounds, OneByOne, Synced, Hearing, OneRun, Running, Succeeded, Ops
  <2>2. CASE Next
    BY <2>2, <1>SetValue, <1>Resend, <1>RunDone, <1>RequestFailed, <1>OnAccountData, <1>RequestDone,
       <1>ForeignChange DEF Next
  <2> QED BY <2>1, <2>2
<1> QED BY <1>1, <1>2, EchoInvariant, PTL DEF Spec

(* Once nothing is under way the room shows what the server has, or there  *)
(* is a toast.                                                             *)
THEOREM ShownTruly == Spec => []ShownIsTrue
<1>1. EchoInv /\ OneByOne => ShownIsTrue
  <2> SUFFICES ASSUME EchoInv, OneByOne, scenario.serial, Quiet, contextState # "PendingErrors"
               PROVE  Shown = VolumeOf(server)
    BY DEF ShownIsTrue
  <2>1. properties = VolumeOf(server)
    BY DEF OneByOne, Synced, Quiet
  <2>2. CASE cache = 0
    BY <2>1, <2>2 DEF Shown
  <2>3. CASE cache # 0
    <3>1. cache \in DOMAIN txns /\ txns[cache] \in Txn
      BY <2>3 DEF EchoInv, TypeOK
    <3>2. txns[cache].open = {} /\ txns[cache].status # "Pending"
      BY <2>3, <3>1 DEF Quiet, OneByOne, Succeeded
    <3>3. txns[cache].status = "Success"
      <4>1. CASE txns[cache].heard
        BY <2>3, <3>1, <3>2, <4>1 DEF EchoInv, CacheHeard, Txn
      <4>2. CASE ~txns[cache].heard
        BY <2>3, <3>1, <4>2 DEF OneByOne, Hearing, EchoInv, CacheHeard
      <4> QED BY <4>1, <4>2
    <3> QED BY <2>1, <2>3, <3>2, <3>3 DEF OneByOne, Succeeded, Shown
  <2> QED BY <2>2, <2>3
<1> QED BY <1>1, EchoInvariant, OneAfterAnother, PTL

----------------------------------------------------------------------------
(* VOICE MESSAGES: THE STATES THAT THE HANDLERS GO THROUGH *)

QueueState ==
    [playbacks : [Message -> Playback], calls : [Message -> Seq(Call)],
     current : Message \cup {None}, order : Seq(Message), recent : SUBSET Message,
     clocks : SUBSET Message]

(* The Playbacks differ in the source node of m only. *)
Alike(x, y, m) ==
    \A n \in Message :
        /\ y.playbacks[n].state = x.playbacks[n].state
        /\ y.playbacks[n].preparing = x.playbacks[n].preparing
        /\ y.playbacks[n].attached = x.playbacks[n].attached
        /\ y.playbacks[n].running = x.playbacks[n].running
        /\ n # m => y.playbacks[n].source = x.playbacks[n].source

Plays(x, n) == x.playbacks[n].attached /\ x.playbacks[n].state = "playing"

(* m is played, and those that play now are paused, once or twice. *)
PlaysOnly(x, y, m) ==
    /\ Alike(x, y, m)
    /\ y.calls[m] = Append(x.calls[m], "play")
    /\ \A n \in Message \ {m} : ~Plays(x, n) => y.calls[n] = x.calls[n]

(* Every set of natural numbers that has an element has a least one. *)
LEMMA Minimum ==
    ASSUME NEW T \in SUBSET Nat, T # {}
    PROVE  \E n \in T : \A m \in T : n <= m
<1> DEFINE below == {0 .. x : x \in T}
<1>1. below \subseteq FiniteSubsetsOf(Nat)
  <2>1. \A x \in T : 0 .. x \in SUBSET Nat /\ IsFiniteSet(0 .. x)
    BY FS_Interval
  <2> QED BY <2>1 DEF FiniteSubsetsOf
<1>2. below # {}
  OBVIOUS
<1>3. PICK least \in below : \A other \in below : <<other, least>> \notin StrictSubsetOrdering(Nat)
  <2> HIDE DEF below
  <2> QED BY <1>1, <1>2, FS_StrictSubsetOrderingWellFounded, WFMin
<1>4. PICK n \in T : least = 0 .. n
  OBVIOUS
<1>5. ASSUME NEW m \in T PROVE n <= m
  <2>1. <<0 .. m, 0 .. n>> \notin StrictSubsetOrdering(Nat)
    BY <1>3, <1>4
  <2>2. ~(0 .. m \subseteq 0 .. n /\ 0 .. m # 0 .. n)
    BY <2>1 DEF StrictSubsetOrdering
  <2>3. m < n => 0 .. m \subseteq 0 .. n /\ n \in 0 .. n /\ n \notin 0 .. m
    OBVIOUS
  <2> QED BY <2>2, <2>3
<1> QED BY <1>5

(* The next message to be played is one, or there is none. *)
LEMMA NextType ==
    ASSUME voiceScenario \in VoiceScenarios, NEW x, NEW m \in Message
    PROVE  NextIn(x, m) \in Message \cup {None}
<1> DEFINE fresh == {i \in Ahead(m) : voiceScenario.timeline[i] \notin x.recent}
<1>1. PICK t \in Seq(Message \cup {Text}) : t = voiceScenario.timeline
  BY QueueAssumption
<1>2. ASSUME NEW i \in Ahead(m)
      PROVE  i \in DOMAIN t /\ i \in Nat /\ t[i] \in Message
  <2>1. i \in DOMAIN t /\ Follows(i, m) /\ \A j \in 1 .. i : Follows(j, m) => t[j] # Text
    BY <1>1, <1>2 DEF Ahead
  <2>2. i \in Nat /\ i \in 1 .. i /\ t[i] \in Message \cup {Text}
    BY <1>1, <2>1
  <2> QED BY <2>1, <2>2
<1>3. fresh \subseteq Nat
  BY <1>2
<1>4. NextIn(x, m) = IF fresh = {} THEN None
                     ELSE voiceScenario.timeline[CHOOSE i \in fresh : \A j \in fresh : i <= j]
  BY DEF NextIn
<1>5. CASE fresh # {}
  <2>1. \E i \in fresh : \A j \in fresh : i <= j
    <3> HIDE DEF fresh
    <3> QED BY <1>3, <1>5, Minimum
  <2>2. (CHOOSE i \in fresh : \A j \in fresh : i <= j) \in fresh
    <3> HIDE DEF fresh
    <3> QED BY <2>1
  <2> QED BY <1>1, <1>2, <1>4, <1>5, <2>2
<1> QED BY <1>4, <1>5

(* What pauseAllExcept does: the calls of those that play grow, and        *)
(* nothing else changes.                                                   *)
LEMMA PauseIs ==
    ASSUME NEW x \in QueueState, NEW m \in Message
    PROVE  \E y \in QueueState :
             /\ y = PauseAllExcept(x, m)
             /\ y.playbacks = x.playbacks /\ y.current = x.current /\ y.order = x.order
             /\ y.recent = x.recent /\ y.clocks = x.clocks
             /\ \A n \in Message : y.calls[n] = IF n # m /\ Plays(x, n) THEN Append(x.calls[n], "pause")
                                              ELSE x.calls[n]
<1> DEFINE c == [n \in Message |-> IF n # m /\ x.playbacks[n].attached /\ x.playbacks[n].state = "playing"
                                   THEN Append(x.calls[n], "pause") ELSE x.calls[n]]
           y == [x EXCEPT !.calls = c]
<1>1. PauseAllExcept(x, m) = y
  BY DEF PauseAllExcept
<1>2. c \in [Message -> Seq(Call)]
  <2>1. x.calls \in [Message -> Seq(Call)]
    BY DEF QueueState
  <2>2. ASSUME NEW n \in Message PROVE Append(x.calls[n], "pause") \in Seq(Call)
    BY <2>1 DEF Call
  <2> QED BY <2>1, <2>2
<1>3. \A n \in Message : c[n] = IF n # m /\ Plays(x, n) THEN Append(x.calls[n], "pause") ELSE x.calls[n]
  BY DEF Plays
<1> HIDE DEF c
<1>4. y \in QueueState /\ y.calls = c /\ y.playbacks = x.playbacks /\ y.current = x.current
      /\ y.order = x.order /\ y.recent = x.recent /\ y.clocks = x.clocks
  BY <1>2 DEF QueueState
<1> QED BY <1>1, <1>3, <1>4

(* A state in which the Playback and the calls of m are others. *)
With(x, y, m, q, d) ==
    /\ y.playbacks[m] = q /\ y.calls[m] = d
    /\ \A n \in Message \ {m} : y.playbacks[n] = x.playbacks[n] /\ y.calls[n] = x.calls[n]
    /\ y.current = x.current /\ y.order = x.order /\ y.recent = x.recent /\ y.clocks = x.clocks

(* There is such a state. *)
LEMMA WithIs ==
    ASSUME NEW x \in QueueState, NEW m \in Message, NEW q \in Playback, NEW d \in Seq(Call)
    PROVE  \E y \in QueueState :
             y = [x EXCEPT !.playbacks[m] = q, !.calls[m] = d] /\ With(x, y, m, q, d)
<1>1. PICK p \in [Message -> Playback] : p = x.playbacks
  BY DEF QueueState
<1>2. PICK c \in [Message -> Seq(Call)] : c = x.calls
  BY DEF QueueState
<1>3. PICK ps \in [Message -> Playback] : ps = [p EXCEPT ![m] = q]
  OBVIOUS
<1>4. PICK cs \in [Message -> Seq(Call)] : cs = [c EXCEPT ![m] = d]
  OBVIOUS
<1>5. PICK y \in QueueState : y = [x EXCEPT !.playbacks = ps, !.calls = cs]
  BY DEF QueueState
<1>6. /\ y.playbacks = ps /\ y.calls = cs
      /\ y.current = x.current /\ y.order = x.order /\ y.recent = x.recent /\ y.clocks = x.clocks
  BY <1>5 DEF QueueState
<1>7. y = [x EXCEPT !.playbacks[m] = q, !.calls[m] = d]
  BY <1>1, <1>2, <1>3, <1>4, <1>5
<1>8. With(x, y, m, q, d)
  BY <1>1, <1>2, <1>3, <1>4, <1>6 DEF With
<1> QED BY <1>7, <1>8

(* There is one in which only the Playback is another. *)
LEMMA OtherIs ==
    ASSUME NEW x \in QueueState, NEW m \in Message, NEW q \in Playback
    PROVE  \E y \in QueueState :
             y = [x EXCEPT !.playbacks[m] = q] /\ y.calls = x.calls /\ With(x, y, m, q, x.calls[m])
<1>1. PICK p \in [Message -> Playback] : p = x.playbacks
  BY DEF QueueState
<1>2. PICK ps \in [Message -> Playback] : ps = [p EXCEPT ![m] = q]
  OBVIOUS
<1>3. PICK y \in QueueState : y = [x EXCEPT !.playbacks = ps]
  BY DEF QueueState
<1>4. /\ y.playbacks = ps /\ y.calls = x.calls
      /\ y.current = x.current /\ y.order = x.order /\ y.recent = x.recent /\ y.clocks = x.clocks
  BY <1>3 DEF QueueState
<1>5. y = [x EXCEPT !.playbacks[m] = q]
  BY <1>1, <1>2, <1>3
<1>6. With(x, y, m, q, x.calls[m])
  BY <1>1, <1>2, <1>4 DEF With
<1> QED BY <1>4, <1>5, <1>6

(* Another source node, and one call more. *)
Sourced(x, m, b, what) == [x EXCEPT !.playbacks[m].source = b, !.calls[m] = Append(@, what)]

(* What has changed then. *)
LEMMA SourceIs ==
    ASSUME NEW x \in QueueState, NEW m \in Message, NEW b \in BOOLEAN, NEW what \in Call
    PROVE  \E y \in QueueState :
             /\ y = Sourced(x, m, b, what)
             /\ Alike(x, y, m) /\ y.playbacks[m].source = b
             /\ y.current = x.current /\ y.order = x.order /\ y.recent = x.recent /\ y.clocks = x.clocks
             /\ y.calls[m] = Append(x.calls[m], what)
             /\ \A n \in Message \ {m} : y.calls[n] = x.calls[n]
<1>1. x.playbacks[m] \in Playback /\ x.calls[m] \in Seq(Call)
  BY DEF QueueState
<1>2. PICK q \in Playback : q = [x.playbacks[m] EXCEPT !.source = b]
  BY <1>1 DEF Playback
<1>3. /\ q.source = b /\ q.state = x.playbacks[m].state /\ q.preparing = x.playbacks[m].preparing
      /\ q.attached = x.playbacks[m].attached /\ q.running = x.playbacks[m].running
  BY <1>1, <1>2 DEF Playback
<1>4. PICK d \in Seq(Call) : d = Append(x.calls[m], what)
  <2>1. Append(x.calls[m], what) \in Seq(Call)
    BY <1>1
  <2> QED BY <2>1
<1>5. PICK y \in QueueState :
        y = [x EXCEPT !.playbacks[m] = q, !.calls[m] = d] /\ With(x, y, m, q, d)
  BY WithIs
<1>6. y = Sourced(x, m, b, what)
  BY <1>2, <1>4, <1>5 DEF Sourced
<1>7. Alike(x, y, m)
  BY <1>3, <1>5 DEF Alike, With
<1> QED BY <1>3, <1>4, <1>5, <1>6, <1>7 DEF With

(* What the own part of play does. *)
LEMMA StartIs ==
    ASSUME NEW x \in QueueState, NEW m \in Message
    PROVE  \E y \in QueueState :
             /\ y = Start(x, m) /\ Alike(x, y, m)
             /\ y.current = x.current /\ y.order = x.order /\ y.recent = x.recent /\ y.clocks = x.clocks
             /\ y.calls[m] = Append(x.calls[m], "play")
             /\ \A n \in Message \ {m} : y.calls[n] = x.calls[n]
<1>1. PICK b \in BOOLEAN : b = (x.playbacks[m].source \/ x.playbacks[m].state = "stopped")
  OBVIOUS
<1>2. PICK what \in Call : what = "play"
  BY DEF Call
<1>3. PICK y \in QueueState :
        /\ y = Sourced(x, m, b, what)
        /\ Alike(x, y, m) /\ y.playbacks[m].source = b
        /\ y.current = x.current /\ y.order = x.order /\ y.recent = x.recent /\ y.clocks = x.clocks
        /\ y.calls[m] = Append(x.calls[m], what)
        /\ \A n \in Message \ {m} : y.calls[n] = x.calls[n]
  BY SourceIs
<1>4. y = Start(x, m)
  BY <1>1, <1>2, <1>3 DEF Start, Sourced
<1> QED BY <1>2, <1>3, <1>4

(* What skipTo does. *)
LEMMA SkipToIs ==
    ASSUME NEW x \in QueueState, NEW m \in Message
    PROVE  \E y \in QueueState :
             /\ y = SkipTo(x, m) /\ Alike(x, y, m)
             /\ y.current = x.current /\ y.order = x.order /\ y.recent = x.recent /\ y.clocks = x.clocks
             /\ y.calls[m] = Append(x.calls[m], "pause")
             /\ \A n \in Message \ {m} : y.calls[n] = x.calls[n]
<1>1. PICK b \in BOOLEAN : b = TRUE
  OBVIOUS
<1>2. PICK what \in Call : what = "pause"
  BY DEF Call
<1>3. PICK y \in QueueState :
        /\ y = Sourced(x, m, b, what)
        /\ Alike(x, y, m) /\ y.playbacks[m].source = b
        /\ y.current = x.current /\ y.order = x.order /\ y.recent = x.recent /\ y.clocks = x.clocks
        /\ y.calls[m] = Append(x.calls[m], what)
        /\ \A n \in Message \ {m} : y.calls[n] = x.calls[n]
  BY SourceIs
<1>4. y = SkipTo(x, m)
  BY <1>1, <1>2, <1>3 DEF SkipTo, Sourced
<1> QED BY <1>2, <1>3, <1>4

(* What play does: m is to be played, and those that play are to be        *)
(* paused.                                                                 *)
LEMMA PlayIs ==
    ASSUME NEW x \in QueueState, NEW m \in Message
    PROVE  \E y \in QueueState :
             /\ y = Play(x, m) /\ PlaysOnly(x, y, m) /\ y.current = x.current /\ y.clocks = x.clocks
             /\ \A n \in Message \ {m} : Plays(x, n) => y.calls[n] = Append(x.calls[n], "pause")
<1>1. PICK w \in QueueState :
        /\ w = PauseAllExcept(x, m)
        /\ w.playbacks = x.playbacks /\ w.current = x.current /\ w.order = x.order
        /\ w.recent = x.recent /\ w.clocks = x.clocks
        /\ \A n \in Message : w.calls[n] = IF n # m /\ Plays(x, n) THEN Append(x.calls[n], "pause")
                                         ELSE x.calls[n]
  BY PauseIs
<1>2. PICK y \in QueueState :
        /\ y = Start(w, m) /\ Alike(w, y, m)
        /\ y.current = w.current /\ y.order = w.order /\ y.recent = w.recent /\ y.clocks = w.clocks
        /\ y.calls[m] = Append(w.calls[m], "play")
        /\ \A n \in Message \ {m} : y.calls[n] = w.calls[n]
  BY StartIs
<1>3. y = Play(x, m)
  BY <1>1, <1>2 DEF Play
<1>4. Alike(x, y, m)
  BY <1>1, <1>2 DEF Alike
<1>5. PlaysOnly(x, y, m)
  BY <1>1, <1>2, <1>4 DEF PlaysOnly
<1> QED BY <1>1, <1>2, <1>3, <1>5

(* What playing the next one does. *)
LEMMA PlayNextIs ==
    ASSUME NEW x \in QueueState, NEW m \in Message
    PROVE  \E y \in QueueState :
             y = PlayNext(x, m) /\ PlaysOnly(x, y, m) /\ y.current = x.current /\ y.clocks = x.clocks
<1>1. PICK w \in QueueState :
        /\ w = PauseAllExcept(x, m)
        /\ w.playbacks = x.playbacks /\ w.current = x.current /\ w.order = x.order
        /\ w.recent = x.recent /\ w.clocks = x.clocks
        /\ \A n \in Message : w.calls[n] = IF n # m /\ Plays(x, n) THEN Append(x.calls[n], "pause")
                                         ELSE x.calls[n]
  BY PauseIs
<1>2. PICK y \in QueueState :
        y = Play(w, m) /\ PlaysOnly(w, y, m) /\ y.current = w.current /\ y.clocks = w.clocks
  BY PlayIs
<1>3. y = PlayNext(x, m)
  BY <1>1, <1>2 DEF PlayNext
<1>4. Alike(x, y, m)
  BY <1>1, <1>2 DEF Alike, PlaysOnly
<1>5. PlaysOnly(x, y, m)
  BY <1>1, <1>2, <1>4 DEF PlaysOnly, Plays
<1> QED BY <1>1, <1>2, <1>3, <1>5

(* Nothing is done to a Playback. *)
Rests(x, y) == y.playbacks = x.playbacks /\ y.calls = x.calls

(* The parts of the order are of its type. *)
LEMMA EndsOf ==
    ASSUME NEW s \in Seq(Message), s # <<>>
    PROVE  Front(s) \in Seq(Message) /\ Last(s) \in Message
<1>1. Len(s) \in Nat /\ Len(s) # 0
  OBVIOUS
<1>2. Len(s) \in 1 .. Len(s) /\ 1 \in Nat
  BY <1>1
<1>3. Last(s) \in Message
  BY <1>2 DEF Last
<1>4. SubSeq(s, 1, Len(s) - 1) \in Seq(Message)
  BY <1>1
<1> QED BY <1>3, <1>4 DEF Front

(* When the current message has stopped, the queue rests or plays one      *)
(* message.                                                                *)
LEMMA PlayAfterIs ==
    ASSUME voiceScenario \in VoiceScenarios, NEW x \in QueueState, NEW m \in Message
    PROVE  \E y \in QueueState :
             /\ y = PlayAfter(x, m) /\ y.current = x.current /\ y.clocks = x.clocks
             /\ Rests(x, y) \/ \E n \in Message : PlaysOnly(x, y, n)
<1>1. PICK w \in QueueState :
        /\ w = [x EXCEPT !.recent = @ \cup {m}]
        /\ w.playbacks = x.playbacks /\ w.calls = x.calls
        /\ w.current = x.current /\ w.clocks = x.clocks /\ w.order = x.order
  <2>1. PICK w0 \in QueueState : w0 = [x EXCEPT !.recent = @ \cup {m}]
    BY DEF QueueState
  <2>2. /\ w0.playbacks = x.playbacks /\ w0.calls = x.calls
        /\ w0.current = x.current /\ w0.clocks = x.clocks /\ w0.order = x.order
    BY <2>1 DEF QueueState
  <2> QED BY <2>1, <2>2
<1>2. PICK order \in Seq(Message) : order = x.order
  BY DEF QueueState
<1>3. PICK next \in Message \cup {None} : next = NextIn(w, m)
  BY NextType
<1>4. CASE order = <<>> \/ Last(order) # m
  <2>1. PlayAfter(x, m) = w
    BY <1>1, <1>2, <1>4 DEF PlayAfter
  <2> QED BY <1>1, <2>1 DEF Rests
<1>5. CASE order # <<>> /\ Last(order) = m
  <2>1. PICK before \in Seq(Message) : before = Front(order)
    BY <1>5, EndsOf
  <2>2. PlayAfter(x, m) =
          IF before # <<>> THEN PlayNext([w EXCEPT !.order = Front(before)], Last(before))
          ELSE IF next = None THEN [w EXCEPT !.recent = {}, !.order = <<>>]
          ELSE PlayNext([w EXCEPT !.order = <<>>], next)
    BY <1>1, <1>2, <1>3, <1>5, <2>1 DEF PlayAfter
  <2>3. ASSUME NEW rest \in Seq(Message), NEW n \in Message
        PROVE  \E y \in QueueState :
                 /\ y = PlayNext([w EXCEPT !.order = rest], n) /\ y.current = x.current
                 /\ y.clocks = x.clocks /\ PlaysOnly(x, y, n)
    <3>1. PICK v \in QueueState :
            /\ v = [w EXCEPT !.order = rest]
            /\ v.playbacks = w.playbacks /\ v.calls = w.calls
            /\ v.current = w.current /\ v.clocks = w.clocks
      <4>1. PICK v0 \in QueueState : v0 = [w EXCEPT !.order = rest]
        BY DEF QueueState
      <4>2. /\ v0.playbacks = w.playbacks /\ v0.calls = w.calls
            /\ v0.current = w.current /\ v0.clocks = w.clocks
        BY <4>1 DEF QueueState
      <4> QED BY <4>1, <4>2
    <3>2. PICK y \in QueueState :
            y = PlayNext(v, n) /\ PlaysOnly(v, y, n) /\ y.current = v.current /\ y.clocks = v.clocks
      BY PlayNextIs
    <3>3. PlaysOnly(x, y, n)
      BY <1>1, <3>1, <3>2 DEF PlaysOnly, Plays, Alike
    <3> QED BY <1>1, <3>1, <3>2, <3>3
  <2>4. CASE before # <<>>
    <3>1. PICK rest \in Seq(Message), n \in Message : rest = Front(before) /\ n = Last(before)
      BY <2>4, EndsOf
    <3>2. PlayAfter(x, m) = PlayNext([w EXCEPT !.order = rest], n)
      BY <2>2, <2>4, <3>1
    <3> QED BY <2>3, <3>2
  <2>5. CASE before = <<>> /\ next = None
    <3>1. PICK y \in QueueState :
            /\ y = [w EXCEPT !.recent = {}, !.order = <<>>]
            /\ y.playbacks = w.playbacks /\ y.calls = w.calls
            /\ y.current = w.current /\ y.clocks = w.clocks
      <4>1. PICK y0 \in QueueState : y0 = [w EXCEPT !.recent = {}, !.order = <<>>]
        <5>1. \E none : none = {}
          OBVIOUS
        <5>2. PICK recent : recent = {}
          BY <5>1
        <5>3. PICK rest \in Seq(Message) : rest = <<>>
          <6>1. <<>> \in Seq(Message)
            OBVIOUS
          <6> QED BY <6>1
        <5>4. recent \in SUBSET Message
          BY <5>2
        <5>5. [w EXCEPT !.recent = recent, !.order = rest] \in QueueState
          BY <5>4 DEF QueueState
        <5> QED BY <5>2, <5>3, <5>5
      <4>2. /\ y0.playbacks = w.playbacks /\ y0.calls = w.calls
            /\ y0.current = w.current /\ y0.clocks = w.clocks
        BY <4>1 DEF QueueState
      <4> QED BY <4>1, <4>2
    <3> QED BY <1>1, <2>2, <2>5, <3>1 DEF Rests
  <2>6. CASE before = <<>> /\ next # None
    <3>1. PICK rest \in Seq(Message), n \in Message : rest = <<>> /\ n = next
      BY <1>3, <2>6
    <3>2. PlayAfter(x, m) = PlayNext([w EXCEPT !.order = rest], n)
      BY <2>2, <2>6, <3>1
    <3> QED BY <2>3, <3>2
  <2> QED BY <2>4, <2>5, <2>6
<1> QED BY <1>2, <1>4, <1>5

(* What the queue does when m has stopped. *)
Stopping(x, y, m) ==
    /\ y.current = x.current
    /\ \/ Rests(x, y) /\ (y.clocks = x.clocks \/ (x.current = m /\ y.clocks = x.clocks \ {m}))
       \/ /\ y.clocks = x.clocks /\ Alike(x, y, m)
          /\ y.calls[m] = Append(x.calls[m], "pause")
          /\ \A n \in Message \ {m} : y.calls[n] = x.calls[n]
       \/ /\ x.current = m /\ y.clocks = x.clocks \ {m}
          /\ \E n \in Message : PlaysOnly(x, y, n)

(* What the queue does when a message has stopped is one of these. *)
LEMMA OnStoppedIs ==
    ASSUME voiceScenario \in VoiceScenarios, NEW x \in QueueState, NEW m \in Message
    PROVE  \E y \in QueueState : y = OnStopped(x, m) /\ Stopping(x, y, m)
<1>1. CASE m \in x.clocks /\ x.current # m
  <2>1. PICK y \in QueueState :
             /\ y = SkipTo(x, m) /\ Alike(x, y, m)
             /\ y.current = x.current /\ y.order = x.order /\ y.recent = x.recent /\ y.clocks = x.clocks
             /\ y.calls[m] = Append(x.calls[m], "pause")
             /\ \A n \in Message \ {m} : y.calls[n] = x.calls[n]
    BY SkipToIs
  <2>2. y = OnStopped(x, m)
    BY <1>1, <2>1 DEF OnStopped
  <2> QED BY <2>1, <2>2 DEF Stopping
<1>2. CASE ~(m \in x.clocks /\ x.current # m)
  <2>1. PICK w \in QueueState :
          /\ w = [x EXCEPT !.clocks = @ \ {m}]
          /\ w.playbacks = x.playbacks /\ w.calls = x.calls
          /\ w.current = x.current /\ w.clocks = x.clocks \ {m}
    <3>1. PICK w0 \in QueueState : w0 = [x EXCEPT !.clocks = @ \ {m}]
      BY DEF QueueState
    <3>2. /\ w0.playbacks = x.playbacks /\ w0.calls = x.calls
          /\ w0.current = x.current /\ w0.clocks = x.clocks \ {m}
      BY <3>1 DEF QueueState
    <3> QED BY <3>1, <3>2
  <2>2. OnStopped(x, m) = IF x.current = m THEN PlayAfter(w, m) ELSE w
    BY <1>2, <2>1 DEF OnStopped
  <2>3. CASE x.current # m
    <3>1. w.clocks = x.clocks
      BY <1>2, <2>1, <2>3
    <3> QED BY <2>1, <2>2, <2>3, <3>1 DEF Stopping, Rests
  <2>4. CASE x.current = m
    <3>1. PICK y \in QueueState :
             /\ y = PlayAfter(w, m) /\ y.current = w.current /\ y.clocks = w.clocks
             /\ Rests(w, y) \/ \E n \in Message : PlaysOnly(w, y, n)
      BY PlayAfterIs
    <3>2. Rests(x, y) \/ \E n \in Message : PlaysOnly(x, y, n)
      <4>1. Rests(w, y) => Rests(x, y)
        BY <2>1 DEF Rests
      <4>2. ASSUME NEW n \in Message, PlaysOnly(w, y, n) PROVE PlaysOnly(x, y, n)
        BY <2>1, <4>2 DEF PlaysOnly, Plays, Alike
      <4> QED BY <3>1, <4>1, <4>2
    <3> QED BY <2>1, <2>2, <2>4, <3>1, <3>2 DEF Stopping
  <2> QED BY <2>3, <2>4
<1> QED BY <1>1, <1>2

(* A message that is pushed to the order keeps its type. *)
LEMMA PushedIs ==
    ASSUME NEW order \in Seq(Message), NEW m \in Message
    PROVE  Pushed(order, m) \in Seq(Message)
BY DEF Pushed

(* When a message plays, the queue only notes it. *)
LEMMA OnPlayingIs ==
    ASSUME NEW x \in QueueState, NEW m \in Message
    PROVE  \E y \in QueueState : y = OnPlaying(x, m) /\ Rests(x, y) /\ y.clocks = x.clocks
<1>1. PICK order \in Seq(Message) :
        order = IF Interrupted(x, m) THEN Pushed(x.order, x.current) ELSE x.order
  <2>1. x.order \in Seq(Message) /\ x.current \in Message \cup {None}
    BY DEF QueueState
  <2>2. Interrupted(x, m) => x.current \in Message
    BY <2>1 DEF Interrupted
  <2> QED BY <2>1, <2>2, PushedIs
<1>2. PICK pushed \in Seq(Message) : pushed = Pushed(order, m)
  BY PushedIs
<1>3. PICK y \in QueueState :
        /\ y = [x EXCEPT !.current = m, !.order = pushed]
        /\ y.playbacks = x.playbacks /\ y.calls = x.calls /\ y.clocks = x.clocks
  <2>1. PICK y0 \in QueueState : y0 = [x EXCEPT !.current = m, !.order = pushed]
    BY DEF QueueState
  <2>2. /\ y0.playbacks = x.playbacks /\ y0.calls = x.calls /\ y0.clocks = x.clocks
    BY <2>1 DEF QueueState
  <2> QED BY <2>1, <2>2
<1>4. y = OnPlaying(x, m)
  BY <1>1, <1>2, <1>3 DEF OnPlaying
<1> QED BY <1>3, <1>4 DEF Rests

(* m is in another state, and nothing else has changed. *)
StateIs(x, w, m, st) ==
    /\ w.calls = x.calls /\ w.current = x.current /\ w.clocks = x.clocks
    /\ w.playbacks[m].state = st
    /\ w.playbacks[m].source = x.playbacks[m].source
    /\ w.playbacks[m].preparing = x.playbacks[m].preparing
    /\ w.playbacks[m].attached = x.playbacks[m].attached
    /\ w.playbacks[m].running = x.playbacks[m].running
    /\ \A n \in Message \ {m} : w.playbacks[n] = x.playbacks[n]

(* What the queue does about it. *)
Reacting(w, y, m, st) ==
    \/ Rests(w, y) /\ y.clocks = w.clocks /\ (st = "playing" \/ y.current = w.current)
    \/ st = "stopped" /\ w.playbacks[m].attached /\ Stopping(w, y, m)

(* What emit does: m is in another state, and the queue reacts. *)
LEMMA EmitIs ==
    ASSUME voiceScenario \in VoiceScenarios, NEW x \in QueueState, NEW m \in Message,
           NEW st \in {"stopped", "paused", "playing"}
    PROVE  \E w, y \in QueueState :
             y = Emit(x, m, st) /\ StateIs(x, w, m, st) /\ Reacting(w, y, m, st)
<1>1. x.playbacks[m] \in Playback
  BY DEF QueueState
<1>2. PICK q \in Playback : q = [x.playbacks[m] EXCEPT !.state = st]
  BY <1>1 DEF Playback
<1>3. /\ q.state = st /\ q.preparing = x.playbacks[m].preparing /\ q.running = x.playbacks[m].running
      /\ q.attached = x.playbacks[m].attached /\ q.source = x.playbacks[m].source
  BY <1>1, <1>2 DEF Playback
<1>4. PICK w \in QueueState :
        w = [x EXCEPT !.playbacks[m] = q] /\ w.calls = x.calls /\ With(x, w, m, q, x.calls[m])
  BY OtherIs
<1>5. w = [x EXCEPT !.playbacks[m].state = st]
  BY <1>2, <1>4
<1>6. StateIs(x, w, m, st)
  BY <1>3, <1>4 DEF StateIs, With
<1>7. Emit(x, m, st) = IF ~w.playbacks[m].attached THEN w
                       ELSE IF st = "stopped" THEN OnStopped(w, m)
                       ELSE IF st = "playing" THEN OnPlaying(w, m) ELSE w
  BY <1>5 DEF Emit
<1>8. CASE w.playbacks[m].attached /\ st = "stopped"
  <2>1. PICK y \in QueueState : y = OnStopped(w, m) /\ Stopping(w, y, m)
    BY OnStoppedIs
  <2> QED BY <1>6, <1>7, <1>8, <2>1 DEF Reacting
<1>9. CASE w.playbacks[m].attached /\ st = "playing"
  <2>1. PICK y \in QueueState : y = OnPlaying(w, m) /\ Rests(w, y) /\ y.clocks = w.clocks
    BY OnPlayingIs
  <2> QED BY <1>6, <1>7, <1>9, <2>1 DEF Reacting
<1>10. CASE ~w.playbacks[m].attached \/ st = "paused"
  <2>1. Emit(x, m, st) = w
    BY <1>7, <1>10
  <2> QED BY <1>6, <2>1 DEF Reacting, Rests
<1> QED BY <1>8, <1>9, <1>10

----------------------------------------------------------------------------
(* VOICE MESSAGES: THE INDUCTIVE INVARIANT *)

(* What a message is going to do when its calls have settled. *)
WillPlay(m) == IF calls[m] = <<>> THEN playbacks[m].state = "playing" ELSE calls[m] = <<"play">>

(* One call at a time waits for an AudioContext, which runs while its      *)
(* message plays, and the messages are mounted together.                   *)
Alone ==
    \A m \in Message :
        /\ calls[m] \in {<<>>, <<"play">>, <<"pause">>, <<"end">>}
        /\ playbacks[m].running <=> playbacks[m].state = "playing"
Together == \A m, n \in Message : playbacks[m].attached => playbacks[n].attached

(* One message at most is going to play, and none that was destroyed.      *)
OneWill ==
    /\ \A m, n \in Message : WillPlay(m) /\ WillPlay(n) => m = n
    /\ \A m \in Message : WillPlay(m) => playbacks[m].attached

(* While a message comes to its end nothing else happens.                  *)
Ending ==
    \A m \in Message :
        playbacks[m].attached /\ calls[m] = <<"end">> =>
            /\ ~playbacks[m].source /\ m \notin partly
            /\ \A n \in Message \ {m} : calls[n] = <<>> /\ playbacks[n].state # "playing"

(* Nothing has been played before all messages are decoded.                *)
Preparing ==
    \A m \in Message :
        playbacks[m].preparing =>
            /\ playbacks[m].attached /\ calls[m] = <<>> /\ currentPlaybackId = None
            /\ \A n \in Message : ~WillPlay(n) /\ calls[n] # <<"end">>

WaitingInv == Alone /\ Together /\ OneWill /\ Ending /\ Preparing /\ partly \subseteq clockStates

VoicesInv == VoicesTypeOK /\ (Waiting => WaitingInv)

(* The calls that may wait, and what is left of them. *)
LEMMA CallsDiffer ==
    /\ Append(<<>>, "play") = <<"play">> /\ Append(<<>>, "pause") = <<"pause">>
    /\ Append(<<>>, "end") = <<"end">>
    /\ Tail(<<"play">>) = <<>> /\ Tail(<<"pause">>) = <<>> /\ Tail(<<"end">>) = <<>>
    /\ Head(<<"play">>) = "play" /\ Head(<<"pause">>) = "pause" /\ Head(<<"end">>) = "end"
    /\ <<"play">> # <<>> /\ <<"pause">> # <<>> /\ <<"end">> # <<>>
    /\ <<"play">> # <<"pause">> /\ <<"play">> # <<"end">> /\ <<"pause">> # <<"end">>
OBVIOUS

(* The state that the variables are. *)
IsNow(x) ==
    /\ x = Now /\ x.playbacks = playbacks /\ x.calls = calls
    /\ x.current = currentPlaybackId /\ x.clocks = clockStates

(* The variables are a state of the queue. *)
LEMMA NowIs ==
    ASSUME VoicesTypeOK
    PROVE  \E x \in QueueState : IsNow(x)
<1>1. Now \in QueueState
  BY DEF VoicesTypeOK, Now, QueueState
<1>2. PICK x \in QueueState : x = Now
  BY <1>1
<1> QED BY <1>2 DEF IsNow, Now

(* The types are kept by a step to a state of the queue. *)
LEMMA BecomesType ==
    ASSUME VoicesTypeOK, NEW y \in QueueState, Becomes(y), partly' \subseteq Message,
           voiceCount' \in [{"clicks", "mounts", "visits"} -> Nat],
           UNCHANGED voiceScenario
    PROVE  VoicesTypeOK'
BY DEF VoicesTypeOK, Becomes, QueueState

(* A bound that is counted is still a number. *)
LEMMA OnceType ==
    ASSUME VoicesTypeOK, NEW what \in {"clicks", "mounts", "visits"}, Once(what)
    PROVE  voiceCount' \in [{"clicks", "mounts", "visits"} -> Nat]
<1>1. voiceCount[what] \in Nat
  BY DEF VoicesTypeOK
<1>2. voiceCount[what] + 1 \in Nat
  BY <1>1
<1> QED BY <1>2 DEF Once, VoicesTypeOK

(* What is so when nothing is under way. *)
LEMMA AtRest ==
    ASSUME VoicesInv, Waiting, InTime
    PROVE  /\ WaitingInv /\ NothingUnderWay
           /\ \A n \in Message :
                /\ calls[n] = <<>> /\ ~playbacks[n].preparing
                /\ WillPlay(n) <=> playbacks[n].state = "playing"
                /\ playbacks[n].state = "playing" => playbacks[n].attached
           /\ \A n, k \in Message :
                playbacks[n].state = "playing" /\ playbacks[k].state = "playing" => n = k
<1>1. WaitingInv
  BY DEF VoicesInv
<1>2. \A n \in Message : calls[n] = <<>> /\ ~playbacks[n].preparing
  BY DEF InTime, Waiting, NothingUnderWay
<1> QED BY <1>1, <1>2 DEF WaitingInv, NothingUnderWay, WillPlay, OneWill

(* The scenario never changes, and so whether the user waits. *)
LEMMA WaitingSame ==
    ASSUME UNCHANGED voiceScenario
    PROVE  Waiting' <=> Waiting
BY DEF Waiting

(* The Playbacks differ in their source nodes only. *)
SamePlaybacks ==
    \A n \in Message :
        /\ playbacks'[n].state = playbacks[n].state
        /\ playbacks'[n].running = playbacks[n].running
        /\ playbacks'[n].attached = playbacks[n].attached
        /\ playbacks'[n].preparing = playbacks[n].preparing

(* A pause of m begins, and nothing else is under way. *)
LEMMA PauseKeeps ==
    ASSUME VoicesInv, Waiting, InTime, NEW m \in Message, SamePlaybacks,
           UNCHANGED <<clockStates, currentPlaybackId, partly>>,
           calls'[m] = <<"pause">>, \A n \in Message \ {m} : calls'[n] = <<>>
    PROVE  WaitingInv'
<1>1. Alone'
  BY AtRest DEF SamePlaybacks, Alone, WaitingInv
<1>2. Together'
  BY AtRest DEF SamePlaybacks, Together, WaitingInv
<1>3. \A n \in Message : WillPlay(n)' => WillPlay(n) /\ playbacks'[n].attached = playbacks[n].attached
  BY AtRest, CallsDiffer DEF SamePlaybacks, WillPlay
<1>4. OneWill'
  BY <1>3, AtRest DEF OneWill, WaitingInv
<1>5. Ending'
  BY CallsDiffer DEF Ending
<1>6. Preparing'
  BY AtRest DEF SamePlaybacks, Preparing
<1> QED BY <1>1, <1>2, <1>4, <1>5, <1>6, AtRest DEF WaitingInv

(* A click plays m and pauses the others, or pauses m. *)
LEMMA ToggleKeeps ==
    ASSUME VoicesInv, NEW m \in Message, Toggle(m)
    PROVE  VoicesInv'
<1>0. VoicesTypeOK /\ UNCHANGED <<partly, voiceScenario>> /\ InTime
  BY DEF VoicesInv, Toggle
<1>1. PICK x \in QueueState : IsNow(x)
  BY <1>0, NowIs
<1>2. CASE playbacks[m].state = "playing"
  <2>1. x.calls[m] \in Seq(Call)
    BY DEF QueueState
  <2>2. PICK d \in Seq(Call) : d = Append(x.calls[m], "pause")
    <3>1. Append(x.calls[m], "pause") \in Seq(Call)
      BY <2>1 DEF Call
    <3> QED BY <3>1
  <2>3. PICK q \in Playback : q = x.playbacks[m]
    BY DEF QueueState
  <2>4. PICK y \in QueueState :
          y = [x EXCEPT !.playbacks[m] = q, !.calls[m] = d] /\ With(x, y, m, q, d)
    BY WithIs
  <2>5. y = [Now EXCEPT !.calls[m] = Append(@, "pause")]
    <3>1. x.playbacks = [x.playbacks EXCEPT ![m] = q]
      BY <2>3 DEF QueueState
    <3>2. x = [x EXCEPT !.playbacks[m] = q]
      BY <3>1 DEF QueueState
    <3>3. y = [x EXCEPT !.calls[m] = d]
      BY <2>4, <3>2
    <3> QED BY <1>1, <2>2, <3>3 DEF IsNow
  <2>6. Becomes(y)
    BY <1>2, <2>5 DEF Toggle
  <2>7. VoicesTypeOK'
    BY <1>0, <2>6, BecomesType, OnceType DEF VoicesTypeOK, Toggle
  <2>8. ASSUME Waiting PROVE WaitingInv'
    <3>1. /\ \A n \in Message : playbacks'[n] = playbacks[n]
          /\ clockStates' = clockStates /\ currentPlaybackId' = currentPlaybackId
          /\ calls'[m] = <<"pause">> /\ \A n \in Message \ {m} : calls'[n] = <<>>
      <4>1. \A n \in Message : x.calls[n] = <<>>
        BY <1>0, <1>1, <2>8, AtRest DEF IsNow
      <4>2. d = <<"pause">>
        BY <2>2, <4>1, CallsDiffer
      <4>3. /\ playbacks' = y.playbacks /\ calls' = y.calls
            /\ clockStates' = y.clocks /\ currentPlaybackId' = y.current
        BY <2>6 DEF Becomes
      <4> QED BY <1>1, <2>3, <2>4, <4>1, <4>2, <4>3 DEF With, IsNow
    <3>2. SamePlaybacks
      BY <3>1 DEF SamePlaybacks
    <3> QED BY <1>0, <2>8, <3>1, <3>2, PauseKeeps
  <2> QED BY <1>0, <2>7, <2>8, WaitingSame DEF VoicesInv
<1>3. CASE playbacks[m].state # "playing"
  <2>1. PICK y \in QueueState :
             /\ y = Play(x, m) /\ PlaysOnly(x, y, m) /\ y.current = x.current /\ y.clocks = x.clocks
             /\ \A n \in Message \ {m} : Plays(x, n) => y.calls[n] = Append(x.calls[n], "pause")
    BY PlayIs
  <2>2. Becomes(y)
    BY <1>1, <1>3, <2>1 DEF Toggle, IsNow
  <2>3. VoicesTypeOK'
    BY <1>0, <2>2, BecomesType, OnceType DEF VoicesTypeOK, Toggle
  <2>4. ASSUME Waiting PROVE WaitingInv'
    <3>1. SamePlaybacks /\ UNCHANGED <<clockStates, currentPlaybackId>>
      BY <1>1, <2>1, <2>2 DEF Becomes, IsNow, PlaysOnly, Alike, SamePlaybacks
    <3>2. /\ calls'[m] = <<"play">>
          /\ \A n \in Message \ {m} :
               calls'[n] = IF playbacks[n].state = "playing" THEN <<"pause">> ELSE <<>>
      BY <1>0, <1>1, <2>1, <2>2, <2>4, AtRest, CallsDiffer DEF Becomes, IsNow, PlaysOnly, Plays
    <3>3. Alone'
      BY <1>0, <2>4, <3>1, <3>2, AtRest DEF SamePlaybacks, Alone, WaitingInv
    <3>4. Together'
      BY <1>0, <2>4, <3>1, AtRest DEF SamePlaybacks, Together, WaitingInv
    <3>5. \A n \in Message : WillPlay(n)' => n = m
      BY <3>1, <3>2, CallsDiffer DEF SamePlaybacks, WillPlay
    <3>6. playbacks'[m].attached
      BY <3>1 DEF SamePlaybacks, Toggle
    <3>7. OneWill'
      BY <3>5, <3>6 DEF OneWill
    <3>8. Ending'
      BY <3>2, CallsDiffer DEF Ending
    <3>9. Preparing'
      BY <1>0, <2>4, <3>1, AtRest DEF SamePlaybacks, Preparing
    <3> QED BY <1>0, <2>4, <3>1, <3>3, <3>4, <3>7, <3>8, <3>9, AtRest DEF WaitingInv
  <2> QED BY <1>0, <2>3, <2>4, WaitingSame DEF VoicesInv
<1> QED BY <1>2, <1>3

(* The seek bar moves a message that does not play, and pauses it. *)
LEMMA SeekKeeps ==
    ASSUME VoicesInv, NEW m \in Message, Seek(m)
    PROVE  VoicesInv'
<1>1. VoicesTypeOK /\ UNCHANGED <<partly, voiceScenario>> /\ InTime
  BY DEF VoicesInv, Seek
<1>2. PICK x \in QueueState : IsNow(x)
  BY <1>1, NowIs
<1>3. PICK y \in QueueState :
             /\ y = SkipTo(x, m) /\ Alike(x, y, m)
             /\ y.current = x.current /\ y.order = x.order /\ y.recent = x.recent /\ y.clocks = x.clocks
             /\ y.calls[m] = Append(x.calls[m], "pause")
             /\ \A n \in Message \ {m} : y.calls[n] = x.calls[n]
  BY SkipToIs
<1>4. Becomes(y)
  BY <1>2, <1>3 DEF Seek, IsNow
<1>5. VoicesTypeOK'
  BY <1>1, <1>4, BecomesType, OnceType DEF VoicesTypeOK, Seek
<1>6. ASSUME Waiting PROVE WaitingInv'
  <2>1. SamePlaybacks /\ UNCHANGED <<clockStates, currentPlaybackId>>
    BY <1>2, <1>3, <1>4 DEF Becomes, IsNow, Alike, SamePlaybacks
  <2>2. calls'[m] = <<"pause">> /\ \A n \in Message \ {m} : calls'[n] = <<>>
    BY <1>1, <1>2, <1>3, <1>4, <1>6, AtRest, CallsDiffer DEF Becomes, IsNow
  <2> QED BY <1>1, <1>6, <2>1, <2>2, PauseKeeps
<1> QED BY <1>1, <1>5, <1>6, WaitingSame DEF VoicesInv

(* The message that could be heard has run out; no other one plays. *)
LEMMA EndedKeeps ==
    ASSUME VoicesInv, NEW m \in Message, Ended(m)
    PROVE  VoicesInv'
<1>1. VoicesTypeOK /\ partly' = partly \ {m} /\ UNCHANGED <<voiceCount, voiceScenario>> /\ InTime
  BY DEF VoicesInv, Ended
<1>2. PICK x \in QueueState : IsNow(x)
  BY <1>1, NowIs
<1>3. PICK b \in BOOLEAN, what \in Call : b = FALSE /\ what = "end"
  BY DEF Call
<1>4. PICK y \in QueueState :
        /\ y = Sourced(x, m, b, what)
        /\ Alike(x, y, m) /\ y.playbacks[m].source = b
        /\ y.current = x.current /\ y.order = x.order /\ y.recent = x.recent /\ y.clocks = x.clocks
        /\ y.calls[m] = Append(x.calls[m], what)
        /\ \A n \in Message \ {m} : y.calls[n] = x.calls[n]
  BY SourceIs
<1>5. Becomes(y)
  BY <1>2, <1>3, <1>4 DEF Ended, IsNow, Sourced
<1>6. VoicesTypeOK'
  BY <1>1, <1>5, BecomesType DEF VoicesTypeOK
<1>7. ASSUME Waiting PROVE WaitingInv'
  <2>1. SamePlaybacks /\ ~playbacks'[m].source /\ UNCHANGED <<clockStates, currentPlaybackId>>
    BY <1>2, <1>3, <1>4, <1>5 DEF Becomes, IsNow, Alike, SamePlaybacks
  <2>2. calls'[m] = <<"end">> /\ \A n \in Message \ {m} : calls'[n] = <<>>
    BY <1>1, <1>2, <1>3, <1>4, <1>5, <1>7, AtRest, CallsDiffer DEF Becomes, IsNow
  <2>3. playbacks[m].state = "playing"
    BY <1>1, <1>7, AtRest DEF WaitingInv, Alone, Ended
  <2>4. \A n \in Message : playbacks[n].state = "playing" => n = m
    BY <1>1, <1>7, <2>3, AtRest
  <2>5. Alone'
    BY <1>1, <1>7, <2>1, <2>2, AtRest DEF SamePlaybacks, Alone, WaitingInv
  <2>6. Together'
    BY <1>1, <1>7, <2>1, AtRest DEF SamePlaybacks, Together, WaitingInv
  <2>7. \A n \in Message : ~WillPlay(n)'
    BY <2>1, <2>2, <2>4, CallsDiffer DEF SamePlaybacks, WillPlay
  <2>8. OneWill'
    BY <2>7 DEF OneWill
  <2>9. Ending'
    BY <1>1, <2>1, <2>2, <2>4, CallsDiffer DEF SamePlaybacks, Ending
  <2>10. Preparing'
    BY <1>1, <1>7, <2>1, AtRest DEF SamePlaybacks, Preparing
  <2> QED BY <1>1, <1>7, <2>1, <2>5, <2>6, <2>8, <2>9, <2>10, AtRest DEF WaitingInv
<1> QED BY <1>1, <1>6, <1>7, WaitingSame DEF VoicesInv

(* A tick notes the position of what is heard. *)
LEMMA OnPlaybackClockKeeps ==
    ASSUME VoicesInv, NEW m \in Message, OnPlaybackClock(m)
    PROVE  VoicesInv'
<1>1. /\ UNCHANGED <<playbacks, calls, currentPlaybackId, playbackIdOrder, recentFullPlays,
                     voiceCount, voiceScenario>>
      /\ clockStates' = clockStates \cup {m} /\ partly' = partly \cup {m}
      /\ playbacks[m].source
  BY DEF OnPlaybackClock
<1>2. VoicesTypeOK'
  BY <1>1 DEF VoicesInv, VoicesTypeOK
<1>3. ASSUME Waiting PROVE WaitingInv'
  <2>1. WaitingInv
    BY <1>3 DEF VoicesInv
  <2>2. Alone' /\ Together' /\ OneWill' /\ Preparing'
    BY <1>1, <2>1 DEF WaitingInv, Alone, Together, OneWill, Preparing, WillPlay
  <2>3. Ending'
    BY <1>1, <2>1 DEF WaitingInv, Ending
  <2> QED BY <1>1, <2>1, <2>2, <2>3 DEF WaitingInv
<1> QED BY <1>1, <1>2, <1>3, WaitingSame DEF VoicesInv

(* What destroy does to the Playbacks of S. *)
LEMMA DestroyIs ==
    ASSUME NEW x \in QueueState, NEW S \in SUBSET Message
    PROVE  \E y \in QueueState :
             /\ y = Destroy(x, S) /\ y.current = x.current /\ y.clocks = x.clocks
             /\ \A n \in Message :
                  /\ y.playbacks[n].state = x.playbacks[n].state
                  /\ y.playbacks[n].running = x.playbacks[n].running
                  /\ y.playbacks[n].preparing = x.playbacks[n].preparing
                  /\ y.playbacks[n].attached = (x.playbacks[n].attached /\ n \notin S)
                  /\ y.calls[n] = IF n \in S THEN Append(x.calls[n], "end") ELSE x.calls[n]
<1>1. x.playbacks \in [Message -> Playback] /\ x.calls \in [Message -> Seq(Call)]
  BY DEF QueueState
<1> DEFINE p == [n \in Message |-> IF n \in S THEN [x.playbacks[n] EXCEPT !.attached = FALSE]
                                   ELSE x.playbacks[n]]
           c == [n \in Message |-> IF n \in S THEN Append(x.calls[n], "end") ELSE x.calls[n]]
<1>2. ASSUME NEW n \in Message
      PROVE  /\ p[n] \in Playback
             /\ p[n].state = x.playbacks[n].state /\ p[n].running = x.playbacks[n].running
             /\ p[n].preparing = x.playbacks[n].preparing
             /\ p[n].attached = (x.playbacks[n].attached /\ n \notin S)
  <2>1. PICK r \in Playback : r = x.playbacks[n]
    BY <1>1
  <2>2. CASE n \in S
    <3>1. p[n] = [r EXCEPT !.attached = FALSE]
      BY <2>1, <2>2
    <3> QED BY <2>1, <2>2, <3>1 DEF Playback
  <2>3. CASE n \notin S
    <3>1. p[n] = r
      BY <2>1, <2>3
    <3>2. r.attached \in BOOLEAN
      BY DEF Playback
    <3> QED BY <2>1, <2>3, <3>1, <3>2
  <2> QED BY <2>2, <2>3
<1>3. p \in [Message -> Playback]
  BY <1>2
<1>4. c \in [Message -> Seq(Call)]
  <2>1. ASSUME NEW n \in Message PROVE Append(x.calls[n], "end") \in Seq(Call)
    BY <1>1 DEF Call
  <2> QED BY <1>1, <2>1
<1>5. Destroy(x, S) = [x EXCEPT !.playbacks = p, !.calls = c]
  BY DEF Destroy
<1>6. \A n \in Message : c[n] = IF n \in S THEN Append(x.calls[n], "end") ELSE x.calls[n]
  OBVIOUS
<1> HIDE DEF p, c
<1>7. PICK y \in QueueState : y = [x EXCEPT !.playbacks = p, !.calls = c]
  BY <1>3, <1>4 DEF QueueState
<1>8. y.playbacks = p /\ y.calls = c /\ y.current = x.current /\ y.clocks = x.clocks
  BY <1>7 DEF QueueState
<1>9. \A n \in Message :
        /\ y.playbacks[n].state = x.playbacks[n].state
        /\ y.playbacks[n].running = x.playbacks[n].running
        /\ y.playbacks[n].preparing = x.playbacks[n].preparing
        /\ y.playbacks[n].attached = (x.playbacks[n].attached /\ n \notin S)
  BY <1>2, <1>8
<1>10. \A n \in Message : y.calls[n] = IF n \in S THEN Append(x.calls[n], "end") ELSE x.calls[n]
  BY <1>6, <1>8
<1>11. y = Destroy(x, S)
  BY <1>5, <1>7
<1> HIDE DEF QueueState
<1> QED BY <1>8, <1>9, <1>10, <1>11

(* No message is unmounted alone while the user waits. *)
LEMMA UnmountKeeps ==
    ASSUME VoicesInv, NEW m \in Message, Unmount(m)
    PROVE  VoicesInv'
<1>1. VoicesTypeOK /\ UNCHANGED <<partly, voiceScenario>> /\ Once("mounts")
  BY DEF VoicesInv, Unmount
<1>2. PICK x \in QueueState : IsNow(x)
  BY <1>1, NowIs
<1>3. PICK y \in QueueState : y = Destroy(x, {m})
  BY DestroyIs
<1>4. Becomes(y)
  BY <1>2, <1>3 DEF Unmount, IsNow
<1>5. VoicesTypeOK'
  BY <1>1, <1>4, BecomesType, OnceType DEF VoicesTypeOK
<1>6. ~Waiting
  <2>1. voiceCount["mounts"] \in Nat
    BY <1>1 DEF VoicesTypeOK
  <2> QED BY <1>1, <2>1 DEF Once, Waiting
<1> QED BY <1>1, <1>5, <1>6, WaitingSame DEF VoicesInv

(* No message is mounted alone where all are mounted together. *)
LEMMA MountKeeps ==
    ASSUME VoicesInv, NEW m \in Message, Mount(m)
    PROVE  VoicesInv'
<1>1. /\ playbacks' = [playbacks EXCEPT ![m] = Mounted] /\ calls' = [calls EXCEPT ![m] = <<>>]
      /\ UNCHANGED <<queueVars, partly, voiceCount, voiceScenario>>
      /\ ShownMessages # {} /\ m \notin ShownMessages
  BY DEF Mount
<1>2. Mounted \in Playback /\ <<>> \in Seq(Call)
  BY DEF Mounted, Playback
<1>3. VoicesTypeOK'
  BY <1>1, <1>2 DEF VoicesInv, VoicesTypeOK, queueVars
<1>4. ~Waiting
  <2>1. PICK n \in Message : playbacks[n].attached
    BY <1>1 DEF ShownMessages
  <2>2. ~playbacks[m].attached
    BY <1>1 DEF ShownMessages
  <2> QED BY <2>1, <2>2 DEF VoicesInv, WaitingInv, Together
<1> QED BY <1>1, <1>3, <1>4, WaitingSame DEF VoicesInv

(* All Playbacks are destroyed together, and none is going to play. *)
LEMMA LeaveRoomKeeps ==
    ASSUME VoicesInv, LeaveRoom
    PROVE  VoicesInv'
<1>1. VoicesTypeOK /\ UNCHANGED <<partly, voiceScenario>> /\ InTime
  BY DEF VoicesInv, LeaveRoom
<1>2. PICK x \in QueueState : IsNow(x)
  BY <1>1, NowIs
<1>3. PICK S \in SUBSET Message : S = ShownMessages
  BY DEF ShownMessages
<1>4. PICK y \in QueueState :
        /\ y = Destroy(x, S) /\ y.current = x.current /\ y.clocks = x.clocks
        /\ \A n \in Message :
             /\ y.playbacks[n].state = x.playbacks[n].state
             /\ y.playbacks[n].running = x.playbacks[n].running
             /\ y.playbacks[n].preparing = x.playbacks[n].preparing
             /\ y.playbacks[n].attached = (x.playbacks[n].attached /\ n \notin S)
             /\ y.calls[n] = IF n \in S THEN Append(x.calls[n], "end") ELSE x.calls[n]
  BY DestroyIs
<1>5. Becomes(y)
  BY <1>2, <1>3, <1>4 DEF LeaveRoom, IsNow
<1>6. VoicesTypeOK'
  BY <1>1, <1>5, BecomesType, OnceType DEF VoicesTypeOK, LeaveRoom
<1>7. ASSUME Waiting PROVE WaitingInv'
  <2>1. \A n \in Message : playbacks[n].attached
    BY <1>1, <1>7, AtRest DEF LeaveRoom, ShownMessages, WaitingInv, Together
  <2>2. S = Message
    BY <1>3, <2>1 DEF ShownMessages
  <2>3. /\ UNCHANGED clockStates
        /\ \A n \in Message :
             /\ playbacks'[n].state = playbacks[n].state
             /\ playbacks'[n].running = playbacks[n].running
             /\ playbacks'[n].preparing = playbacks[n].preparing
             /\ ~playbacks'[n].attached
    BY <1>2, <1>4, <1>5, <2>2 DEF Becomes, IsNow
  <2>4. \A n \in Message : calls'[n] = <<"end">>
    BY <1>1, <1>2, <1>4, <1>5, <1>7, <2>2, AtRest, CallsDiffer DEF Becomes, IsNow
  <2>5. Alone'
    BY <1>1, <1>7, <2>3, <2>4, AtRest DEF Alone, WaitingInv
  <2>6. OneWill'
    BY <2>4, CallsDiffer DEF OneWill, WillPlay
  <2>7. Together' /\ Ending'
    BY <2>3 DEF Together, Ending
  <2>8. Preparing'
    BY <1>1, <1>7, <2>3, AtRest DEF Preparing
  <2> QED BY <1>1, <1>7, <2>3, <2>5, <2>6, <2>7, <2>8, AtRest DEF WaitingInv
<1> QED BY <1>1, <1>6, <1>7, WaitingSame DEF VoicesInv

(* Messages that have just been mounted. *)
JustMounted ==
    /\ playbacks = [m \in Message |-> Mounted] /\ calls = [m \in Message |-> <<>>]
    /\ currentPlaybackId = None /\ playbackIdOrder = <<>> /\ recentFullPlays = {}
    /\ clockStates \subseteq Message /\ partly \subseteq Message
    /\ voiceCount \in [{"clicks", "mounts", "visits"} -> Nat] /\ voiceScenario \in VoiceScenarios

(* The invariant holds where all messages have just been mounted. *)
LEMMA JustMountedIs ==
    JustMounted => VoicesTypeOK /\ (partly \subseteq clockStates => WaitingInv)
<1> SUFFICES ASSUME JustMounted PROVE VoicesTypeOK /\ (partly \subseteq clockStates => WaitingInv)
  OBVIOUS
<1>1. Mounted \in Playback /\ <<>> \in Seq(Call) /\ <<>> \in Seq(Message)
  BY DEF Mounted, Playback
<1>2. /\ playbacks \in [Message -> Playback] /\ calls \in [Message -> Seq(Call)]
      /\ currentPlaybackId \in Message \cup {None} /\ playbackIdOrder \in Seq(Message)
      /\ recentFullPlays \subseteq Message
  BY <1>1 DEF JustMounted
<1>3. VoicesTypeOK
  BY <1>2 DEF VoicesTypeOK, JustMounted
<1>4. \A m \in Message :
        /\ playbacks[m].state = "decoding" /\ playbacks[m].attached /\ ~playbacks[m].running
        /\ calls[m] = <<>>
  BY DEF JustMounted, Mounted
<1>5. \A m \in Message : ~WillPlay(m)
  BY <1>4 DEF WillPlay
<1>6. Alone /\ Together /\ OneWill
  BY <1>4, <1>5 DEF Alone, Together, OneWill
<1>7. Ending /\ Preparing
  BY <1>4, <1>5, CallsDiffer DEF Ending, Preparing, JustMounted
<1> QED BY <1>3, <1>6, <1>7 DEF WaitingInv

(* All messages are mounted together; the positions are still there. *)
LEMMA EnterRoomKeeps ==
    ASSUME VoicesInv, EnterRoom
    PROVE  VoicesInv'
<1>1. JustMounted' /\ UNCHANGED <<clockStates, partly, voiceScenario>>
  BY DEF EnterRoom, JustMounted, VoicesInv, VoicesTypeOK
<1>2. JustMounted' => (VoicesTypeOK /\ (partly \subseteq clockStates => WaitingInv))'
  BY JustMountedIs, PTL
<1>3. Waiting => partly \subseteq clockStates
  BY DEF VoicesInv, WaitingInv
<1> QED BY <1>1, <1>2, <1>3, WaitingSame DEF VoicesInv

(* A call of m has settled, before the queue hears of it. *)
SettledState(x, m, b) == [x EXCEPT !.calls[m] = Tail(@), !.playbacks[m].running = b]

(* What has changed by then. *)
LEMMA SettledStateIs ==
    ASSUME NEW x \in QueueState, NEW m \in Message, NEW b \in BOOLEAN, x.calls[m] # <<>>
    PROVE  \E v \in QueueState :
             /\ v = SettledState(x, m, b) /\ v.current = x.current /\ v.clocks = x.clocks
             /\ v.calls[m] = Tail(x.calls[m])
             /\ v.playbacks[m].running = b
             /\ v.playbacks[m].source = x.playbacks[m].source
             /\ v.playbacks[m].preparing = x.playbacks[m].preparing
             /\ v.playbacks[m].attached = x.playbacks[m].attached
             /\ \A n \in Message \ {m} : v.playbacks[n] = x.playbacks[n] /\ v.calls[n] = x.calls[n]
<1>1. x.playbacks[m] \in Playback /\ x.calls[m] \in Seq(Call)
  BY DEF QueueState
<1>2. PICK q \in Playback : q = [x.playbacks[m] EXCEPT !.running = b]
  BY <1>1 DEF Playback
<1>3. /\ q.running = b /\ q.preparing = x.playbacks[m].preparing
      /\ q.attached = x.playbacks[m].attached /\ q.source = x.playbacks[m].source
  BY <1>1, <1>2 DEF Playback
<1>4. PICK d \in Seq(Call) : d = Tail(x.calls[m])
  <2>1. Tail(x.calls[m]) \in Seq(Call)
    BY <1>1
  <2> QED BY <2>1
<1>5. PICK v \in QueueState :
        v = [x EXCEPT !.playbacks[m] = q, !.calls[m] = d] /\ With(x, v, m, q, d)
  BY WithIs
<1>6. v = SettledState(x, m, b)
  BY <1>2, <1>4, <1>5 DEF SettledState, QueueState
<1> QED BY <1>3, <1>4, <1>5, <1>6 DEF With

(* w is the state after the call c of m, the only one, has settled. *)
SettlesTo(w, m, c, st) ==
    /\ w.current = currentPlaybackId /\ w.clocks = clockStates
    /\ calls[m] = <<c>> /\ w.calls[m] = <<>>
    /\ w.playbacks[m].state = st /\ (st = "playing" <=> c = "play") /\ (st = "stopped" <=> c = "end")
    /\ (w.playbacks[m].running <=> c = "play")
    /\ \A n \in Message :
         /\ w.playbacks[n].source = playbacks[n].source
         /\ w.playbacks[n].attached = playbacks[n].attached
         /\ w.playbacks[n].preparing = playbacks[n].preparing
    /\ \A n \in Message \ {m} : w.playbacks[n] = playbacks[n] /\ w.calls[n] = calls[n]

(* The queue does not do anything about it, or another message is current. *)
LEMMA SettlesAlone ==
    ASSUME WaitingInv, NEW m \in Message, NEW c \in Call, NEW st, NEW w, NEW y,
           SettlesTo(w, m, c, st), Rests(w, y), Becomes(y), UNCHANGED partly,
           \/ y.clocks = w.clocks
           \/ st = "stopped" /\ w.playbacks[m].attached /\ y.clocks = w.clocks \ {m},
           st = "playing" \/ y.current = w.current
    PROVE  WaitingInv'
<1>1. /\ playbacks' = w.playbacks /\ calls' = w.calls
      /\ currentPlaybackId' = y.current /\ clockStates' = y.clocks
  BY DEF Rests, Becomes
<1>2. Alone'
  BY <1>1 DEF WaitingInv, Alone, SettlesTo
<1>3. Together'
  BY <1>1 DEF WaitingInv, Together, SettlesTo
<1>4. \A n \in Message : WillPlay(n)' <=> WillPlay(n)
  BY <1>1, CallsDiffer DEF SettlesTo, WillPlay, Call
<1>5. OneWill'
  BY <1>1, <1>4 DEF WaitingInv, OneWill, SettlesTo
<1>6. calls[m] # <<>>
  BY CallsDiffer DEF SettlesTo, Call
<1>7. \A n \in Message : calls'[n] = <<"end">> => n # m /\ calls[n] = <<"end">>
  BY <1>1, CallsDiffer DEF SettlesTo
<1>8. Ending'
  BY <1>1, <1>6, <1>7 DEF WaitingInv, Ending, SettlesTo
<1>9. ASSUME NEW n \in Message, playbacks'[n].preparing
      PROVE  /\ playbacks'[n].attached /\ calls'[n] = <<>> /\ currentPlaybackId' = None
             /\ \A k \in Message : ~WillPlay(k)' /\ calls'[k] # <<"end">>
  <2>1. /\ playbacks[n].attached /\ calls[n] = <<>> /\ currentPlaybackId = None
        /\ \A k \in Message : ~WillPlay(k) /\ calls[k] # <<"end">>
    BY <1>1, <1>9 DEF WaitingInv, Preparing, SettlesTo
  <2>2. st # "playing"
    BY <2>1, CallsDiffer DEF SettlesTo, WillPlay
  <2>3. n # m
    BY <1>6, <2>1
  <2> QED BY <1>1, <1>4, <1>7, <2>1, <2>2, <2>3 DEF SettlesTo
<1>10. Preparing'
  BY <1>9 DEF Preparing
<1>11. partly \subseteq clockStates'
  <2>1. st = "stopped" /\ w.playbacks[m].attached => m \notin partly
    BY DEF WaitingInv, Ending, SettlesTo
  <2> QED BY <1>1, <2>1 DEF WaitingInv, SettlesTo
<1> QED BY <1>2, <1>3, <1>5, <1>8, <1>10, <1>11 DEF WaitingInv

(* What is so when m has come to its end. *)
LEMMA AtTheEnd ==
    ASSUME WaitingInv, NEW m \in Message, NEW c \in Call, NEW st, NEW w,
           SettlesTo(w, m, c, st), st = "stopped", w.playbacks[m].attached
    PROVE  /\ m \notin partly
           /\ \A n \in Message :
                /\ w.calls[n] = <<>> /\ w.playbacks[n].state # "playing" /\ ~w.playbacks[n].running
                /\ w.playbacks[n].attached /\ ~w.playbacks[n].preparing
<1>1. calls[m] = <<"end">> /\ playbacks[m].attached
  BY DEF SettlesTo
<1>2. m \notin partly /\ \A n \in Message \ {m} : calls[n] = <<>> /\ playbacks[n].state # "playing"
  BY <1>1 DEF WaitingInv, Ending
<1>3. \A n \in Message : playbacks[n].attached /\ ~playbacks[n].preparing
  BY <1>1 DEF WaitingInv, Together, Preparing
<1>4. \A n \in Message \ {m} : ~playbacks[n].running
  BY <1>2 DEF WaitingInv, Alone
<1> QED BY <1>2, <1>3, <1>4 DEF SettlesTo

(* It goes back to its position, and pauses. *)
LEMMA SettlesSkipping ==
    ASSUME WaitingInv, NEW m \in Message, NEW c \in Call, NEW st, NEW w, NEW y,
           SettlesTo(w, m, c, st), st = "stopped", w.playbacks[m].attached,
           Alike(w, y, m), y.clocks = w.clocks, y.calls[m] = Append(w.calls[m], "pause"),
           \A n \in Message \ {m} : y.calls[n] = w.calls[n], Becomes(y), UNCHANGED partly
    PROVE  WaitingInv'
<1>1. playbacks' = y.playbacks /\ calls' = y.calls /\ clockStates' = clockStates
  BY DEF Becomes, SettlesTo
<1>2. \A n \in Message :
        /\ playbacks'[n].state # "playing" /\ ~playbacks'[n].running
        /\ playbacks'[n].attached /\ ~playbacks'[n].preparing
  BY <1>1, AtTheEnd DEF Alike
<1>3. calls'[m] = <<"pause">> /\ \A n \in Message \ {m} : calls'[n] = <<>>
  BY <1>1, AtTheEnd, CallsDiffer
<1>4. Alone' /\ Together'
  BY <1>2, <1>3 DEF Alone, Together
<1>5. \A n \in Message : ~WillPlay(n)'
  BY <1>2, <1>3, CallsDiffer DEF WillPlay
<1>6. OneWill' /\ Ending' /\ Preparing'
  BY <1>2, <1>3, <1>5, CallsDiffer DEF OneWill, Ending, Preparing
<1> QED BY <1>1, <1>4, <1>6 DEF WaitingInv

(* The queue plays k. *)
LEMMA SettlesPlaying ==
    ASSUME WaitingInv, NEW m \in Message, NEW c \in Call, NEW st, NEW w, NEW y,
           SettlesTo(w, m, c, st), st = "stopped", w.playbacks[m].attached,
           NEW k \in Message, PlaysOnly(w, y, k), y.clocks = w.clocks \ {m},
           Becomes(y), UNCHANGED partly
    PROVE  WaitingInv'
<1>1. playbacks' = y.playbacks /\ calls' = y.calls /\ clockStates' = clockStates \ {m}
  BY DEF Becomes, SettlesTo
<1>2. \A n \in Message :
        /\ playbacks'[n].state # "playing" /\ ~playbacks'[n].running
        /\ playbacks'[n].attached /\ ~playbacks'[n].preparing
  BY <1>1, AtTheEnd DEF Alike, PlaysOnly
<1>3. calls'[k] = <<"play">> /\ \A n \in Message \ {k} : calls'[n] = <<>>
  BY <1>1, AtTheEnd, CallsDiffer DEF PlaysOnly, Plays
<1>4. Alone' /\ Together'
  BY <1>2, <1>3 DEF Alone, Together
<1>5. \A n \in Message : WillPlay(n)' => n = k
  BY <1>2, <1>3, CallsDiffer DEF WillPlay
<1>6. OneWill' /\ Ending' /\ Preparing'
  BY <1>2, <1>3, <1>5, CallsDiffer DEF OneWill, Ending, Preparing
<1>7. partly \subseteq clockStates'
  BY <1>1, AtTheEnd DEF WaitingInv
<1> QED BY <1>4, <1>6, <1>7 DEF WaitingInv

(* A call settles, and the queue does one of three things. *)
LEMMA SettledKeeps ==
    ASSUME VoicesInv, NEW m \in Message, Settled(m)
    PROVE  VoicesInv'
<1>1. VoicesTypeOK /\ UNCHANGED <<partly, voiceCount, voiceScenario>> /\ calls[m] # <<>>
  BY DEF VoicesInv, Settled
<1>2. PICK x \in QueueState : IsNow(x)
  BY <1>1, NowIs
<1>3. PICK c \in Call : c = Head(calls[m])
  <2>1. calls[m] \in Seq(Call)
    BY <1>1 DEF VoicesTypeOK
  <2>2. Head(calls[m]) \in Call
    BY <1>1, <2>1
  <2> QED BY <2>2
<1>4. PICK st \in {"stopped", "paused", "playing"} :
        st = CASE c = "play" -> "playing" [] c = "pause" -> "paused" [] c = "end" -> "stopped"
  BY DEF Call
<1>5. (st = "playing" <=> c = "play") /\ (st = "stopped" <=> c = "end")
  BY <1>4 DEF Call
<1>6. PICK b \in BOOLEAN : b = (c = "play")
  OBVIOUS
<1>7. PICK v \in QueueState :
        /\ v = SettledState(x, m, b) /\ v.current = x.current /\ v.clocks = x.clocks
        /\ v.calls[m] = Tail(x.calls[m])
        /\ v.playbacks[m].running = b
        /\ v.playbacks[m].source = x.playbacks[m].source
        /\ v.playbacks[m].preparing = x.playbacks[m].preparing
        /\ v.playbacks[m].attached = x.playbacks[m].attached
        /\ \A n \in Message \ {m} : v.playbacks[n] = x.playbacks[n] /\ v.calls[n] = x.calls[n]
  BY <1>1, <1>2, SettledStateIs DEF IsNow
<1>8. PICK w, y \in QueueState :
        y = Emit(v, m, st) /\ StateIs(v, w, m, st) /\ Reacting(w, y, m, st)
  BY <1>1, EmitIs DEF VoicesTypeOK
<1>9. Becomes(y)
  <2>1. v = [Now EXCEPT !.calls[m] = Tail(@), !.playbacks[m].running = c = "play"]
    BY <1>2, <1>6, <1>7 DEF SettledState, IsNow
  <2> QED BY <1>3, <1>4, <1>8, <2>1 DEF Settled
<1>10. VoicesTypeOK'
  BY <1>1, <1>9, BecomesType DEF VoicesTypeOK
<1>11. ASSUME Waiting PROVE WaitingInv'
  <2>1. WaitingInv
    BY <1>11 DEF VoicesInv
  <2>2. calls[m] = <<c>> /\ Tail(calls[m]) = <<>>
    BY <1>1, <1>3, <2>1, CallsDiffer DEF WaitingInv, Alone
  <2>3. SettlesTo(w, m, c, st)
    <3>1. w.current = currentPlaybackId /\ w.clocks = clockStates /\ w.calls[m] = <<>>
      BY <1>2, <1>7, <1>8, <2>2 DEF StateIs, IsNow
    <3>2. w.playbacks[m].state = st /\ (w.playbacks[m].running <=> c = "play")
      BY <1>6, <1>7, <1>8 DEF StateIs
    <3>3. /\ w.playbacks[m].source = playbacks[m].source
          /\ w.playbacks[m].attached = playbacks[m].attached
          /\ w.playbacks[m].preparing = playbacks[m].preparing
      BY <1>2, <1>7, <1>8 DEF StateIs, IsNow
    <3>4. \A n \in Message \ {m} : w.playbacks[n] = playbacks[n] /\ w.calls[n] = calls[n]
      BY <1>2, <1>7, <1>8 DEF StateIs, IsNow
    <3> QED BY <1>5, <2>2, <3>1, <3>2, <3>3, <3>4 DEF SettlesTo
  <2>4. CASE /\ Rests(w, y)
             /\ \/ y.clocks = w.clocks
                \/ st = "stopped" /\ w.playbacks[m].attached /\ y.clocks = w.clocks \ {m}
             /\ st = "playing" \/ y.current = w.current
    BY <1>1, <1>9, <2>1, <2>3, <2>4, SettlesAlone
  <2>5. CASE /\ st = "stopped" /\ w.playbacks[m].attached
             /\ y.clocks = w.clocks /\ Alike(w, y, m)
             /\ y.calls[m] = Append(w.calls[m], "pause")
             /\ \A n \in Message \ {m} : y.calls[n] = w.calls[n]
    BY <1>1, <1>9, <2>1, <2>3, <2>5, SettlesSkipping
  <2>6. CASE /\ st = "stopped" /\ w.playbacks[m].attached
             /\ y.clocks = w.clocks \ {m} /\ \E n \in Message : PlaysOnly(w, y, n)
    BY <1>1, <1>9, <2>1, <2>3, <2>6, SettlesPlaying
  <2> QED BY <1>8, <2>4, <2>5, <2>6 DEF Reacting, Stopping
<1> QED BY <1>1, <1>10, <1>11, WaitingSame DEF VoicesInv

(* m is decoded, before the queue hears of it. *)
PreparedState(x, m) == [x EXCEPT !.playbacks[m].preparing = FALSE]

(* What has changed by then. *)
LEMMA PreparedStateIs ==
    ASSUME NEW x \in QueueState, NEW m \in Message
    PROVE  \E v \in QueueState :
             /\ v = PreparedState(x, m) /\ v.current = x.current /\ v.clocks = x.clocks
             /\ v.calls = x.calls
             /\ ~v.playbacks[m].preparing
             /\ v.playbacks[m].attached = x.playbacks[m].attached
             /\ v.playbacks[m].running = x.playbacks[m].running
             /\ \A n \in Message \ {m} : v.playbacks[n] = x.playbacks[n]
<1>1. x.playbacks[m] \in Playback
  BY DEF QueueState
<1>2. PICK b \in BOOLEAN : b = FALSE
  OBVIOUS
<1>3. PICK q \in Playback : q = [x.playbacks[m] EXCEPT !.preparing = b]
  BY <1>1 DEF Playback
<1>4. ~q.preparing /\ q.attached = x.playbacks[m].attached /\ q.running = x.playbacks[m].running
  BY <1>1, <1>2, <1>3 DEF Playback
<1>5. PICK v \in QueueState :
        v = [x EXCEPT !.playbacks[m] = q] /\ v.calls = x.calls /\ With(x, v, m, q, x.calls[m])
  BY OtherIs
<1>6. v = PreparedState(x, m)
  BY <1>2, <1>3, <1>5 DEF PreparedState
<1> QED BY <1>4, <1>5, <1>6 DEF With

(* A message is decoded: nothing has been played, so that none is current. *)
LEMMA PreparedKeeps ==
    ASSUME VoicesInv, NEW m \in Message, Prepared(m)
    PROVE  VoicesInv'
<1>1. VoicesTypeOK /\ UNCHANGED <<partly, voiceCount, voiceScenario>> /\ playbacks[m].preparing
  BY DEF VoicesInv, Prepared
<1>2. PICK x \in QueueState : IsNow(x)
  BY <1>1, NowIs
<1>3. PICK st \in {"stopped", "paused", "playing"} : st = "stopped"
  OBVIOUS
<1>4. PICK v \in QueueState :
        /\ v = PreparedState(x, m) /\ v.current = x.current /\ v.clocks = x.clocks
        /\ v.calls = x.calls
        /\ ~v.playbacks[m].preparing
        /\ v.playbacks[m].attached = x.playbacks[m].attached
        /\ v.playbacks[m].running = x.playbacks[m].running
        /\ \A n \in Message \ {m} : v.playbacks[n] = x.playbacks[n]
  BY PreparedStateIs
<1>5. PICK w, y \in QueueState :
        y = Emit(v, m, st) /\ StateIs(v, w, m, st) /\ Reacting(w, y, m, st)
  BY <1>1, EmitIs DEF VoicesTypeOK
<1>6. Becomes(y)
  BY <1>2, <1>3, <1>4, <1>5 DEF Prepared, PreparedState, IsNow
<1>7. VoicesTypeOK'
  BY <1>1, <1>6, BecomesType DEF VoicesTypeOK
<1>8. ASSUME Waiting PROVE WaitingInv'
  <2>1. WaitingInv
    BY <1>8 DEF VoicesInv
  <2>2. /\ calls[m] = <<>> /\ currentPlaybackId = None
        /\ \A n \in Message : ~WillPlay(n) /\ calls[n] # <<"end">> /\ playbacks[n].attached
    BY <1>1, <2>1 DEF WaitingInv, Preparing, Together
  <2>3. ~playbacks[m].running
    BY <2>1, <2>2 DEF WaitingInv, Alone, WillPlay
  <2>4. currentPlaybackId # m
    BY <2>2, QueueAssumption
  <2>5. /\ w.calls = calls /\ w.current = None /\ w.current # m /\ w.clocks = clockStates
        /\ w.playbacks[m].state = "stopped" /\ ~w.playbacks[m].running
        /\ w.playbacks[m].attached /\ ~w.playbacks[m].preparing
        /\ \A n \in Message \ {m} : w.playbacks[n] = playbacks[n]
    BY <1>2, <1>3, <1>4, <1>5, <2>2, <2>3, <2>4 DEF StateIs, IsNow
  <2>6. /\ y.current = None /\ y.clocks = clockStates
        /\ \A n \in Message :
             /\ y.playbacks[n].state = w.playbacks[n].state
             /\ y.playbacks[n].running = w.playbacks[n].running
             /\ y.playbacks[n].attached = w.playbacks[n].attached
             /\ y.playbacks[n].preparing = w.playbacks[n].preparing
        /\ y.calls[m] \in {<<>>, <<"pause">>}
        /\ \A n \in Message \ {m} : y.calls[n] = calls[n]
    <3>1. CASE Rests(w, y) /\ y.clocks = w.clocks /\ y.current = w.current
      BY <2>2, <2>5, <3>1 DEF Rests
    <3>2. CASE /\ y.current = w.current /\ y.clocks = w.clocks /\ Alike(w, y, m)
               /\ y.calls[m] = Append(w.calls[m], "pause")
               /\ \A n \in Message \ {m} : y.calls[n] = w.calls[n]
      BY <2>2, <2>5, <3>2, CallsDiffer DEF Alike
    <3> QED BY <1>3, <1>5, <2>5, <3>1, <3>2 DEF Reacting, Stopping
  <2>7. /\ playbacks' = y.playbacks /\ calls' = y.calls
        /\ currentPlaybackId' = y.current /\ clockStates' = y.clocks
    BY <1>6 DEF Becomes
  <2>8. Alone'
    BY <2>1, <2>5, <2>6, <2>7 DEF WaitingInv, Alone
  <2>9. \A n \in Message : playbacks'[n].attached /\ calls'[n] # <<"end">>
    BY <2>2, <2>5, <2>6, <2>7, CallsDiffer
  <2>10. \A n \in Message : ~WillPlay(n)'
    BY <2>2, <2>5, <2>6, <2>7, CallsDiffer DEF WillPlay
  <2>11. Together' /\ OneWill' /\ Ending'
    BY <2>9, <2>10 DEF Together, OneWill, Ending
  <2>12. \A n \in Message : playbacks'[n].preparing => n # m /\ playbacks[n].preparing
    BY <2>5, <2>6, <2>7
  <2>13. Preparing'
    BY <2>1, <2>6, <2>7, <2>9, <2>10, <2>12 DEF WaitingInv, Preparing
  <2> QED BY <1>1, <2>1, <2>6, <2>7, <2>8, <2>11, <2>13 DEF WaitingInv
<1> QED BY <1>1, <1>7, <1>8, WaitingSame DEF VoicesInv

----------------------------------------------------------------------------
(* VOICE MESSAGES: THE THEOREMS *)

(* The invariant holds at the start. *)
LEMMA VoicesBegin == VoicesInit => VoicesInv
<1> SUFFICES ASSUME VoicesInit PROVE VoicesInv
  OBVIOUS
<1>1. \E none : none = {}
  OBVIOUS
<1>2. [k \in {"clicks", "mounts", "visits"} |-> 0] \in [{"clicks", "mounts", "visits"} -> Nat]
  OBVIOUS
<1>3. JustMounted /\ partly \subseteq clockStates
  BY <1>2 DEF VoicesInit, JustMounted
<1> QED BY <1>3, JustMountedIs DEF VoicesInv

(* Every step keeps it. *)
LEMMA VoicesStep == VoicesInv /\ [VoicesNext]_voiceVars => VoicesInv'
<1> SUFFICES ASSUME VoicesInv, [VoicesNext]_voiceVars PROVE VoicesInv'
  OBVIOUS
<1>1. CASE UNCHANGED voiceVars
  BY <1>1 DEF voiceVars, queueVars, VoicesInv, VoicesTypeOK, Waiting, WaitingInv, Alone, Together,
     OneWill, WillPlay, Ending, Preparing
<1>2. ASSUME NEW m \in Message,
             \/ Toggle(m) \/ Seek(m) \/ Settled(m) \/ Ended(m) \/ OnPlaybackClock(m) \/ Prepared(m)
             \/ Unmount(m) \/ Mount(m)
      PROVE  VoicesInv'
  BY <1>2, ToggleKeeps, SeekKeeps, SettledKeeps, EndedKeeps, OnPlaybackClockKeeps, PreparedKeeps,
     UnmountKeeps, MountKeeps
<1>3. CASE LeaveRoom \/ EnterRoom
  BY <1>3, LeaveRoomKeeps, EnterRoomKeeps
<1> QED BY <1>1, <1>2, <1>3 DEF VoicesNext

(* The inductive invariant: the types, and, as long as the user waits, one *)
(* message at most that is going to play, and positions for all that were  *)
(* heard in part.                                                          *)
THEOREM VoicesInvariant == VoicesSpec => []VoicesInv
BY VoicesBegin, VoicesStep, PTL DEF VoicesSpec

(* Every variable of the queue has its type, whatever the user does. *)
THEOREM VoicesTypeCorrect == VoicesSpec => []VoicesTypeOK
<1>1. VoicesInv => VoicesTypeOK
  BY DEF VoicesInv
<1> QED BY <1>1, VoicesInvariant, PTL

(* As long as the user waits, one message at most can be heard, and what   *)
(* was heard in part keeps its position (onPlaybackStateChange,            *)
(* pauseAllExcept).                                                        *)
THEOREM OneAtATime == VoicesSpec => []VoicesInOrder
<1>1. VoicesInv => VoicesInOrder
  <2> SUFFICES ASSUME VoicesInv, Waiting
      PROVE  /\ NothingUnderWay => \A m, n \in Message : Heard(m) /\ Heard(n) => m = n
             /\ partly \subseteq clockStates
    BY DEF VoicesInOrder, OneVoice, PositionKept
  <2>1. WaitingInv
    BY DEF VoicesInv
  <2>2. ASSUME NothingUnderWay, NEW m \in Message, Heard(m) PROVE WillPlay(m)
    BY <2>1, <2>2 DEF WaitingInv, Alone, WillPlay, NothingUnderWay, Heard
  <2> QED BY <2>1, <2>2 DEF WaitingInv, OneWill
<1> QED BY <1>1, VoicesInvariant, PTL
=============================================================================
