-------------------- MODULE VoiceBroadcastRecordingProofs --------------------
(***************************************************************************)
(* Proofs about VoiceBroadcastRecording, for any number of calls that      *)
(* wait, chunks, commands, failures and reconnects.                        *)
(***************************************************************************)
EXTENDS VoiceBroadcastRecording, FiniteSetTheorems, SequenceTheorems, TLAPS

(* The retryable functions that a call may still call, those that anybody  *)
(* may, and the numbers of the messages that uploads have led to.          *)
FnsOf(call) == ({call.fn} \ {None}) \cup ToSet(call.copy) \cup ToSet(call.list)
Held == ToSet(toRetry) \cup UNION {FnsOf(task[t]) : t \in Waiting}
Number(c, n) == [chunk |-> c, seq |-> n]
InFlight == {Number(task[t].fn.chunk, task[t].seq) : t \in {u \in Waiting : task[u].at = "send"}}
Infos == {Info(s) : s \in InfoState}

(* Every number that is in the room or may yet get there.                  *)
Numbered == Messages \cup InFlight \cup {Number(f.chunk, f.seq) : f \in {g \in Held : g.kind = "message"}}

(* A call waits for a function unless it waits for the recorder, and only  *)
(* uploads lead to a message.                                              *)
Shaped(call) ==
    /\ call.fn = None <=> call.at \in {"stop", "start"}
    /\ call.at = "send" => call.fn.kind = "upload"
    /\ call.kind \in {"chunk", "reconnect"} => call.fn # None

(* What is sent is a chunk that has been recorded, or an info state event. *)
OfRecording(f) == IF f.kind = "info" THEN f.chunk = 0 /\ f.state \in InfoState ELSE f.chunk \in 1 .. recorded

WellFormed ==
    /\ \A t \in Waiting : Shaped(task[t])
    /\ \A f \in Held : OfRecording(f)
    /\ \A m \in Messages : m.chunk \in 1 .. recorded

(* Numbers are given once.                                                 *)
Numbers ==
    /\ \A m \in Numbered : m.seq \in 1 .. sequence
    /\ \A m, n \in Numbered : m.seq = n.seq => m.chunk = n.chunk

IInv == TypeOK /\ WellFormed /\ Numbers
----------------------------------------------------------------------------
(* Every set of natural numbers that has an element has a least one. *)
LEMMA Minimum ==
    ASSUME NEW T \in SUBSET Nat, T # {}
    PROVE  \E n \in T : \A m \in T : n <= m
<1> DEFINE below == {0 .. x : x \in T}
<1>1. below \subseteq FiniteSubsetsOf(Nat)
  <2>1. \A x \in T : 0 .. x \in SUBSET Nat /\ IsFiniteSet(0 .. x)
    BY FS_Interval
  <2> QED BY <2>1 DEF FiniteSubsetsOf
<1>2. below # {}
  OBVIOUS
<1>3. PICK least \in below : \A other \in below : <<other, least>> \notin StrictSubsetOrdering(Nat)
  <2> HIDE DEF below
  <2> QED BY <1>1, <1>2, FS_StrictSubsetOrderingWellFounded, WFMin
<1>4. PICK n \in T : least = 0 .. n
  OBVIOUS
<1>5. ASSUME NEW m \in T PROVE n <= m
  <2>1. <<0 .. m, 0 .. n>> \notin StrictSubsetOrdering(Nat)
    BY <1>3, <1>4
  <2>2. ~(0 .. m \subseteq 0 .. n /\ 0 .. m # 0 .. n)
    BY <2>1 DEF StrictSubsetOrdering
  <2>3. m < n => 0 .. m \subseteq 0 .. n /\ n \in 0 .. n /\ n \notin 0 .. m
    OBVIOUS
  <2> QED BY <2>2, <2>3
<1> QED BY <1>5

(* Concatenation keeps the type and puts the elements together. *)
LEMMA Joined ==
    ASSUME NEW S, NEW s \in Seq(S), NEW r \in Seq(S)
    PROVE  s \o r \in Seq(S) /\ ToSet(s \o r) = ToSet(s) \cup ToSet(r)
<1>1. /\ s \o r \in Seq(S) /\ Len(s \o r) = Len(s) + Len(r)
      /\ \A i \in 1 .. Len(s) + Len(r) : (s \o r)[i] = IF i <= Len(s) THEN s[i] ELSE r[i - Len(s)]
  BY ConcatProperties
<1>2. ToSet(s \o r) \subseteq ToSet(s) \cup ToSet(r)
  BY <1>1 DEF ToSet
<1>3. ASSUME NEW x \in ToSet(s) PROVE x \in ToSet(s \o r)
  <2>1. PICK i \in 1 .. Len(s) : x = s[i]
    BY DEF ToSet
  <2>2. i \in DOMAIN (s \o r) /\ (s \o r)[i] = x
    BY <1>1, <2>1
  <2> QED BY <2>2 DEF ToSet
<1>4. ASSUME NEW x \in ToSet(r) PROVE x \in ToSet(s \o r)
  <2>1. PICK i \in 1 .. Len(r) : x = r[i]
    BY DEF ToSet
  <2>2. i + Len(s) \in DOMAIN (s \o r) /\ (s \o r)[i + Len(s)] = x
    BY <1>1, <2>1
  <2> QED BY <2>2 DEF ToSet
<1> QED BY <1>1, <1>2, <1>3, <1>4

(* Spliced takes one element out, or none; the first where it is fn.       *)
LEMMA SplicedType ==
    ASSUME NEW S, NEW copy \in Seq(S), NEW fn
    PROVE  /\ Spliced(copy, fn) \in Seq(S) /\ ToSet(Spliced(copy, fn)) \subseteq ToSet(copy)
           /\ copy # <<>> /\ copy[1] = fn => Spliced(copy, fn) = Tail(copy)
<1> DEFINE Part(m, n) == SubSeq(copy, m, n)
           at == {i \in 1 .. Len(copy) : copy[i] = fn}
<1>1. Len(copy) \in Nat /\ \A i \in 1 .. Len(copy) : copy[i] \in S
  OBVIOUS
<1>2. ASSUME NEW m \in 1 .. Len(copy) + 1, NEW n \in 0 .. Len(copy)
      PROVE  Part(m, n) \in Seq(S) /\ ToSet(Part(m, n)) \subseteq ToSet(copy)
  <2>1. \A i \in m .. n : copy[i] \in ToSet(copy) /\ copy[i] \in S
    BY <1>1 DEF ToSet
  <2>2. Part(m, n) \in Seq(S) /\ Part(m, n) \in Seq(ToSet(copy))
    BY <2>1, SubSeqProperties
  <2> QED BY <2>2 DEF ToSet
<1>3. CASE fn \in ToSet(copy)
  <2>1. at # {} /\ at \in SUBSET Nat
    BY <1>3 DEF ToSet
  <2>2. Spliced(copy, fn) = RemoveAt(copy, Min(at))
    BY <1>3, <2>1 DEF Spliced, SelectInSeq
  <2>3. PICK k \in at : \A i \in at : k <= i
    <3> HIDE DEF at
    <3> QED BY <2>1, Minimum
  <2>4. Min(at) \in at /\ \A i \in at : Min(at) <= i
    <3> HIDE DEF at
    <3> QED BY <2>3 DEF Min
  <2>5. Spliced(copy, fn) = Part(1, Min(at) - 1) \o Part(Min(at) + 1, Len(copy))
    BY <2>2 DEF RemoveAt
  <2>6. Min(at) - 1 \in 0 .. Len(copy) /\ Min(at) + 1 \in 1 .. Len(copy) + 1
    BY <1>1, <2>4
  <2>7. /\ Part(1, Min(at) - 1) \in Seq(S) /\ ToSet(Part(1, Min(at) - 1)) \subseteq ToSet(copy)
        /\ Part(Min(at) + 1, Len(copy)) \in Seq(S)
        /\ ToSet(Part(Min(at) + 1, Len(copy))) \subseteq ToSet(copy)
    <3>1. 1 \in 1 .. Len(copy) + 1 /\ Len(copy) \in 0 .. Len(copy)
      BY <1>1
    <3>2. /\ Part(1, Min(at) - 1) \in Seq(S) /\ ToSet(Part(1, Min(at) - 1)) \subseteq ToSet(copy)
      BY <1>2, <2>6, <3>1
    <3>3. /\ Part(Min(at) + 1, Len(copy)) \in Seq(S)
          /\ ToSet(Part(Min(at) + 1, Len(copy))) \subseteq ToSet(copy)
      BY <1>2, <2>6, <3>1
    <3> QED BY <3>2, <3>3
  <2>8. ASSUME copy # <<>>, copy[1] = fn PROVE Spliced(copy, fn) = Tail(copy)
    <3>1. Min(at) = 1
      <4>1. 1 \in at
        BY <1>1, <2>8
      <4>2. Min(at) \in Nat /\ Min(at) >= 1 /\ Min(at) <= 1
        BY <2>4, <4>1
      <4> QED BY <4>2
    <3>2. Part(1, 0) = <<>> /\ Part(2, Len(copy)) = Tail(copy)
      BY <2>8, SubSeqEmpty, TailIsSubSeq
    <3>3. Tail(copy) \in Seq(S)
      BY <2>8
    <3>4. Spliced(copy, fn) = Part(1, 0) \o Part(2, Len(copy))
      <4>1. 1 - 1 = 0 /\ 1 + 1 = 2
        OBVIOUS
      <4> QED BY <2>5, <3>1, <4>1
    <3>5. <<>> \o Tail(copy) = Tail(copy)
      BY <3>3, ConcatEmptySeq
    <3> QED BY <3>2, <3>4, <3>5
  <2> HIDE DEF Part, at
  <2> QED BY <2>5, <2>7, <2>8, Joined
<1>4. CASE fn \notin ToSet(copy)
  <2>1. CASE copy = <<>>
    BY <1>4, <2>1 DEF Spliced
  <2>2. CASE copy # <<>>
    <3>1. Spliced(copy, fn) = Part(1, Len(copy) - 1)
      BY <1>4, <2>2 DEF Spliced, Front
    <3>2. Len(copy) - 1 \in 0 .. Len(copy) /\ 1 \in 1 .. Len(copy) + 1
      BY <1>1, <2>2
    <3>3. copy[1] # fn
      BY <1>1, <1>4, <2>2 DEF ToSet
    <3> HIDE DEF Part
    <3> QED BY <1>2, <3>1, <3>2, <3>3
  <2> QED BY <2>1, <2>2
<1> QED BY <1>3, <1>4

----------------------------------------------------------------------------
Kind == InfoState \cup {"chunk", "reconnect"}
State == InfoState \cup {"connection_error"}

(* A call that begins holds its function and no other. *)
LEMMA NewTaskType ==
    ASSUME sequence \in Nat, NEW kind \in Kind, NEW at \in {"stop", "start", "call", "send"},
           NEW fn \in Function \cup {None}
    PROVE  /\ NewTask(kind, at, fn) \in Call /\ FnsOf(NewTask(kind, at, fn)) = {fn} \ {None}
           /\ NewTask(kind, at, fn).kind = kind /\ NewTask(kind, at, fn).at = at
           /\ NewTask(kind, at, fn).fn = fn
<1>1. <<>> \in Seq(Function)
  BY EmptySeq
<1>2. ToSet(<<>>) = {}
  BY DEF ToSet
<1>3. NewTask(kind, at, fn) \in Call
  BY <1>1, Zenon DEF NewTask, Call, Kind
<1> QED BY <1>2, <1>3 DEF NewTask, FnsOf

(* A call that waits for the recorder or for an info state event to be     *)
(* sent, and one that is about to.                                         *)
Resting(call) ==
    /\ call \in Call /\ Shaped(call) /\ FnsOf(call) \subseteq Infos /\ call.at # "send"
    /\ call.kind # "reconnect"

LEMMA RestingTasks ==
    ASSUME sequence \in Nat
    PROVE  /\ \A s \in InfoState : Resting(StopThenSend(s)) /\ Resting(NewTask(s, "call", Info(s)))
           /\ \A s \in InfoState : Resting(NewTask(s, "start", None))
           /\ Infos \subseteq Function
<1>1. \A s \in InfoState : Info(s) \in Function
  BY DEF Info, Function
<1>2. None \notin Function /\ \A s \in InfoState : s \in Kind \ {"chunk", "reconnect"}
  BY RecordingAssumption DEF RecordingAssumption, Kind, InfoState
<1>3. \A s \in InfoState : Resting(NewTask(s, "call", Info(s)))
  BY <1>1, <1>2, NewTaskType DEF Resting, Shaped, Infos
<1>4. \A s \in InfoState, at \in {"stop", "start"} : Resting(NewTask(s, at, None))
  BY <1>2, NewTaskType DEF Resting, Shaped, Infos
<1> QED BY <1>1, <1>3, <1>4 DEF StopThenSend, Infos

(* What a step makes of the call in u, where Y are the numbers in flight   *)
(* and X the functions that are held afterwards.                           *)
Becomes(u, X, Y) ==
    \/ task'[u] = None
    \/ /\ Shaped(task'[u]) /\ FnsOf(task'[u]) \subseteq X
       /\ task'[u].at = "send" => Number(task'[u].fn.chunk, task'[u].seq) \in Y

(* IInv holds in every behaviour. *)
THEOREM Invariance == Spec => []IInv
(* A call that goes on as it was holds what it held. *)
<1>GoesOn. ASSUME WellFormed, NEW u \in Task, task'[u] = task[u], NEW X, Held \subseteq X,
                  NEW Y, InFlight \subseteq Y
           PROVE  Becomes(u, X, Y)
  <2> USE <1>GoesOn
  <2>1. CASE task[u] = None
    BY <2>1 DEF Becomes
  <2>2. CASE task[u] # None
    <3>1. Shaped(task[u]) /\ FnsOf(task[u]) \subseteq X
      BY <2>2 DEF WellFormed, Waiting, Held
    <3>2. task[u].at = "send" => Number(task[u].fn.chunk, task[u].seq) \in Y
      BY <2>2 DEF Waiting, InFlight
    <3> QED BY <3>1, <3>2 DEF Becomes
  <2> QED BY <2>1, <2>2
(* An invariant step: numbers in N may be new, given to a chunk now.       *)
<1>StepKeeps.
      ASSUME IInv, TypeOK', recorded <= recorded',
             NEW F, \A f \in F : /\ OfRecording(f)'
                                 /\ f.kind = "message" => Number(f.chunk, f.seq) \in Numbered,
             NEW N, \A m \in N : m.chunk \in 1 .. recorded',
             \/ N = {} /\ sequence' = sequence
             \/ \E c : N = {Number(c, sequence + 1)} /\ sequence' = sequence + 1,
             ToSet(toRetry') \subseteq Held \cup F,
             \A u \in Task : Becomes(u, Held \cup F, InFlight \cup N),
             Messages' \subseteq Numbered
      PROVE  IInv'
  <2> USE <1>StepKeeps
  <2>1. recorded \in Nat /\ recorded' \in Nat /\ sequence \in Nat
    BY DEF IInv, TypeOK
  <2>2. Held' \subseteq Held \cup F /\ InFlight' \subseteq InFlight \cup N
    <3>1. \A u \in Waiting' : /\ FnsOf(task'[u]) \subseteq Held \cup F
                              /\ task'[u].at = "send" => Number(task'[u].fn.chunk, task'[u].seq) \in InFlight \cup N
      BY DEF Waiting, Becomes
    <3>2. Held' = ToSet(toRetry') \cup UNION {FnsOf(task'[u]) : u \in Waiting'}
      BY DEF Held, FnsOf
    <3> QED BY <3>1, <3>2 DEF InFlight
  <2>3. \A u \in Waiting' : Shaped(task'[u])
    BY DEF Waiting, Becomes
  <2>4. \A f \in Held \cup F : OfRecording(f)'
    BY <2>1 DEF IInv, WellFormed, OfRecording
  <2>5. \A m \in Numbered : m.chunk \in 1 .. recorded
    <3>1. \A m \in InFlight : m.chunk \in 1 .. recorded
      <4>1. ASSUME NEW u \in Waiting, task[u].at = "send" PROVE task[u].fn.chunk \in 1 .. recorded
        <5>1. Shaped(task[u]) /\ task[u].fn \in Held
          BY <4>1 DEF IInv, WellFormed, Held, FnsOf, Shaped
        <5> QED BY <4>1, <5>1 DEF IInv, WellFormed, OfRecording, Shaped
      <4> QED BY <4>1 DEF InFlight, Number
    <3>2. \A f \in Held : f.kind = "message" => f.chunk \in 1 .. recorded
      BY DEF IInv, WellFormed, OfRecording
    <3> QED BY <3>1, <3>2 DEF IInv, WellFormed, Numbered, Number
  <2>6. Numbered' \subseteq Numbered \cup N
    <3>1. ASSUME NEW f \in Held', f.kind = "message" PROVE Number(f.chunk, f.seq) \in Numbered
      BY <2>2, <3>1 DEF Numbered
    <3>2. InFlight' \subseteq Numbered \cup N
      BY <2>2 DEF Numbered
    <3> QED BY <3>1, <3>2 DEF Numbered, Number
  <2>7. \A m \in Numbered' : m.seq \in 1 .. sequence'
    <3>1. ASSUME NEW m \in Numbered PROVE m.seq \in 1 .. sequence'
      BY <2>1 DEF IInv, Numbers
    <3> QED BY <2>1, <2>6, <3>1 DEF Number
  <2>8. Numbers'
    <3>1. ASSUME NEW m \in Numbered', NEW n \in Numbered', m.seq = n.seq PROVE m.chunk = n.chunk
      BY <2>1, <2>6, <3>1 DEF IInv, Numbers, Number
    <3> QED BY <2>7, <3>1 DEF Numbers
  <2>9. WellFormed'
    <3>1. \A m \in Messages' : m.chunk \in 1 .. recorded'
      BY <2>1, <2>5
    <3>2. \A f \in Held' : OfRecording(f)'
      BY <2>2, <2>4
    <3> QED BY <2>3, <3>1, <3>2 DEF WellFormed
  <2> QED BY <2>8, <2>9 DEF IInv
(* Where the end of a call leads: its slot is free, or it waits for an info *)
(* state event, or for the next function of the retry list.                *)
<1>ProceedKeeps.
      ASSUME TypeOK, WellFormed, NEW t \in Waiting, task[t].at \in {"call", "send"},
             NEW copy \in Seq(Function), ToSet(copy) \subseteq Held,
             NEW fns \in Seq(Function),
             \/ Proceed(t, fns)
             \/ EndReconnect(t, copy, fns) /\ task[t].kind = "reconnect" /\ errors' = errors
      PROVE  /\ state' \in State /\ errors' \in Nat /\ task' \in [Task -> Call \cup {None}]
             /\ toRetry' \in Seq(Function) /\ ToSet(toRetry') \subseteq Held \cup ToSet(fns) \cup Infos
             /\ \A u \in Task : Becomes(u, Held \cup ToSet(fns) \cup Infos, InFlight)
  <2> USE <1>ProceedKeeps
  <2> DEFINE X == Held \cup ToSet(fns) \cup Infos
             old == toRetry \o fns
  <2>1. /\ task \in [Task -> Call \cup {None}] /\ t \in Task /\ task[t] \in Call /\ sequence \in Nat
        /\ toRetry \in Seq(Function) /\ state \in State /\ errors \in Nat /\ None \notin Call
    BY RecordingAssumption DEF RecordingAssumption, TypeOK, Waiting, State
  <2>2. old \in Seq(Function) /\ ToSet(old) \subseteq X
    <3>1. ToSet(toRetry) \subseteq Held
      BY DEF Held
    <3> QED BY <2>1, <3>1, Joined
  <2>3. StateAfter(fns) \in State /\ ErrorsAfter(fns) \in Nat
    BY <2>1 DEF StateAfter, ErrorsAfter, State
  <2>4. /\ \A s \in InfoState : Resting(StopThenSend(s)) /\ Resting(NewTask(s, "call", Info(s)))
        /\ \A call : Resting(call) => /\ call \in Call /\ Shaped(call) /\ FnsOf(call) \subseteq X
                                      /\ call.at # "send"
    BY <2>1, RestingTasks DEF Resting
  <2>5. \A u \in Task : task'[u] = task[u] => Becomes(u, X, InFlight)
    BY <1>GoesOn
  <2>6. ASSUME NEW c \in Seq(Function), ToSet(c) \subseteq Held, EndReconnect(t, c, fns)
        PROVE  /\ state' \in State /\ task' \in [Task -> Call \cup {None}]
               /\ toRetry' \in Seq(Function) /\ ToSet(toRetry') \subseteq X
               /\ \A u \in Task : Becomes(u, X, InFlight)
    <3> DEFINE paused == StopThenSend("paused")
               disowned(u) == [task[u] EXCEPT !.own = FALSE, !.list = old]
    <3>1. /\ toRetry' = c /\ (state' = "paused" \/ state' = StateAfter(fns))
          /\ DOMAIN task' = Task
          /\ \A u \in Task : \/ u = t /\ (task'[u] = None \/ task'[u] = paused)
                             \/ u \in Waiting /\ task'[u] = disowned(u)
                             \/ task'[u] = task[u]
      BY <2>6 DEF EndReconnect, Reconnecting
    <3>2. Resting(paused)
      BY <2>4 DEF InfoState
    <3>3. ASSUME NEW u \in Waiting, task'[u] = disowned(u) PROVE task'[u] \in Call /\ Becomes(u, X, InFlight)
      <4>1. task[u] \in Call /\ Shaped(task[u]) /\ u \in Task
        BY <2>1 DEF WellFormed, Waiting
      <4>2. /\ disowned(u) \in Call
            /\ disowned(u).fn = task[u].fn /\ disowned(u).at = task[u].at /\ disowned(u).seq = task[u].seq
            /\ disowned(u).kind = task[u].kind
            /\ disowned(u).copy = task[u].copy /\ disowned(u).list = old
        <5> HIDE DEF old
        <5> QED BY <2>2, <4>1 DEF Call
      <4>3. FnsOf(disowned(u)) \subseteq X
        <5>1. ({task[u].fn} \ {None}) \cup ToSet(task[u].copy) \subseteq Held
          BY DEF Held, FnsOf
        <5> HIDE DEF disowned, old
        <5> QED BY <2>2, <4>2, <5>1 DEF FnsOf
      <4>4. task[u].at = "send" => Number(task[u].fn.chunk, task[u].seq) \in InFlight
        BY DEF InFlight
      <4>5. Shaped(disowned(u))
        <5> HIDE DEF disowned, old
        <5> QED BY <4>1, <4>2 DEF Shaped
      <4> HIDE DEF disowned, X
      <4> QED BY <3>3, <4>2, <4>3, <4>4, <4>5 DEF Becomes
    <3>4. \A u \in Task : task'[u] \in Call \cup {None} /\ Becomes(u, X, InFlight)
      <4> HIDE DEF paused, disowned, X
      <4> QED BY <2>1, <2>4, <2>5, <3>1, <3>2, <3>3 DEF Becomes
    <3>5. task' \in [Task -> Call \cup {None}]
      <4>1. task' = [u \in Task |-> task'[u]]
        BY <2>6 DEF EndReconnect
      <4> QED BY <3>4, <4>1
    <3>6. state' \in State
      BY <2>3, <3>1 DEF State, InfoState
    <3> QED BY <2>6, <3>1, <3>4, <3>5, <3>6
  <2>7. ASSUME NEW c \in Seq(Function), ToSet(c) \subseteq Held, NextRetry(t, c, fns),
               task[t].kind = "reconnect"
        PROVE  /\ state' \in State /\ task' \in [Task -> Call \cup {None}]
               /\ toRetry' \in Seq(Function) /\ ToSet(toRetry') \subseteq X
               /\ \A u \in Task : Becomes(u, X, InFlight)
    <3> DEFINE list == IF task[t].own THEN old ELSE task[t].list
               n == task[t].next + 1
    <3>1. CASE EndReconnect(t, c, fns)
      BY <2>6, <2>7, <3>1
    <3>2. CASE /\ n <= Len(list)
               /\ task' = [task EXCEPT ![t].fn = list[n], ![t].at = "call", ![t].next = n,
                                       ![t].copy = c, ![t].seq = sequence]
               /\ toRetry' = old /\ state' = StateAfter(fns)
      <4>1. list \in Seq(Function) /\ n \in 1 .. Len(list) /\ ToSet(list) \subseteq X
        <5>1. task[t].list \in Seq(Function) /\ task[t].next \in Nat
          BY <2>1 DEF Call
        <5>2. ToSet(task[t].list) \subseteq Held
          BY DEF Held, FnsOf
        <5> HIDE DEF old
        <5> QED BY <2>2, <3>2, <5>1, <5>2
      <4>2. list[n] \in Function /\ list[n] \in X /\ list[n] # None
        <5>1. None \notin Function
          BY RecordingAssumption DEF RecordingAssumption
        <5> HIDE DEF list, n, X
        <5> QED BY <4>1, <5>1 DEF ToSet
      <4>3. /\ task'[t] \in Call /\ task'[t].fn = list[n] /\ task'[t].at = "call"
            /\ task'[t].copy = c /\ task'[t].list = task[t].list
            /\ \A u \in Task \ {t} : task'[u] = task[u]
            /\ DOMAIN task' = Task
        <5> DEFINE new == [task[t] EXCEPT !.fn = list[n], !.at = "call", !.next = n,
                                          !.copy = c, !.seq = sequence]
        <5>1. n \in Nat
          BY <2>1 DEF Call
        <5>2. new \in Call /\ new.fn = list[n] /\ new.at = "call" /\ new.copy = c /\ new.list = task[t].list
          <6> HIDE DEF list, n
          <6> QED BY <2>1, <2>7, <4>2, <5>1 DEF Call
        <5>3. task' = [task EXCEPT ![t] = new]
          <6> HIDE DEF list, n
          <6> QED BY <2>1, <3>2
        <5> HIDE DEF new, list, n
        <5> QED BY <2>1, <5>2, <5>3
      <4>4. Becomes(t, X, InFlight)
        <5>1. ToSet(task[t].list) \subseteq Held
          BY DEF Held, FnsOf
        <5>2. Shaped(task'[t])
          BY <4>2, <4>3 DEF Shaped
        <5>3. FnsOf(task'[t]) \subseteq X
          <6> HIDE DEF list, n
          <6> QED BY <2>7, <4>2, <4>3, <5>1 DEF FnsOf
        <5> HIDE DEF X, list, n
        <5> QED BY <4>3, <5>2, <5>3 DEF Becomes
      <4>5. task' \in [Task -> Call \cup {None}]
        <5>1. task' = [u \in Task |-> task'[u]]
          BY <3>2, <2>1
        <5> QED BY <2>1, <4>3, <5>1
      <4> HIDE DEF X, old, list, n
      <4> QED BY <2>2, <2>3, <2>5, <3>2, <4>3, <4>4, <4>5
    <3> QED BY <2>7, <3>1, <3>2 DEF NextRetry
  <2>8. ASSUME Proceed(t, fns)
        PROVE  /\ state' \in State /\ errors' \in Nat /\ task' \in [Task -> Call \cup {None}]
               /\ toRetry' \in Seq(Function) /\ ToSet(toRetry') \subseteq X
               /\ \A u \in Task : Becomes(u, X, InFlight)
    <3>1. errors' \in Nat
      BY <2>3, <2>8 DEF Proceed
    <3>2. CASE /\ task[t].kind = "reconnect"
               /\ NextRetry(t, Spliced(task[t].copy, task[t].fn), fns)
      <4> DEFINE c == Spliced(task[t].copy, task[t].fn)
      <4>1. task[t].copy \in Seq(Function)
        BY <2>1 DEF Call
      <4>2. c \in Seq(Function) /\ ToSet(c) \subseteq ToSet(task[t].copy)
        BY <4>1, SplicedType
      <4>3. ToSet(task[t].copy) \subseteq Held
        BY DEF Held, FnsOf
      <4>4. NextRetry(t, c, fns)
        BY <3>2
      <4>5. ToSet(c) \subseteq Held
        BY <4>2, <4>3
      <4> HIDE DEF c, X
      <4> QED BY <2>7, <3>1, <3>2, <4>2, <4>4, <4>5
    <3>3. ASSUME NEW new \in Call \cup {None}, new # None => Resting(new),
                 task' = [task EXCEPT ![t] = new], toRetry' = old, state' = StateAfter(fns)
          PROVE  /\ state' \in State /\ task' \in [Task -> Call \cup {None}]
                 /\ toRetry' \in Seq(Function) /\ ToSet(toRetry') \subseteq X
                 /\ \A u \in Task : Becomes(u, X, InFlight)
      <4>1. task' \in [Task -> Call \cup {None}] /\ task'[t] = new /\ \A u \in Task \ {t} : task'[u] = task[u]
        BY <2>1, <3>3
      <4>2. Becomes(t, X, InFlight)
        <5> HIDE DEF X, old
        <5> QED BY <2>4, <3>3, <4>1 DEF Becomes
      <4> HIDE DEF X, old
      <4> QED BY <2>2, <2>3, <2>5, <3>3, <4>1, <4>2
    <3>4. CASE /\ task[t].kind \in {"paused", "stopped"}
               /\ task' = [task EXCEPT ![t] = NewTask(task[t].kind, "call", Info(task[t].kind))]
               /\ toRetry' = old /\ state' = StateAfter(fns)
      <4>1. task[t].kind \in InfoState
        BY <3>4 DEF InfoState
      <4> HIDE DEF X, old
      <4>2. Resting(NewTask(task[t].kind, "call", Info(task[t].kind)))
        BY <2>4, <4>1
      <4>3. NewTask(task[t].kind, "call", Info(task[t].kind)) \in Call
        BY <2>4, <4>2
      <4> QED BY <3>1, <3>3, <3>4, <4>2, <4>3
    <3>5. CASE task' = [task EXCEPT ![t] = None] /\ toRetry' = old /\ state' = StateAfter(fns)
      <4> HIDE DEF X, old
      <4> QED BY <3>1, <3>3, <3>5
    <3> QED BY <2>1, <2>8, <3>2, <3>4, <3>5 DEF Proceed
  <2> QED BY <2>1, <2>6, <2>8
(* A call begins or ends in slot t, the others go on.                      *)
<1>OneCall.
      ASSUME IInv, NEW t \in Task, NEW new \in Call \cup {None}, task' = [task EXCEPT ![t] = new],
             NEW X, Held \subseteq X, NEW Y, InFlight \subseteq Y,
             new # None => /\ Shaped(new) /\ FnsOf(new) \subseteq X
                           /\ new.at = "send" => Number(new.fn.chunk, new.seq) \in Y
      PROVE  task' \in [Task -> Call \cup {None}] /\ \A u \in Task : Becomes(u, X, Y)
  <2> USE <1>OneCall
  <2>1. task \in [Task -> Call \cup {None}]
    BY DEF IInv, TypeOK
  <2>2. task' \in [Task -> Call \cup {None}] /\ task'[t] = new /\ \A u \in Task \ {t} : task'[u] = task[u]
    BY <2>1
  <2>3. \A u \in Task \ {t} : Becomes(u, X, Y)
    BY <2>2, <1>GoesOn DEF IInv
  <2>4. Becomes(t, X, Y)
    BY <2>2 DEF Becomes
  <2> QED BY <2>2, <2>3, <2>4
(* What every step may do that records and numbers nothing new.            *)
<1>Plain.
      ASSUME IInv, state' \in State, recorder' \in {"on", "off"}, destroyed' \in {"no", "stopping", "yes"},
             begin' \in [answered : BOOLEAN, inRoom : BOOLEAN, created : BOOLEAN],
             errors' \in Nat, task' \in [Task -> Call \cup {None}], toRetry' \in Seq(Function),
             ToSet(toRetry') \subseteq Held \cup Infos,
             \A u \in Task : Becomes(u, Held \cup Infos, InFlight),
             commands' \in 0 .. scenario.commands, failures' \in 0 .. scenario.failures,
             reconnects' \in 0 .. scenario.reconnects,
             UNCHANGED <<recorded, sequence, network, scenario>>
      PROVE  IInv'
  <2> USE <1>Plain
  <2>1. TypeOK'
    BY DEF IInv, TypeOK, State, network
  <2>2. \A f \in Infos : f.kind = "info" /\ OfRecording(f)'
    BY DEF Infos, Info, OfRecording
  <2>3. Messages' \subseteq Numbered
    BY DEF Messages, Numbered, network
  <2>4. recorded \in Nat /\ sequence' = sequence /\ recorded <= recorded'
    BY DEF IInv, TypeOK
  <2>5. \A u \in Task : Becomes(u, Held \cup Infos, InFlight \cup {})
    OBVIOUS
  <2> QED BY <2>1, <2>2, <2>3, <2>4, <2>5, <1>StepKeeps
(* A step that ends a call, of which fns failed.                           *)
<1>EndKeeps.
      ASSUME IInv, NEW t \in Waiting, task[t].at \in {"call", "send"},
             NEW copy \in Seq(Function), ToSet(copy) \subseteq Held,
             NEW fns \in Seq(Function),
             \A f \in ToSet(fns) : /\ OfRecording(f)
                                   /\ f.kind = "message" => Number(f.chunk, f.seq) \in Numbered,
             \/ Proceed(t, fns)
             \/ EndReconnect(t, copy, fns) /\ task[t].kind = "reconnect" /\ errors' = errors,
             Messages' \subseteq Numbered, BagToSet(sent)' \subseteq [chunk : 1 .. scenario.chunks, seq : Nat],
             infos' \in Seq([state : InfoState, last : Nat]), failures' \in 0 .. scenario.failures,
             unanswered' \in [1 .. scenario.chunks -> Nat],
             UNCHANGED <<begin, recorder, destroyed, recorded, sequence, commands, reconnects, scenario>>
      PROVE  IInv'
  <2> USE <1>EndKeeps
  <2> DEFINE F == ToSet(fns) \cup Infos
  <2>1. TypeOK /\ WellFormed /\ recorded \in Nat
    BY DEF IInv, TypeOK
  <2>2. /\ state' \in State /\ errors' \in Nat /\ task' \in [Task -> Call \cup {None}]
        /\ toRetry' \in Seq(Function) /\ ToSet(toRetry') \subseteq Held \cup ToSet(fns) \cup Infos
        /\ \A u \in Task : Becomes(u, Held \cup ToSet(fns) \cup Infos, InFlight)
    BY <2>1, <1>ProceedKeeps
  <2>3. Held \cup ToSet(fns) \cup Infos = Held \cup F /\ InFlight \cup {} = InFlight
    OBVIOUS
  <2>4. TypeOK'
    BY <2>1, <2>2 DEF TypeOK, State
  <2>5. /\ \A f \in F : OfRecording(f)'
        /\ \A f \in F : f.kind = "message" => Number(f.chunk, f.seq) \in Numbered
    <3>1. \A f \in Infos : f.kind = "info" /\ OfRecording(f)
      BY DEF Infos, Info, OfRecording
    <3>2. \A f \in F : OfRecording(f)
      BY <3>1
    <3> QED BY <3>1, <3>2 DEF OfRecording
  <2> HIDE DEF F
  <2>6. ToSet(toRetry') \subseteq Held \cup F /\ \A u \in Task : Becomes(u, Held \cup F, InFlight \cup {})
    BY <2>2, <2>3, Zenon
  <2>7. recorded <= recorded' /\ sequence' = sequence
    BY <2>1
  <2> QED BY <2>4, <2>5, <2>6, <2>7, <1>StepKeeps
<1>1. Init => IInv
  <2> SUFFICES ASSUME Init PROVE IInv
    OBVIOUS
  <2>1. scenario \in Scenario
    BY RecordingAssumption DEF RecordingAssumption, Init
  <2>2. \A t \in Task : task[t] = None
    BY DEF Init
  <2>3. Waiting = {} /\ ToSet(toRetry) = {}
    BY <2>2 DEF Init, Waiting, ToSet
  <2>4. Messages = {} /\ Held = {} /\ InFlight = {}
    BY <2>3 DEF Init, Messages, EmptyBag, SetToBag, BagToSet, Held, InFlight
  <2>5. TypeOK
    BY <2>1, <2>4, EmptySeq DEF Init, TypeOK, InfoState, Messages, Scenario
  <2> QED BY <2>3, <2>4, <2>5 DEF IInv, WellFormed, Numbers, Numbered
<1>2. IInv /\ [Next]_vars => IInv'
  <2> SUFFICES ASSUME IInv, [Next]_vars PROVE IInv'
    OBVIOUS
  <2>1. /\ TypeOK /\ WellFormed /\ scenario \in Scenario /\ sequence \in Nat /\ recorded \in Nat
        /\ task \in [Task -> Call \cup {None}] /\ toRetry \in Seq(Function) /\ state \in State
        /\ errors \in Nat /\ None \notin Call
    BY RecordingAssumption DEF RecordingAssumption, IInv, TypeOK, State
  <2>2. /\ commands \in Nat /\ failures \in Nat /\ reconnects \in Nat
        /\ scenario.commands \in Nat /\ scenario.failures \in Nat /\ scenario.reconnects \in Nat
        /\ scenario.chunks \in Nat
    BY <2>1 DEF Scenario, IInv, TypeOK
  <2>3. ToSet(toRetry) \subseteq Held \cup Infos
    BY DEF Held
  <2>4. /\ \A s \in InfoState : Resting(StopThenSend(s)) /\ Resting(NewTask(s, "call", Info(s)))
                                /\ Resting(NewTask(s, "start", None))
        /\ \A call : Resting(call) => /\ call \in Call /\ Shaped(call) /\ FnsOf(call) \subseteq Infos
                                      /\ call.at # "send"
    BY <2>1, RestingTasks DEF Resting
  <2>5. /\ (UNCHANGED task => \A u \in Task : Becomes(u, Held \cup Infos, InFlight))
    BY <2>1, <1>GoesOn
  <2>6. ASSUME NEW t \in Task, NEW new \in Call \cup {None}, new # None => Resting(new),
               task' = [task EXCEPT ![t] = new]
        PROVE  /\ task' \in [Task -> Call \cup {None}]
               /\ \A u \in Task : Becomes(u, Held \cup Infos, InFlight)
    BY <2>4, <2>6, <1>OneCall
  <2>7. FreeSlot \subseteq Task
    BY DEF FreeSlot, Free
  <2>8. ToSet(<<>>) = {} /\ <<>> \in Seq(Function) /\ \A f \in Function : <<f>> \in Seq(Function) /\ ToSet(<<f>>) = {f}
    BY DEF ToSet
  <2> DEFINE Typed == /\ begin \in [answered : BOOLEAN, inRoom : BOOLEAN, created : BOOLEAN]
                      /\ recorder \in {"on", "off"} /\ destroyed \in {"no", "stopping", "yes"}
                      /\ commands \in 0 .. scenario.commands /\ failures \in 0 .. scenario.failures
                      /\ reconnects \in 0 .. scenario.reconnects
  <2>9. Typed
    BY DEF IInv, TypeOK
  <2> HIDE DEF Typed
  <2>10. CASE Answered
    BY <2>1, <2>3, <2>5, <2>9, <2>10, <1>Plain DEF Answered, Typed, bounds, network
  <2>11. CASE OnRoomStateEvents
    <3>1. /\ task' \in [Task -> Call \cup {None}]
          /\ \A u \in Task : Becomes(u, Held \cup Infos, InFlight)
      BY <2>1, <2>4, <2>5, <2>6, <2>7, <2>11 DEF OnRoomStateEvents, Create, InfoState
    <3>2. begin' \in [answered : BOOLEAN, inRoom : BOOLEAN, created : BOOLEAN]
      BY <2>9, <2>11 DEF OnRoomStateEvents, Create, Typed
    <3> QED BY <2>1, <2>3, <2>9, <2>11, <3>1, <3>2, <1>Plain DEF OnRoomStateEvents, Typed, bounds, network
  <2>12. CASE Pause \/ Stop \/ Resume
    <3>1. Command /\ state' \in State
      BY <2>12 DEF Pause, Stop, Resume, State, InfoState
    <3>2. /\ task' \in [Task -> Call \cup {None}]
          /\ \A u \in Task : Becomes(u, Held \cup Infos, InFlight)
      BY <2>1, <2>4, <2>5, <2>6, <2>7, <2>12 DEF Pause, Stop, Resume, InfoState
    <3>3. commands' \in 0 .. scenario.commands
      BY <2>2, <3>1 DEF Command
    <3> QED BY <2>1, <2>3, <2>9, <3>1, <3>2, <3>3, <1>Plain DEF Command, Typed, network
  <2>13. ASSUME NEW t \in Task, RecorderStarted(t) PROVE IInv'
    <3>1. /\ task' \in [Task -> Call \cup {None}]
          /\ \A u \in Task : Becomes(u, Held \cup Infos, InFlight)
      BY <2>1, <2>4, <2>6, <2>13 DEF RecorderStarted, InfoState
    <3>2. recorder' \in {"on", "off"}
      BY <2>9, <2>13 DEF RecorderStarted, Typed
    <3> QED BY <2>1, <2>3, <2>9, <2>13, <3>1, <3>2, <1>Plain DEF RecorderStarted, Typed, bounds, network
  <2>14. CASE OnReconnectIdle
    <3>1. /\ task' \in [Task -> Call \cup {None}]
          /\ \A u \in Task : Becomes(u, Held \cup Infos, InFlight)
      BY <2>1, <2>4, <2>6, <2>7, <2>14 DEF OnReconnectIdle, InfoState
    <3>2. reconnects' \in 0 .. scenario.reconnects /\ state' \in State
      BY <2>2, <2>14 DEF OnReconnectIdle, State, InfoState
    <3> QED BY <2>1, <2>3, <2>9, <2>14, <3>1, <3>2, <1>Plain DEF OnReconnectIdle, Typed, network
  <2>15. CASE OnBeforeRedaction
    <3>1. state' \in State /\ destroyed' \in {"no", "stopping", "yes"}
      BY <2>15 DEF OnBeforeRedaction, State, InfoState
    <3> QED BY <2>1, <2>3, <2>5, <2>9, <2>15, <3>1, <1>Plain DEF OnBeforeRedaction, Typed, bounds, network
  <2>16. CASE OnChunkRecorded
    <3>0. PICK f : f = Upload(recorded')
      OBVIOUS
    <3> DEFINE X == Held \cup {f}
    <3>1. recorded' \in 0 .. scenario.chunks /\ recorded' = recorded + 1 /\ recorded <= recorded'
      BY <2>1, <2>2, <2>16 DEF OnChunkRecorded
    <3>2. f \in Function /\ f.kind = "upload" /\ OfRecording(f)'
      BY <2>1, <3>0, <3>1 DEF Function, Upload, OfRecording
    <3>3. /\ NewTask("chunk", "call", f) \in Call /\ Shaped(NewTask("chunk", "call", f))
          /\ FnsOf(NewTask("chunk", "call", f)) \subseteq X /\ NewTask("chunk", "call", f).at # "send"
      <4>1. f # None
        BY <3>2, RecordingAssumption DEF RecordingAssumption
      <4>2. "chunk" \in Kind /\ {f} \subseteq X
        BY DEF Kind
      <4>3. /\ NewTask("chunk", "call", f) \in Call /\ FnsOf(NewTask("chunk", "call", f)) = {f}
            /\ NewTask("chunk", "call", f).kind = "chunk" /\ NewTask("chunk", "call", f).at = "call"
            /\ NewTask("chunk", "call", f).fn = f
        BY <2>1, <3>2, <4>1, <4>2, NewTaskType
      <4> HIDE DEF X
      <4> QED BY <4>1, <4>2, <4>3 DEF Shaped
    <3>4. task' \in [Task -> Call \cup {None}] /\ \A u \in Task : Becomes(u, X, InFlight)
      <4>1. PICK t \in FreeSlot : task' = [task EXCEPT ![t] = NewTask("chunk", "call", f)]
        BY <2>16, <3>0 DEF OnChunkRecorded
      <4> QED BY <2>7, <3>3, <4>1, <1>OneCall
    <3>5. TypeOK'
      BY <2>1, <2>2, <2>16, <3>1, <3>4 DEF IInv, OnChunkRecorded, TypeOK, bounds, network
    <3>6. Messages' \subseteq Numbered /\ sequence' = sequence /\ ToSet(toRetry') \subseteq Held
      BY <2>16 DEF OnChunkRecorded, Messages, Numbered, network, Held
    <3> QED
      <4>1. /\ \A g \in {f} : /\ OfRecording(g)'
                              /\ g.kind = "message" => Number(g.chunk, g.seq) \in Numbered
            /\ ToSet(toRetry') \subseteq Held \cup {f}
        BY <3>2, <3>6
      <4>2. \A u \in Task : Becomes(u, Held \cup {f}, InFlight \cup {})
        BY <3>4
      <4> HIDE DEF X
      <4> QED BY <3>1, <3>5, <3>6, <4>1, <4>2, <1>StepKeeps
  <2>17. CASE RecorderStopped
    <3>0. PICK f : f = Upload(recorded')
      OBVIOUS
    <3> DEFINE Send(u) == NewTask(task[u].kind, "call", Info(task[u].kind))
               Handed(u) == NewTask(task[u].kind, "call", f)
               X == Held \cup Infos \cup IF recorded' = recorded THEN {} ELSE {f}
               stopping == {t \in Waiting : task[t].at = "stop"}
    <3>1. /\ recorded' \in 0 .. scenario.chunks /\ recorded <= recorded'
          /\ recorded' # recorded => recorded' = recorded + 1
      BY <2>1, <2>2, <2>17 DEF RecorderStopped, IInv, TypeOK
    <3>2. f \in Function /\ f.kind = "upload" /\ f # None
          /\ (recorded' # recorded => OfRecording(f)')
      BY <2>1, <3>0, <3>1, RecordingAssumption DEF RecordingAssumption, Function, Upload, OfRecording
    <3>3. \A u \in stopping : task[u].kind \in InfoState /\ u \in Task
      BY <2>1 DEF WellFormed, Shaped, Waiting, Call
    <3>4. \A u \in stopping : /\ Send(u) \in Call /\ Shaped(Send(u)) /\ FnsOf(Send(u)) \subseteq X
                              /\ Send(u).at # "send"
      <4>1. Infos \subseteq X
        OBVIOUS
      <4> HIDE DEF X
      <4> QED BY <2>4, <3>3, <4>1
    <3>5. \A u \in stopping : /\ Handed(u) \in Call /\ Shaped(Handed(u)) /\ FnsOf(Handed(u)) = {f}
                              /\ Handed(u).at # "send"
      <4>1. \A k \in InfoState : k \in Kind \ {"chunk", "reconnect"}
        BY DEF Kind, InfoState
      <4> QED BY <2>1, <3>2, <3>3, <4>1, NewTaskType DEF Shaped
    <3>6. \A u \in Task : \/ task'[u] = task[u]
                          \/ u \in stopping /\ task'[u] = Send(u)
                          \/ u \in stopping /\ task'[u] = Handed(u) /\ recorded' # recorded
      BY <2>1, <2>17, <3>0 DEF RecorderStopped
    <3>7. \A u \in Task : task'[u] \in Call \cup {None} /\ Becomes(u, X, InFlight)
      <4>1. \A u \in Task : task'[u] = task[u] => Becomes(u, X, InFlight)
        BY <2>1, <1>GoesOn
      <4>2. recorded' # recorded => {f} \subseteq X
        OBVIOUS
      <4> HIDE DEF Send, Handed, X, stopping
      <4> QED BY <2>1, <3>4, <3>5, <3>6, <4>1, <4>2 DEF Becomes
    <3>8. task' \in [Task -> Call \cup {None}]
      <4>1. task' = [u \in Task |-> task'[u]]
        BY <2>17 DEF RecorderStopped
      <4> QED BY <3>7, <4>1
    <3>9. state' \in State /\ errors' \in Nat /\ recorder' \in {"on", "off"}
          /\ destroyed' \in {"no", "stopping", "yes"}
      BY <2>1, <2>9, <2>17 DEF RecorderStopped, State, Typed
    <3>10. TypeOK'
      BY <2>1, <2>17, <3>1, <3>8, <3>9 DEF IInv, RecorderStopped, TypeOK, State, bounds, network
    <3>11. Messages' \subseteq Numbered /\ sequence' = sequence /\ ToSet(toRetry') \subseteq Held
      BY <2>17 DEF RecorderStopped, Messages, Numbered, network, Held
    <3>12. \A g \in Infos : g.kind = "info" /\ OfRecording(g)'
      BY DEF Infos, Info, OfRecording
    <3> DEFINE F == Infos \cup IF recorded' = recorded THEN {} ELSE {f}
    <3>13. /\ \A g \in F : OfRecording(g)'
           /\ \A g \in F : g.kind = "message" => Number(g.chunk, g.seq) \in Numbered
      BY <3>2, <3>12
    <3>14. \A u \in Task : Becomes(u, Held \cup F, InFlight \cup {})
      <4>1. X = Held \cup F
        OBVIOUS
      <4>2. InFlight \cup {} = InFlight
        OBVIOUS
      <4> HIDE DEF X, F
      <4> QED BY <3>7, <4>1, <4>2
    <3>15. ToSet(toRetry') \subseteq Held \cup F
      <4> HIDE DEF F
      <4> QED BY <3>11
    <3> HIDE DEF F
    <3> QED BY <3>1, <3>10, <3>11, <3>13, <3>14, <3>15, <1>StepKeeps
  <2>18. ASSUME NEW t \in Task, Uploaded(t) PROVE IInv'
    <3> DEFINE m == Number(task[t].fn.chunk, sequence + 1)
               new == [task[t] EXCEPT !.at = "send", !.seq = sequence + 1]
    <3>1. t \in Waiting /\ task[t] \in Call /\ Shaped(task[t]) /\ task[t].fn # None
          /\ task[t].fn.kind = "upload" /\ FnsOf(task[t]) \subseteq Held
      BY <2>1, <2>18 DEF Uploaded, AtCall, Waiting, WellFormed, Shaped, Held
    <3>2. task[t].fn \in Held /\ m.chunk \in 1 .. recorded
      BY <2>1, <3>1 DEF FnsOf, WellFormed, OfRecording, Number
    <3>3. /\ new \in Call /\ new.fn = task[t].fn /\ new.at = "send" /\ new.kind = task[t].kind
          /\ new.copy = task[t].copy /\ new.list = task[t].list /\ new.seq = sequence + 1
          /\ task' = [task EXCEPT ![t] = new]
      <4>1. task' = [task EXCEPT ![t] = new]
        BY <2>1, <2>18 DEF Uploaded
      <4>2. sequence + 1 \in Nat /\ task[t] \in Call
        BY <2>1, <3>1
      <4>3. /\ new \in Call /\ new.fn = task[t].fn /\ new.at = "send" /\ new.kind = task[t].kind
            /\ new.copy = task[t].copy /\ new.list = task[t].list /\ new.seq = sequence + 1
        BY <4>2 DEF Call
      <4> QED BY <4>1, <4>3
    <3>4. task' \in [Task -> Call \cup {None}] /\ \A u \in Task : Becomes(u, Held, InFlight \cup {m})
      <4>1. Shaped(new) /\ FnsOf(new) \subseteq Held
        <5> HIDE DEF new
        <5> QED BY <3>1, <3>3 DEF Shaped, FnsOf
      <4>2. Number(new.fn.chunk, new.seq) \in InFlight \cup {m} /\ InFlight \subseteq InFlight \cup {m}
        BY <3>3
      <4> DEFINE Y == InFlight \cup {m}
      <4>3. InFlight \subseteq Y
        OBVIOUS
      <4>4. new # None => /\ Shaped(new) /\ FnsOf(new) \subseteq Held
                          /\ new.at = "send" => Number(new.fn.chunk, new.seq) \in Y
        BY <4>1, <4>2
      <4> HIDE DEF new, Y
      <4>5. task' \in [Task -> Call \cup {None}] /\ \A u \in Task : Becomes(u, Held, Y)
        BY <3>3, <4>3, <4>4, <1>OneCall
      <4> QED BY <4>5 DEF Y
    <3>5. TypeOK'
      <4>1. sequence' \in Nat /\ UNCHANGED <<begin, state, recorder, destroyed, recorded, errors,
                                             toRetry, network, bounds>>
        BY <2>1, <2>18 DEF Uploaded
      <4> QED BY <2>1, <3>4, <4>1 DEF TypeOK, bounds, network
    <3>6. Messages' \subseteq Numbered /\ ToSet(toRetry') \subseteq Held /\ recorded' = recorded
          /\ recorded <= recorded' /\ sequence' = sequence + 1
      BY <2>1, <2>18 DEF Uploaded, Messages, Numbered, network, Held
    <3> QED
      <4>1. {m} = {Number(task[t].fn.chunk, sequence + 1)}
        OBVIOUS
      <4>2. \A u \in Task : Becomes(u, Held \cup {}, InFlight \cup {m})
        BY <3>4
      <4>3. \A x \in {m} : x.chunk \in 1 .. recorded'
        BY <3>2, <3>6
      <4>4. ToSet(toRetry') \subseteq Held \cup {}
        BY <3>6
      <4> HIDE DEF m
      <4> QED BY <3>5, <3>6, <4>1, <4>2, <4>3, <4>4, <1>StepKeeps
  <2>19. \A t \in Waiting : /\ Shaped(task[t]) /\ task[t] \in Call /\ FnsOf(task[t]) \subseteq Held
                            /\ task[t].at \in {"call", "send"} =>
                                 /\ task[t].fn \in Held /\ task[t].fn \in Function
                                 /\ OfRecording(task[t].fn)
    BY <2>1 DEF Waiting, WellFormed, Held, FnsOf, Shaped, Call
  <2>20. ASSUME NEW t \in Task, MessageArrives(t)
         PROVE  /\ BagToSet(sent)' \subseteq [chunk : 1 .. scenario.chunks, seq : Nat]
                /\ Messages' \subseteq Numbered
                /\ t \in Waiting /\ task[t].at \in {"call", "send"}
                /\ task[t].fn.chunk \in 1 .. scenario.chunks
                /\ infos' \in Seq([state : InfoState, last : Nat])
    <3>1. PICK m : /\ sent' = sent (+) SetToBag({m}) /\ m \in Numbered /\ m.chunk = task[t].fn.chunk
                   /\ m.chunk \in 1 .. recorded /\ m \in [chunk : Nat, seq : Nat]
      <4>1. CASE AtCall(t, "message") /\ sent' = sent (+) SetToBag({Number(task[t].fn.chunk, task[t].fn.seq)})
        <5>1. t \in Waiting
          BY <4>1 DEF AtCall, Waiting
        <5>2. task[t].fn \in Held /\ task[t].fn \in Function /\ OfRecording(task[t].fn)
              /\ task[t].fn.kind = "message"
          BY <2>19, <4>1, <5>1 DEF AtCall
        <5> DEFINE m == Number(task[t].fn.chunk, task[t].fn.seq)
        <5>3. m \in Numbered
          BY <5>2 DEF Numbered
        <5>4. m.chunk \in 1 .. recorded /\ m \in [chunk : Nat, seq : Nat] /\ m.chunk = task[t].fn.chunk
          BY <5>2 DEF Function, OfRecording, Number
        <5> QED BY <4>1, <5>3, <5>4
      <4>2. CASE task[t] # None /\ task[t].at = "send" /\ sent' = sent (+) SetToBag({Number(task[t].fn.chunk, task[t].seq)})
        <5>1. t \in Waiting
          BY <4>2 DEF Waiting
        <5>2. task[t].fn \in Function /\ OfRecording(task[t].fn) /\ task[t].fn.kind = "upload"
              /\ task[t].seq \in Nat
          BY <2>19, <4>2, <5>1 DEF Shaped, Call
        <5>3. Number(task[t].fn.chunk, task[t].seq) \in Numbered
          BY <4>2, <5>1 DEF Numbered, InFlight
        <5> DEFINE m == Number(task[t].fn.chunk, task[t].seq)
        <5>4. m.chunk \in 1 .. recorded /\ m \in [chunk : Nat, seq : Nat] /\ m.chunk = task[t].fn.chunk
          BY <5>2 DEF Function, OfRecording, Number
        <5> QED BY <4>2, <5>3, <5>4
      <4> QED BY <2>20, <4>1, <4>2 DEF MessageArrives, MessageOf, AtCall, Number
    <3>2. Messages' = Messages \cup {m} /\ Messages = BagToSet(sent)
      BY <3>1 DEF Messages, BagToSet, (+), SetToBag
    <3>3. m.chunk \in 1 .. scenario.chunks
      BY <2>1, <2>2, <3>1 DEF IInv, TypeOK
    <3>4. BagToSet(sent)' \subseteq [chunk : 1 .. scenario.chunks, seq : Nat] /\ Messages' \subseteq Numbered
      <4>1. BagToSet(sent)' = Messages' /\ Messages \subseteq Numbered
        BY DEF Messages, Numbered
      <4> QED BY <2>1, <3>1, <3>2, <3>3, <4>1 DEF TypeOK
    <3>5. infos' \in Seq([state : InfoState, last : Nat])
      BY <2>1, <2>20 DEF MessageArrives, TypeOK
    <3> QED BY <2>20, <3>1, <3>3, <3>4, <3>5 DEF MessageArrives, AtCall, Waiting
  <2>21. ASSUME NEW t \in Task, InfoArrives(t)
         PROVE  /\ BagToSet(sent)' \subseteq [chunk : 1 .. scenario.chunks, seq : Nat]
                /\ Messages' \subseteq Numbered
                /\ t \in Waiting /\ task[t].at = "call"
                /\ unanswered' \in [1 .. scenario.chunks -> Nat]
                /\ infos' \in Seq([state : InfoState, last : Nat])
    <3>1. t \in Waiting /\ task[t].at = "call" /\ task[t].fn.kind = "info"
      BY <2>21 DEF InfoArrives, AtCall, Waiting
    <3>2. [state |-> task[t].fn.state, last |-> task[t].seq] \in [state : InfoState, last : Nat]
      BY <2>19, <3>1 DEF OfRecording, Call
    <3>3. infos' \in Seq([state : InfoState, last : Nat])
      BY <2>1, <2>21, <3>2 DEF InfoArrives, TypeOK
    <3>4. /\ Messages' \subseteq Numbered /\ BagToSet(sent)' \subseteq [chunk : 1 .. scenario.chunks, seq : Nat]
          /\ unanswered' \in [1 .. scenario.chunks -> Nat]
      BY <2>1, <2>21 DEF InfoArrives, Messages, Numbered, TypeOK
    <3> QED BY <3>1, <3>3, <3>4
  <2>22. ASSUME NEW t \in Task, MessageSent(t) \/ InfoSent(t) PROVE IInv'
    <3>1. /\ MessageArrives(t) \/ InfoArrives(t)
          /\ MessageSent(t) => unanswered' = unanswered
          /\ UNCHANGED <<begin, recorder, destroyed, recorded, sequence, commands, reconnects, scenario>>
          /\ failures' \in 0 .. scenario.failures /\ Proceed(t, <<>>)
      BY <2>9, <2>22 DEF MessageSent, InfoSent, Typed, bounds
    <3>2. /\ BagToSet(sent)' \subseteq [chunk : 1 .. scenario.chunks, seq : Nat]
          /\ Messages' \subseteq Numbered /\ t \in Waiting /\ task[t].at \in {"call", "send"}
          /\ infos' \in Seq([state : InfoState, last : Nat])
      BY <2>20, <2>21, <3>1
    <3>3. unanswered' \in [1 .. scenario.chunks -> Nat]
      BY <2>1, <2>21, <2>22, <3>1 DEF TypeOK, InfoSent
    <3> QED BY <2>8, <3>1, <3>2, <3>3, <1>EndKeeps
  <2>23. ASSUME NEW t \in Task, Failing(t), Messages' \subseteq Numbered,
                BagToSet(sent)' \subseteq [chunk : 1 .. scenario.chunks, seq : Nat],
                infos' \in Seq([state : InfoState, last : Nat]),
                unanswered' \in [1 .. scenario.chunks -> Nat]
         PROVE  IInv'
    <3> USE <2>23
    <3>1. /\ t \in Waiting /\ failures' \in 0 .. scenario.failures /\ Throws(t)
          /\ UNCHANGED <<begin, recorder, destroyed, recorded, sequence, commands, reconnects, scenario>>
      BY <2>2 DEF Failing, Waiting
    <3>2. ASSUME NEW f \in Function, Proceed(t, <<f>>), task[t].at \in {"call", "send"}, OfRecording(f),
                 f.kind = "message" => Number(f.chunk, f.seq) \in Numbered
          PROVE  IInv'
      <4>1. <<f>> \in Seq(Function) /\ ToSet(<<f>>) = {f} /\ ToSet(<<>>) \subseteq Held
        BY <2>8, <3>2
      <4>2. \A g \in ToSet(<<f>>) : /\ OfRecording(g)
                                    /\ g.kind = "message" => Number(g.chunk, g.seq) \in Numbered
        BY <3>2, <4>1
      <4> QED BY <2>8, <3>1, <3>2, <4>1, <4>2, <1>EndKeeps
    <3>3. CASE task[t].at = "call" /\ Proceed(t, <<task[t].fn>>)
      <4>1. task[t].fn.kind = "message" => Number(task[t].fn.chunk, task[t].fn.seq) \in Numbered
        BY <2>19, <3>1, <3>3 DEF Numbered
      <4> QED BY <2>19, <3>1, <3>2, <3>3, <4>1
    <3>4. CASE /\ task[t].at = "call" /\ task[t].kind = "reconnect"
               /\ EndReconnect(t, task[t].copy, <<>>) /\ errors' = errors
      <4>1. task[t].copy \in Seq(Function) /\ ToSet(task[t].copy) \subseteq Held
        BY <2>19, <3>1 DEF Call, FnsOf
      <4> QED BY <2>8, <3>1, <3>4, <4>1, <1>EndKeeps
    <3>5. CASE task[t].at = "send" /\ Proceed(t, <<Message(task[t].fn.chunk, task[t].seq)>>)
      <4> DEFINE f == Message(task[t].fn.chunk, task[t].seq)
      <4>1. task[t].fn \in Function /\ OfRecording(task[t].fn) /\ task[t].fn.kind = "upload" /\ task[t].seq \in Nat
        BY <2>19, <3>1, <3>5 DEF Shaped, Call
      <4>2. f \in Function /\ OfRecording(f) /\ f.chunk = task[t].fn.chunk /\ f.seq = task[t].seq
        BY <4>1 DEF Function, OfRecording, Message
      <4>3. Number(f.chunk, f.seq) \in Numbered
        <5>1. Number(task[t].fn.chunk, task[t].seq) \in InFlight
          BY <3>1, <3>5 DEF InFlight
        <5> HIDE DEF f
        <5> QED BY <4>2, <5>1 DEF Numbered
      <4>4. Proceed(t, <<f>>)
        BY <3>5
      <4> HIDE DEF f
      <4> QED BY <3>2, <3>5, <4>2, <4>3, <4>4
    <3> QED BY <3>1, <3>3, <3>4, <3>5 DEF Throws
  <2>24. ASSUME NEW t \in Task, RequestFailed(t) PROVE IInv'
    <3>1. /\ Failing(t) /\ Messages' \subseteq Numbered
          /\ BagToSet(sent)' \subseteq [chunk : 1 .. scenario.chunks, seq : Nat]
          /\ infos' \in Seq([state : InfoState, last : Nat]) /\ unanswered' \in [1 .. scenario.chunks -> Nat]
      BY <2>1, <2>24 DEF RequestFailed, Messages, Numbered, TypeOK, Failing, network
    <3> QED BY <2>23, <3>1
  <2>25. ASSUME NEW t \in Task, AnswerLost(t) PROVE IInv'
    <3>1. Failing(t)
      BY <2>25 DEF AnswerLost
    <3>2. CASE /\ MessageArrives(t)
               /\ unanswered' = [unanswered EXCEPT ![task[t].fn.chunk] = @ + 1]
      <4>1. unanswered' \in [1 .. scenario.chunks -> Nat]
        BY <2>1, <2>20, <3>2 DEF TypeOK
      <4> QED BY <2>20, <2>23, <3>1, <3>2, <4>1
    <3>3. CASE InfoArrives(t)
      BY <2>21, <2>23, <3>1, <3>3
    <3> QED BY <2>25, <3>2, <3>3 DEF AnswerLost
  <2>26. CASE OnReconnect
    <3> DEFINE begun == NewTask("reconnect", "call", toRetry[1])
               new == [begun EXCEPT !.next = 1, !.own = TRUE, !.copy = toRetry]
    <3>1. toRetry[1] \in Function /\ toRetry[1] \in Held
      BY <2>1, <2>26 DEF OnReconnect, Held, ToSet
    <3>2. /\ begun \in Call /\ begun.fn = toRetry[1] /\ begun.kind = "reconnect" /\ begun.at = "call"
          /\ begun.list = <<>>
      <4>1. begun.list = <<>>
        BY DEF NewTask
      <4>2. "reconnect" \in Kind
        BY DEF Kind
      <4> QED BY <2>1, <3>1, <4>1, <4>2, NewTaskType
    <3>3. /\ new \in Call /\ new.fn = toRetry[1] /\ new.kind = "reconnect" /\ new.at = "call"
          /\ new.copy = toRetry /\ new.list = <<>>
      <4> HIDE DEF begun
      <4> QED BY <2>1, <3>2 DEF Call
    <3>4. Shaped(new) /\ FnsOf(new) \subseteq Held
      <4>1. toRetry[1] # None /\ ToSet(<<>>) = {} /\ ToSet(toRetry) \subseteq Held
        BY <2>8, <3>1, RecordingAssumption DEF RecordingAssumption, Held
      <4> HIDE DEF new
      <4> QED BY <3>1, <3>3, <4>1 DEF Shaped, FnsOf
    <3>5. /\ task' \in [Task -> Call \cup {None}]
          /\ \A u \in Task : Becomes(u, Held \cup Infos, InFlight)
      <4>1. PICK t \in FreeSlot : task' = [task EXCEPT ![t] = new]
        BY <2>26 DEF OnReconnect
      <4>2. FnsOf(new) \subseteq Held \cup Infos /\ Held \subseteq Held \cup Infos
        BY <3>4
      <4> HIDE DEF new
      <4> QED BY <2>7, <3>3, <3>4, <4>1, <4>2, <1>OneCall
    <3>6. reconnects' \in 0 .. scenario.reconnects
      BY <2>2, <2>26 DEF OnReconnect
    <3> QED BY <2>1, <2>3, <2>9, <2>26, <3>5, <3>6, <1>Plain DEF OnReconnect, Typed, network
  <2>27. CASE UNCHANGED vars
    BY <2>1, <2>3, <2>5, <2>9, <2>27, <1>Plain DEF vars, Typed, bounds, network
  <2> QED BY <2>10, <2>11, <2>12, <2>13, <2>14, <2>15, <2>16, <2>17, <2>18, <2>22, <2>24, <2>25,
             <2>26, <2>27 DEF Next, Requests
<1> QED BY <1>1, <1>2, PTL DEF Spec

(* The values are of their types. *)
THEOREM TypeCorrect == Spec => []TypeOK
<1>1. IInv => TypeOK
  BY DEF IInv
<1> QED BY <1>1, Invariance, PTL

(* A sequence number belongs to one chunk, whatever fails and is sent      *)
(* again: numbers are given when a chunk is uploaded, and kept by retries. *)
THEOREM NumbersUnique == Spec => []UniqueSequence
<1>1. IInv => UniqueSequence
  BY DEF IInv, Numbers, Numbered, UniqueSequence
<1> QED BY <1>1, Invariance, PTL

----------------------------------------------------------------------------
(* Where a chunk can be: in the room, with a call that works on it for the *)
(* first time, or in the part of the retry list that is still to do.       *)
RoomOf(c) == {m \in Messages : m.chunk = c}
CallsOf(c) == {t \in Waiting : task[t].kind # "reconnect" /\ task[t].fn # None /\ task[t].fn.chunk = c}
Owed == {i \in 1 .. Len(toRetry) : \A t \in Reconnecting : task[t].next <= i}
OwedOf(c) == {i \in Owed : toRetry[i].chunk = c}

(* The message m of the chunk c is in the room n times more than answers   *)
(* for c were lost, or less often.                                         *)
Copies(c, m, n) == sent[m] \in Nat /\ sent[m] <= unanswered[c] + n

(* A chunk that is to be retried with f is not in the room, unless f sends *)
(* again what an answer was lost for.                                      *)
Arrived(c, f) ==
    \/ RoomOf(c) = {}
    \/ /\ f.kind = "message" /\ RoomOf(c) = {Number(c, f.seq)}
       /\ Copies(c, Number(c, f.seq), 0)

(* A chunk is in one of these places, and in the room at most once more    *)
(* for each answer that was lost.                                          *)
Whole(c) ==
    \/ /\ \E m \in Messages : RoomOf(c) = {m} /\ Copies(c, m, 1)
       /\ CallsOf(c) = {} /\ OwedOf(c) = {}
    \/ /\ \E t \in Task : CallsOf(c) = {t}
       /\ RoomOf(c) = {} /\ OwedOf(c) = {}
    \/ /\ \E i \in Owed : OwedOf(c) = {i} /\ Arrived(c, toRetry[i])
       /\ CallsOf(c) = {}

(* A reconnect runs alone, and works on the part of the list that is to do. *)
Retrying ==
    \A t \in Reconnecting :
        /\ task[t].own /\ task[t].next \in 1 .. Len(toRetry)
        /\ task[t].fn = toRetry[task[t].next]
        /\ task[t].copy = SubSeq(toRetry, task[t].next, Len(toRetry))
        /\ \A u \in Reconnecting : u = t

Steady == scenario.steady => Retrying /\ \A c \in 1 .. recorded : Whole(c)

(* A step after which the chunk d may be elsewhere, all others where they  *)
(* were.                                                                   *)
Moved(d) ==
    /\ Retrying'
    /\ d \in 1 .. recorded' => Whole(d)'
    /\ \A c \in 1 .. recorded' \ {d} :
        /\ c \in 1 .. recorded
        /\ RoomOf(c)' = RoomOf(c) /\ \A m \in RoomOf(c) : sent'[m] = sent[m]
        /\ CallsOf(c)' = CallsOf(c) /\ OwedOf(c)' = OwedOf(c)
        /\ unanswered'[c] = unanswered[c] /\ \A i \in OwedOf(c) : toRetry'[i] = toRetry[i]

(* Calls that work on d, and on no other chunk.                            *)
Beside(call, d) ==
    call = None \/ (call.kind # "reconnect" /\ (call.fn = None \/ call.fn.chunk \in {0, d}))

Alike(call, other) ==
    \/ call = None /\ other = None
    \/ /\ call # None /\ other # None
       /\ call.kind = other.kind /\ call.fn = other.fn /\ call.next = other.next
       /\ call.own = other.own /\ call.copy = other.copy

(* There is a count of answers lost for every chunk that was recorded.     *)
LEMMA Counted ==
    ASSUME TypeOK
    PROVE  /\ \A c \in 1 .. recorded : c \in 1 .. scenario.chunks /\ unanswered[c] \in Nat
           /\ \A m \in Messages : m.chunk \in 1 .. scenario.chunks
<1>1. scenario.chunks \in Nat
  BY RecordingAssumption DEF RecordingAssumption, TypeOK, Scenario
<1> QED BY <1>1 DEF TypeOK, Messages

(* What SteadySentOnce says. *)
LEMMA SentOnce ==
    ASSUME Steady, scenario.steady, WellFormed, TypeOK
    PROVE  /\ \A m \in Messages : sent[m] \in Nat /\ sent[m] <= 1 + unanswered[m.chunk]
           /\ \A m, n \in Messages : m.chunk = n.chunk => m = n
<1>1. ASSUME NEW m \in Messages
      PROVE  RoomOf(m.chunk) = {m} /\ sent[m] \in Nat /\ sent[m] <= 1 + unanswered[m.chunk]
  <2>1. m.chunk \in 1 .. recorded /\ m \in RoomOf(m.chunk)
    BY DEF WellFormed, RoomOf
  <2>2. Whole(m.chunk)
    BY <2>1 DEF Steady
  <2>3. unanswered[m.chunk] \in Nat
    <3>1. m.chunk \in 1 .. scenario.chunks
      BY DEF TypeOK, Messages
    <3> QED BY <3>1 DEF TypeOK
  <2>4. ASSUME NEW i \in Owed, Arrived(m.chunk, toRetry[i])
        PROVE  RoomOf(m.chunk) = {m} /\ Copies(m.chunk, m, 0)
    BY <2>1, <2>4 DEF Arrived
  <2>5. RoomOf(m.chunk) = {m} /\ (Copies(m.chunk, m, 1) \/ Copies(m.chunk, m, 0))
    BY <2>1, <2>2, <2>4 DEF Whole
  <2> QED BY <2>3, <2>5 DEF Copies
<1> QED BY <1>1 DEF RoomOf

(* Steady holds in every behaviour. *)
THEOREM SteadyInvariance == Spec => []Steady
<1>MovedKeeps. ASSUME Steady, scenario.steady, scenario' = scenario, NEW d, Moved(d)
               PROVE  Steady'
  <2> USE <1>MovedKeeps
  <2>1. ASSUME NEW c \in 1 .. recorded', c # d PROVE Whole(c)'
    <3>1. /\ c \in 1 .. recorded /\ Whole(c)
          /\ RoomOf(c)' = RoomOf(c) /\ \A m \in RoomOf(c) : sent'[m] = sent[m]
          /\ CallsOf(c)' = CallsOf(c) /\ OwedOf(c)' = OwedOf(c)
          /\ unanswered'[c] = unanswered[c] /\ \A i \in OwedOf(c) : toRetry'[i] = toRetry[i]
      BY <2>1 DEF Moved, Steady
    <3>2. /\ \A m \in RoomOf(c)' : m \in Messages'
          /\ \A i \in OwedOf(c)' : i \in Owed'
      BY DEF RoomOf, OwedOf
    <3>3. ASSUME NEW m \in RoomOf(c), NEW n, Copies(c, m, n) PROVE Copies(c, m, n)'
      BY <3>1, <3>3 DEF Copies
    <3>4. ASSUME NEW i \in OwedOf(c), Arrived(c, toRetry[i]) PROVE Arrived(c, toRetry[i])'
      BY <3>1, <3>3, <3>4 DEF Arrived
    <3> QED BY <3>1, <3>2, <3>3, <3>4 DEF Whole
  <2> QED BY <2>1 DEF Moved, Steady
(* Where calls change that work on d alone, other chunks keep their calls, *)
(* and the retries go on.                                                  *)
<1>CallsChange.
      ASSUME NEW d,
             \A u \in Task : \/ Alike(task[u], task'[u])
                             \/ Beside(task[u], d) /\ Beside(task'[u], d)
      PROVE  /\ Reconnecting' = Reconnecting /\ \A u \in Reconnecting : Alike(task[u], task'[u])
             /\ \A c \in Nat \ {0, d} : CallsOf(c)' = CallsOf(c)
             /\ (toRetry' = toRetry => Owed' = Owed /\ \A c \in Nat : OwedOf(c)' = OwedOf(c))
             /\ (toRetry' = toRetry /\ Retrying => Retrying')
  <2> USE <1>CallsChange
  <2>1. \A u \in Task : /\ u \in Reconnecting' <=> u \in Reconnecting
                        /\ u \in Reconnecting => Alike(task[u], task'[u])
    BY DEF Reconnecting, Waiting, Alike, Beside
  <2>2. Reconnecting' = Reconnecting /\ \A u \in Reconnecting : Alike(task[u], task'[u])
    <3>1. Reconnecting \subseteq Task /\ Reconnecting' \subseteq Task
      BY DEF Reconnecting, Waiting
    <3> QED BY <2>1, <3>1
  <2>3. ASSUME NEW c \in Nat \ {0, d} PROVE CallsOf(c)' = CallsOf(c)
    <3>1. \A u \in Task : u \in CallsOf(c)' <=> u \in CallsOf(c)
      BY DEF CallsOf, Waiting, Alike, Beside
    <3>2. CallsOf(c) \subseteq Task /\ CallsOf(c)' \subseteq Task
      BY DEF CallsOf, Waiting
    <3> QED BY <3>1, <3>2
  <2>4. \A u \in Reconnecting : /\ task'[u].own = task[u].own /\ task'[u].next = task[u].next
                                /\ task'[u].fn = task[u].fn /\ task'[u].copy = task[u].copy
    BY <2>2 DEF Alike, Reconnecting, Waiting
  <2>5. ASSUME toRetry' = toRetry PROVE Owed' = Owed /\ \A c \in Nat : OwedOf(c)' = OwedOf(c)
    <3>1. Owed' = Owed
      BY <2>2, <2>4, <2>5 DEF Owed
    <3> QED BY <2>5, <3>1 DEF OwedOf
  <2>6. ASSUME toRetry' = toRetry, Retrying PROVE Retrying'
    BY <2>2, <2>4, <2>6 DEF Retrying
  <2> QED BY <2>2, <2>3, <2>5, <2>6
<1>Still.
      ASSUME Steady, scenario.steady, TypeOK,
             \A u \in Task : Alike(task[u], task'[u]) \/ (Beside(task[u], 0) /\ Beside(task'[u], 0)),
             UNCHANGED <<scenario, recorded, toRetry, sent, unanswered>>
      PROVE  Steady'
  <2> USE <1>Still
  <2>1. recorded \in Nat /\ \A c \in 1 .. recorded : c \in Nat \ {0}
    BY DEF TypeOK
  <2>2. /\ \A c \in Nat \ {0} : CallsOf(c)' = CallsOf(c) /\ OwedOf(c)' = OwedOf(c)
        /\ Retrying'
    BY <1>CallsChange DEF Steady
  <2>3. \A c : RoomOf(c)' = RoomOf(c)
    BY DEF RoomOf, Messages
  <2>4. Moved(0)
    BY <2>1, <2>2, <2>3 DEF Moved
  <2> QED BY <2>4, <1>MovedKeeps
(* A call of a new chunk, or the end of one that works on a chunk.         *)
<1>OneChunk.
      ASSUME Steady, scenario.steady, TypeOK, NEW d \in Nat \ {0}, d \in 1 .. recorded',
             \A u \in Task : Alike(task[u], task'[u]) \/ (Beside(task[u], d) /\ Beside(task'[u], d)),
             UNCHANGED <<scenario, toRetry, unanswered>>,
             \A c \in 1 .. recorded' : c # d => c \in 1 .. recorded,
             \A m \in Messages : sent'[m] = sent[m],
             \A m : m \in Messages' /\ m.chunk # d <=> m \in Messages /\ m.chunk # d,
             Owed' = Owed /\ OwedOf(d)' = OwedOf(d) => Whole(d)'
      PROVE  Steady'
  <2> USE <1>OneChunk
  <2>1. recorded \in Nat /\ \A c \in 1 .. recorded : c \in Nat \ {0}
    BY DEF TypeOK
  <2>2. /\ \A c \in Nat \ {0, d} : CallsOf(c)' = CallsOf(c)
        /\ Owed' = Owed /\ \A c \in Nat : OwedOf(c)' = OwedOf(c)
        /\ Retrying'
    BY <1>CallsChange DEF Steady
  <2>3. ASSUME NEW c, c # d PROVE RoomOf(c)' = RoomOf(c) /\ \A m \in RoomOf(c) : sent'[m] = sent[m]
    BY <2>3 DEF RoomOf
  <2>4. Moved(d)
    BY <2>1, <2>2, <2>3 DEF Moved
  <2> QED BY <2>4, <1>MovedKeeps
(* A function of the retry list has been called: it is not to do any more, *)
(* and its chunk, if it is of one and not in the room already, is sent.    *)
<1>Retried. ASSUME Steady, scenario.steady, IInv, NEW t \in Reconnecting,
                   Proceed(t, <<>>), UNCHANGED <<scenario, recorded, unanswered>>,
                   LET f == toRetry[task[t].next]
                   IN  \/ f.kind = "info" /\ sent' = sent
                       \/ \E m : /\ m.chunk = f.chunk /\ sent' = sent (+) SetToBag({m})
                                 /\ f.kind = "message" => m = Number(f.chunk, f.seq)
            PROVE  Steady'
  <2> USE <1>Retried
  <2> DEFINE next == task[t].next
             last == Len(toRetry)
  <2>0. PICK d : d = toRetry[next].chunk
    OBVIOUS
  <2>1. /\ task \in [Task -> Call \cup {None}] /\ toRetry \in Seq(Function) /\ t \in Task
        /\ task[t].kind = "reconnect" /\ None \notin Call /\ recorded \in Nat
        /\ sequence \in Nat /\ last \in Nat
    BY RecordingAssumption DEF RecordingAssumption, IInv, TypeOK, Reconnecting, Waiting
  <2>2. /\ task[t].own /\ next \in 1 .. last /\ task[t].fn = toRetry[next]
        /\ task[t].copy = SubSeq(toRetry, next, last) /\ Reconnecting = {t}
        /\ \A c \in 1 .. recorded : Whole(c)
    BY DEF Steady, Retrying
  <2>3. toRetry[next] \in Function /\ toRetry[next] \in Held /\ OfRecording(toRetry[next]) /\ d \in Nat
    <3>1. toRetry[next] \in Held
      BY <2>2 DEF Held, ToSet
    <3>2. toRetry[next] \in Function
      BY <2>1, <2>2
    <3>3. OfRecording(toRetry[next])
      BY <3>1 DEF IInv, WellFormed
    <3> QED BY <2>0, <3>1, <3>2, <3>3 DEF Function
  <2>4. Spliced(task[t].copy, task[t].fn) = SubSeq(toRetry, next + 1, last)
    <3>1. /\ task[t].copy \in Seq(Function) /\ Len(task[t].copy) = last - next + 1
          /\ task[t].copy[1] = toRetry[next]
      <4>1. next \in Int /\ last \in Int /\ \A i \in next .. last : toRetry[i] \in Function
        BY <2>1, <2>2
      <4>2. 1 \in 1 .. last - next + 1 /\ next + 1 - 1 = next /\ next <= last + 1 /\ next - 1 <= last
        BY <2>1, <2>2
      <4> HIDE DEF next, last
      <4> QED BY <2>1, <2>2, <4>1, <4>2, SubSeqProperties
    <3>2. Spliced(task[t].copy, task[t].fn) = Tail(task[t].copy)
      <4>1. task[t].copy # <<>>
        BY <2>2, <3>1
      <4> QED BY <2>2, <3>1, <4>1, SplicedType
    <3>3. Tail(SubSeq(toRetry, next, last)) = SubSeq(toRetry, next + 1, last)
      <4> HIDE DEF next, last
      <4> QED BY <2>1, <2>2, SubSeqProperties
    <3> QED BY <2>2, <3>2, <3>3
  <2>5. \/ next = last /\ EndReconnect(t, <<>>, <<>>)
        \/ /\ next + 1 <= last
           /\ task' = [task EXCEPT ![t].fn = toRetry[next + 1], ![t].at = "call", ![t].next = next + 1,
                                   ![t].copy = SubSeq(toRetry, next + 1, last), ![t].seq = sequence]
           /\ toRetry' = toRetry
    <3>1. toRetry \o <<>> = toRetry
      BY <2>1, ConcatEmptySeq
    <3>2. NextRetry(t, SubSeq(toRetry, next + 1, last), <<>>)
      BY <2>1, <2>4 DEF Proceed
    <3>3. next + 1 > last => next = last /\ SubSeq(toRetry, next + 1, last) = <<>>
      BY <2>1, <2>2, SubSeqEmpty
    <3> QED BY <2>2, <3>1, <3>2, <3>3 DEF NextRetry
  <2>6. /\ Retrying' /\ \A u \in Task \ {t} : task'[u] = task[u]
        /\ task'[t] = None \/ (task'[t].kind = "paused" /\ (task'[t].fn = None \/ task'[t].fn.chunk = 0)) 
                           \/ task'[t].kind = "reconnect"
        /\ \A c \in Nat \ {d} : /\ OwedOf(c)' = OwedOf(c)
                                /\ \A i \in OwedOf(c) : toRetry'[i] = toRetry[i]
        /\ OwedOf(d)' = OwedOf(d) \ {next}
    <3>1. Owed = next .. last
      BY <2>1, <2>2 DEF Owed
    <3>2. CASE next = last /\ EndReconnect(t, <<>>, <<>>)
      <4>1. /\ toRetry' = <<>> /\ \A u \in Task \ {t} : task'[u] = task[u]
            /\ task'[t] = None \/ task'[t] = StopThenSend("paused")
        BY <2>1, <2>2, <3>2 DEF EndReconnect
      <4>2. /\ StopThenSend("paused").kind = "paused"
            /\ StopThenSend("paused").fn = None \/ StopThenSend("paused").fn.chunk = 0
        BY DEF StopThenSend, NewTask, Info
      <4>3. \A u \in Task : u \notin Reconnecting'
        <5>1. \A u \in Task \ {t} : u \notin Reconnecting
          BY <2>2
        <5> QED BY <4>1, <4>2, <5>1 DEF Reconnecting, Waiting
      <4>4. Retrying'
        BY <4>3 DEF Retrying, Reconnecting, Waiting
      <4>5. Owed' = {} /\ \A c : OwedOf(c)' = {}
        BY <4>1 DEF Owed, OwedOf
      <4>6. OwedOf(d) \subseteq {next} /\ \A c \in Nat \ {d} : OwedOf(c) = {}
        BY <2>0, <2>1, <2>2, <3>1, <3>2 DEF OwedOf
      <4> QED BY <4>1, <4>2, <4>4, <4>5, <4>6
    <3>3. CASE /\ next + 1 <= last
               /\ task' = [task EXCEPT ![t].fn = toRetry[next + 1], ![t].at = "call", ![t].next = next + 1,
                                       ![t].copy = SubSeq(toRetry, next + 1, last), ![t].seq = sequence]
               /\ toRetry' = toRetry
      <4>1. /\ \A u \in Task \ {t} : task'[u] = task[u]
            /\ task'[t] # None /\ task'[t].kind = "reconnect" /\ task'[t].own /\ task'[t].next = next + 1
            /\ task'[t].fn = toRetry[next + 1] /\ task'[t].copy = SubSeq(toRetry, next + 1, last)
        <5> DEFINE new == [task[t] EXCEPT !.fn = toRetry[next + 1], !.at = "call", !.next = next + 1,
                                          !.copy = SubSeq(toRetry, next + 1, last), !.seq = sequence]
        <5>1. task' = [task EXCEPT ![t] = new]
          BY <2>1, <3>3
        <5>2. task[t] \in Call
          BY <2>1 DEF Reconnecting, Waiting
        <5>3. /\ new.kind = "reconnect" /\ new.own /\ new.next = next + 1
              /\ new.fn = toRetry[next + 1] /\ new.copy = SubSeq(toRetry, next + 1, last)
          BY <2>1, <2>2, <5>2 DEF Call
        <5>4. new \in Call
          <6>1. toRetry[next + 1] \in Function /\ next + 1 \in Nat
                /\ SubSeq(toRetry, next + 1, last) \in Seq(Function)
            <7>1. \A i \in next + 1 .. last : toRetry[i] \in Function
              BY <2>1, <2>2
            <7>2. next + 1 \in Int /\ last \in Int /\ next + 1 \in next + 1 .. last
              BY <2>1, <2>2, <3>3
            <7> HIDE DEF next, last
            <7> QED BY <2>1, <2>2, <7>1, <7>2, SubSeqProperties
          <6> HIDE DEF next, last
          <6> QED BY <2>1, <5>2, <6>1 DEF Call
        <5> HIDE DEF new, next, last
        <5> QED BY <2>1, <5>1, <5>3, <5>4
      <4>2. Reconnecting' = {t}
        <5>1. \A u \in Task \ {t} : u \notin Reconnecting
          BY <2>2
        <5>2. \A u \in Task : u \in Reconnecting' <=> u = t
          BY <2>1, <4>1, <5>1 DEF Reconnecting, Waiting
        <5> QED BY <2>1, <5>2 DEF Reconnecting, Waiting
      <4>3. Retrying'
        <5>1. next + 1 \in 1 .. Len(toRetry')
          BY <2>1, <2>2, <3>3
        <5> HIDE DEF next
        <5> QED BY <3>3, <4>1, <4>2, <5>1 DEF Retrying
      <4>4. Owed' = next + 1 .. last
        <5>1. Owed' = {i \in 1 .. last : next + 1 <= i}
          BY <3>3, <4>1, <4>2 DEF Owed
        <5> QED BY <2>1, <2>2, <5>1
      <4>5. \A c : OwedOf(c)' = OwedOf(c) \ {next}
        BY <2>1, <2>2, <3>1, <3>3, <4>4 DEF OwedOf
      <4>6. \A c \in Nat \ {d} : next \notin OwedOf(c)
        BY <2>0 DEF OwedOf
      <4> QED BY <3>3, <4>1, <4>3, <4>5, <4>6
    <3> QED BY <2>5, <3>2, <3>3
  <2>7. \A c \in Nat \ {0} : CallsOf(c)' = CallsOf(c)
    <3>1. ASSUME NEW c \in Nat \ {0}, NEW u \in Task PROVE u \in CallsOf(c)' <=> u \in CallsOf(c)
      <4>1. CASE u = t
        BY <2>1, <2>6, <4>1 DEF CallsOf, Waiting
      <4>2. CASE u # t
        BY <2>6, <4>2 DEF CallsOf, Waiting
      <4> QED BY <4>1, <4>2
    <3>2. \A c : CallsOf(c) \subseteq Task /\ CallsOf(c)' \subseteq Task
      BY DEF CallsOf, Waiting
    <3> QED BY <3>1, <3>2
  <2>8. /\ \A m \in Messages : m.chunk # d => m \in Messages' /\ sent'[m] = sent[m]
        /\ \A m \in Messages' : m.chunk # d => m \in Messages
    <3>1. \A m \in Messages : sent[m] \in Nat
      BY SentOnce DEF IInv
    <3>2. CASE sent' = sent
      <4>1. Messages' = Messages
        BY <3>2 DEF Messages
      <4> QED BY <3>2, <4>1
    <3>3. ASSUME NEW m, m.chunk = d, sent' = sent (+) SetToBag({m})
          PROVE  /\ \A n \in Messages : n.chunk # d => n \in Messages' /\ sent'[n] = sent[n]
                 /\ \A n \in Messages' : n.chunk # d => n \in Messages
      <4>1. \A n \in Messages : n # m => n \in Messages' /\ sent'[n] = sent[n] + 0
        BY <3>3 DEF Messages, BagToSet, (+), SetToBag
      <4>2. \A n \in Messages' : n \in Messages \/ n = m
        BY <3>3 DEF Messages, BagToSet, (+), SetToBag
      <4>3. ASSUME NEW n \in Messages, n.chunk # d PROVE n \in Messages' /\ sent'[n] = sent[n]
        <5>1. n # m /\ sent[n] \in Nat
          BY <3>1, <3>3, <4>3
        <5>2. sent'[n] = sent[n] + 0
          BY <4>1, <5>1
        <5> QED BY <4>1, <5>1, <5>2
      <4> QED BY <3>3, <4>2, <4>3
    <3>4. sent' = sent \/ \E m : m.chunk = d /\ sent' = sent (+) SetToBag({m})
      BY <2>0
    <3> QED BY <3>2, <3>3, <3>4
  <2>9. ASSUME d \in 1 .. recorded PROVE Whole(d)'
    <3> DEFINE f == toRetry[next]
    <3>1. OwedOf(d) = {next} /\ CallsOf(d) = {} /\ d # 0 /\ Arrived(d, f)
      <4>1. next \in OwedOf(d)
        BY <2>0, <2>1, <2>2 DEF OwedOf, Owed
      <4>2. Whole(d) /\ d # 0
        BY <2>1, <2>2, <2>9
      <4> HIDE DEF next
      <4> QED BY <4>1, <4>2 DEF Whole
    <3>2. OwedOf(d)' = {} /\ CallsOf(d)' = {}
      BY <2>3, <2>6, <2>7, <3>1
    <3>3. PICK m : /\ m.chunk = d /\ sent' = sent (+) SetToBag({m})
                   /\ f.kind = "message" => m = Number(d, f.seq)
      <4>1. f.kind # "info"
        BY <2>0, <2>1, <2>3, <2>9 DEF OfRecording
      <4> QED BY <2>0, <4>1
    <3> HIDE DEF f
    <3>4. RoomOf(d)' = {m} /\ m \in Messages' /\ Copies(d, m, 1)'
      <4>0. unanswered[d] \in Nat /\ unanswered' = unanswered
        BY <2>9, Counted DEF IInv
      <4>1. CASE RoomOf(d) = {}
        <5>1. m \notin Messages
          BY <3>3, <4>1 DEF RoomOf
        <5>2. Messages' = Messages \cup {m} /\ sent'[m] = 0 + 1
          BY <3>3, <5>1 DEF Messages, BagToSet, (+), SetToBag
        <5>3. Copies(d, m, 1)'
          BY <4>0, <5>2 DEF Copies
        <5> QED BY <3>3, <4>1, <5>2, <5>3 DEF RoomOf
      <4>2. CASE RoomOf(d) = {m} /\ Copies(d, m, 0)
        <5>1. m \in Messages
          BY <4>2 DEF RoomOf
        <5>2. Messages' = Messages \cup {m} /\ sent'[m] = sent[m] + 1
          BY <3>3, <5>1 DEF Messages, BagToSet, (+), SetToBag
        <5>3. Copies(d, m, 1)'
          BY <4>0, <4>2, <5>2 DEF Copies
        <5> QED BY <3>3, <4>2, <5>1, <5>2, <5>3 DEF RoomOf
      <4> QED BY <3>1, <3>3, <4>1, <4>2 DEF Arrived
    <3> QED BY <3>2, <3>4 DEF Whole
  <2>10. Moved(d)
    <3>1. \A c \in Nat \ {d} : RoomOf(c)' = RoomOf(c) /\ \A m \in RoomOf(c) : sent'[m] = sent[m]
      BY <2>8 DEF RoomOf
    <3> QED BY <2>1, <2>6, <2>7, <2>9, <3>1 DEF Moved
  <2> QED BY <2>10, <1>MovedKeeps
(* A chunk that is recorded now, and that t works on, is nowhere else.     *)
<1>Recorded.
      ASSUME Steady, scenario.steady, IInv, NEW t \in Task, NEW kind \in Kind \ {"reconnect"},
             recorded' = recorded + 1, Beside(task[t], 0),
             task'[t] = NewTask(kind, "call", Upload(recorded')),
             \A u \in Task \ {t} : Alike(task[u], task'[u]) \/ (Beside(task[u], 0) /\ Beside(task'[u], 0)),
             UNCHANGED <<scenario, toRetry, sent, unanswered>>
      PROVE  Steady'
  <2> USE <1>Recorded
  <2>0. PICK d : d = recorded'
    OBVIOUS
  <2>1. /\ recorded \in Nat /\ d \in Nat \ {0} /\ d \in 1 .. recorded' /\ d = recorded + 1
        /\ \A c \in 1 .. recorded' : c # d => c \in 1 .. recorded
    BY <2>0 DEF IInv, TypeOK
  <2>2. /\ task'[t] # None /\ task'[t].kind = kind /\ task'[t].fn # None /\ task'[t].fn.chunk = d
    <3>1. Upload(recorded') \in Function /\ Upload(recorded').chunk = d
      BY <2>0, <2>1 DEF Upload, Function
    <3>2. task'[t] \in Call /\ task'[t].kind = kind /\ task'[t].fn = Upload(recorded')
      BY <3>1, NewTaskType DEF IInv, TypeOK
    <3> QED BY <3>1, <3>2, RecordingAssumption DEF RecordingAssumption
  <2>3. \A u \in Task : Alike(task[u], task'[u]) \/ (Beside(task[u], d) /\ Beside(task'[u], d))
    BY <2>2 DEF Beside
  <2>4. \A f \in Held : f.chunk # d
    BY <2>1 DEF IInv, WellFormed, OfRecording
  <2>5. RoomOf(d)' = {} /\ \A m \in Messages : m.chunk # d
    BY <2>1 DEF IInv, WellFormed, RoomOf, Messages
  <2>6. OwedOf(d) = {}
    BY <2>4 DEF OwedOf, Owed, Held, ToSet
  <2>7. CallsOf(d)' = {t}
    <3>1. ASSUME NEW u \in Task \ {t}, task[u] # None, task[u].fn # None PROVE task[u].fn.chunk # d
      <4>1. task[u].fn \in Held
        BY <3>1 DEF Held, FnsOf, Waiting
      <4> QED BY <2>4, <4>1
    <3>2. \A u \in Task \ {t} : u \notin CallsOf(d)'
      BY <2>1, <3>1 DEF CallsOf, Waiting, Alike, Beside
    <3>3. t \in CallsOf(d)' /\ CallsOf(d)' \subseteq Task
      BY <2>2 DEF CallsOf, Waiting, Kind
    <3> QED BY <3>2, <3>3
  <2>8. OwedOf(d)' = OwedOf(d) => Whole(d)'
    BY <2>5, <2>6, <2>7 DEF Whole
  <2>9. Messages' = Messages
    BY DEF Messages
  <2> QED BY <2>1, <2>3, <2>8, <2>9, <1>OneChunk DEF IInv
(* A call that is no reconnect ends, or goes on with an info state event.  *)
<1>Ended.
      ASSUME NEW t \in Waiting, task[t].kind # "reconnect", NEW fns \in Seq(Function), Proceed(t, fns), TypeOK
      PROVE  /\ \A u \in Task \ {t} : task'[u] = task[u]
             /\ Beside(task'[t], 0) /\ toRetry' = toRetry \o fns
  <2> USE <1>Ended
  <2>1. task \in [Task -> Call \cup {None}] /\ t \in Task
    BY DEF TypeOK, Waiting
  <2>2. PICK new : /\ task' = [task EXCEPT ![t] = new] /\ toRetry' = toRetry \o fns
                   /\ \/ new = None
                      \/ new = NewTask(task[t].kind, "call", Info(task[t].kind))
    BY DEF Proceed
  <2>3. Beside(new, 0)
    BY <2>2 DEF Beside, NewTask, Info
  <2> QED BY <2>1, <2>2, <2>3
(* A chunk whose request has failed is at the end of the retry list, and   *)
(* in the room when no more than the answer was lost.                      *)
<1>Failed.
      ASSUME Steady, scenario.steady, IInv, Reconnecting = {}, NEW t \in Waiting, task[t].fn # None,
             NEW f \in Function, f.chunk = task[t].fn.chunk, Proceed(t, <<f>>),
             UNCHANGED <<scenario, recorded>>,
             \/ UNCHANGED <<sent, unanswered>>
             \/ /\ f.kind = "message" /\ f.chunk \in 1 .. recorded
                /\ sent' = sent (+) SetToBag({Number(f.chunk, f.seq)})
                /\ unanswered' = [unanswered EXCEPT ![f.chunk] = @ + 1]
      PROVE  Steady'
  <2> USE <1>Failed
  <2>0. PICK d, m : d = f.chunk /\ m = Number(f.chunk, f.seq)
    OBVIOUS
  <2> DEFINE last == Len(toRetry)
  <2>1. /\ toRetry \in Seq(Function) /\ recorded \in Nat /\ t \in Task /\ d \in Nat /\ last \in Nat
        /\ task[t] # None /\ task[t].kind # "reconnect" /\ TypeOK
    BY <2>0 DEF IInv, TypeOK, Waiting, Reconnecting, Function
  <2>2. /\ \A u \in Task \ {t} : task'[u] = task[u]
        /\ Beside(task'[t], 0) /\ toRetry' = toRetry \o <<f>>
    <3>1. <<f>> \in Seq(Function)
      OBVIOUS
    <3> QED BY <2>1, <3>1, <1>Ended
  <2>3. \A u \in Task : Alike(task[u], task'[u]) \/ (Beside(task[u], d) /\ Beside(task'[u], d))
    BY <2>0, <2>1, <2>2 DEF Beside, Alike
  <2>4. Reconnecting' = {} /\ \A c \in Nat \ {0, d} : CallsOf(c)' = CallsOf(c)
    BY <2>3, <1>CallsChange
  <2>5. Owed = 1 .. last /\ Owed' = 1 .. last + 1 /\ toRetry'[last + 1] = f
        /\ \A i \in 1 .. last : toRetry'[i] = toRetry[i]
    BY <2>1, <2>2, <2>4 DEF Owed
  <2>6. \A c \in Nat \ {d} : OwedOf(c)' = OwedOf(c) /\ \A i \in OwedOf(c) : toRetry'[i] = toRetry[i]
    BY <2>0, <2>1, <2>5 DEF OwedOf
  <2>7. \/ sent' = sent /\ Messages' = Messages
        \/ /\ f.kind = "message" /\ Messages' = Messages \cup {m}
           /\ unanswered'[d] = unanswered[d] + 1 /\ unanswered[d] \in Nat
           /\ \A n \in Messages \ {m} : sent'[n] = sent[n]
           /\ m \notin Messages => sent'[m] = 1
    <3>1. CASE UNCHANGED sent
      BY <3>1 DEF Messages
    <3>2. CASE /\ sent' = sent (+) SetToBag({m}) /\ f.kind = "message" /\ d \in 1 .. recorded
               /\ unanswered' = [unanswered EXCEPT ![d] = @ + 1]
      <4>1. /\ Messages' = Messages \cup {m}
            /\ \A n \in Messages \ {m} : sent'[n] = sent[n] + 0
            /\ m \notin Messages => sent'[m] = 0 + 1
        BY <3>2 DEF Messages, BagToSet, (+), SetToBag
      <4>2. \A n \in Messages : sent[n] \in Nat
        BY <2>1, SentOnce DEF IInv
      <4>3. unanswered'[d] = unanswered[d] + 1 /\ unanswered[d] \in Nat
        <5>1. d \in 1 .. scenario.chunks /\ unanswered[d] \in Nat
          BY <2>1, <3>2, Counted
        <5> QED BY <2>1, <3>2, <5>1 DEF TypeOK
      <4>4. \A n \in Messages \ {m} : sent'[n] = sent[n]
        BY <4>1, <4>2
      <4>5. Messages' = Messages \cup {m} /\ (m \notin Messages => sent'[m] = 1)
        BY <4>1
      <4>6. f.kind = "message"
        BY <3>2
      <4> QED BY <4>3, <4>4, <4>5, <4>6, Zenon
    <3> QED BY <2>0, <3>1, <3>2
  <2>8. m.chunk = d /\ \A c \in Nat \ {d} : RoomOf(c)' = RoomOf(c) /\ \A n \in RoomOf(c) : sent'[n] = sent[n]
    <3>1. m.chunk = d
      BY <2>0 DEF Number
    <3> QED BY <2>7, <3>1 DEF RoomOf
  <2>9. ASSUME d \in 1 .. recorded PROVE Whole(d)'
    <3>1. t \in CallsOf(d) /\ Whole(d)
      BY <2>0, <2>1, <2>9 DEF CallsOf, Steady
    <3>2. RoomOf(d) = {} /\ CallsOf(d) = {t} /\ OwedOf(d) = {}
      BY <3>1 DEF Whole
    <3>3. Arrived(d, f)'
      <4>1. m \notin Messages
        BY <2>8, <3>2 DEF RoomOf
      <4>2. CASE Messages' = Messages
        BY <3>2, <4>2 DEF RoomOf, Arrived
      <4>3. CASE /\ f.kind = "message" /\ Messages' = Messages \cup {m} /\ sent'[m] = 1
                 /\ unanswered'[d] = unanswered[d] + 1 /\ unanswered[d] \in Nat
        <5>1. RoomOf(d)' = {m}
          BY <2>8, <3>2, <4>3 DEF RoomOf
        <5>2. Copies(d, m, 0)'
          BY <4>3 DEF Copies
        <5> QED BY <2>0, <4>3, <5>1, <5>2 DEF Arrived
      <4> QED BY <2>7, <4>1, <4>2, <4>3
    <3>4. CallsOf(d)' = {}
      <4>1. \A u \in Task \ {t} : u \notin CallsOf(d)'
        BY <2>2, <3>2 DEF CallsOf, Waiting
      <4>2. t \notin CallsOf(d)'
        BY <2>1, <2>2, <2>9 DEF CallsOf, Waiting, Beside
      <4> QED BY <4>1, <4>2 DEF CallsOf, Waiting
    <3>5. OwedOf(d)' = {last + 1}
      BY <2>0, <2>1, <2>5, <3>2 DEF OwedOf
    <3>6. last + 1 \in Owed' /\ toRetry'[last + 1] = f
      BY <2>1, <2>5
    <3> HIDE DEF last
    <3> QED BY <3>3, <3>4, <3>5, <3>6 DEF Whole
  <2>10. Retrying'
    BY <2>4 DEF Retrying
  <2>11. \A c \in 1 .. recorded : c # d => unanswered'[c] = unanswered[c]
    <3>1. \A c \in 1 .. recorded : c \in 1 .. scenario.chunks
      BY <2>1, Counted
    <3> QED BY <2>0, <2>1, <3>1 DEF TypeOK
  <2>12. Moved(d)
    BY <2>1, <2>4, <2>6, <2>8, <2>9, <2>10, <2>11 DEF Moved
  <2> QED BY <2>12, <1>MovedKeeps
<1>1. Init => Steady
  <2> SUFFICES ASSUME Init PROVE Steady
    OBVIOUS
  <2>1. Reconnecting = {} /\ 1 .. recorded = {}
    BY DEF Init, Reconnecting, Waiting
  <2> QED BY <2>1 DEF Steady, Retrying
<1>2. IInv /\ Steady /\ [Next]_vars => Steady'
  <2> SUFFICES ASSUME IInv, Steady, [Next]_vars PROVE Steady'
    OBVIOUS
  <2>1. scenario' = scenario
    BY DEF Next, Answered, OnRoomStateEvents, Pause, Stop, Resume, Command, RecorderStopped,
           OnChunkRecorded, OnReconnect, OnReconnectIdle, OnBeforeRedaction, Requests, Uploaded,
           MessageSent, InfoSent, RecorderStarted, RequestFailed, AnswerLost, Failing, bounds, vars
  <2> SUFFICES ASSUME scenario.steady PROVE Steady'
    BY <2>1 DEF Steady
  <2>2. /\ TypeOK /\ WellFormed /\ sequence \in Nat /\ task \in [Task -> Call \cup {None}]
        /\ toRetry \in Seq(Function) /\ None \notin Function /\ recorded \in Nat
    BY RecordingAssumption DEF RecordingAssumption, IInv, TypeOK
  <2>3. \A u \in Task : task'[u] = task[u] => Alike(task[u], task'[u])
    BY DEF Alike
  <2>4. /\ \A s \in InfoState : /\ Beside(StopThenSend(s), 0)
                                /\ Beside(NewTask(s, "call", Info(s)), 0)
                                /\ Beside(NewTask(s, "start", None), 0)
        /\ Beside(None, 0)
    BY DEF Beside, StopThenSend, NewTask, Info, InfoState
  <2>5. ASSUME NEW t \in Task, NEW new, Beside(task[t], 0), Beside(new, 0), task' = [task EXCEPT ![t] = new],
               UNCHANGED <<recorded, toRetry, sent, unanswered>>
        PROVE  Steady'
    <3>1. \A u \in Task : Alike(task[u], task'[u]) \/ (Beside(task[u], 0) /\ Beside(task'[u], 0))
      BY <2>2, <2>3, <2>5
    <3> QED BY <2>1, <2>2, <2>5, <3>1, <1>Still
  <2>6. ASSUME UNCHANGED <<task, recorded, toRetry, sent, unanswered>> PROVE Steady'
    BY <2>1, <2>2, <2>3, <2>6, <1>Still
  <2>7. \A t \in FreeSlot : t \in Task /\ Beside(task[t], 0)
    BY DEF FreeSlot, Free, Waiting, Beside
  <2>8. \A t \in Waiting : /\ Shaped(task[t]) /\ task[t] \in Call /\ task[t] # None /\ t \in Task
                           /\ task[t].fn # None => task[t].fn \in Held /\ task[t].fn \in Function
                                                   /\ OfRecording(task[t].fn)
    BY <2>2 DEF Waiting, WellFormed, Held, FnsOf, Call
  <2>9. CASE Answered \/ OnBeforeRedaction \/ UNCHANGED vars
    BY <2>6, <2>9 DEF Answered, OnBeforeRedaction, network, vars
  <2>10. CASE OnRoomStateEvents
    BY <2>4, <2>5, <2>6, <2>7, <2>10 DEF OnRoomStateEvents, Create, InfoState, network
  <2>11. CASE Pause \/ Stop \/ Resume
    BY <2>4, <2>5, <2>6, <2>7, <2>11 DEF Pause, Stop, Resume, Command, InfoState, network
  <2>12. CASE OnReconnectIdle
    BY <2>4, <2>5, <2>7, <2>12 DEF OnReconnectIdle, InfoState, network
  <2>13. ASSUME NEW t \in Task, RecorderStarted(t) PROVE Steady'
    <3>1. Beside(task[t], 0)
      BY <2>8, <2>13 DEF RecorderStarted, Beside, Waiting, Shaped
    <3> QED BY <2>4, <2>5, <2>13, <3>1 DEF RecorderStarted, InfoState, network
  <2>14. CASE OnChunkRecorded
    <3>1. PICK t \in FreeSlot : task' = [task EXCEPT ![t] = NewTask("chunk", "call", Upload(recorded'))]
      BY <2>14 DEF OnChunkRecorded
    <3>2. /\ task'[t] = NewTask("chunk", "call", Upload(recorded'))
          /\ \A u \in Task \ {t} : Alike(task[u], task'[u])
      BY <2>2, <2>3, <2>7, <3>1
    <3>3. "chunk" \in Kind \ {"reconnect"}
      BY DEF Kind
    <3> QED BY <2>1, <2>7, <2>14, <3>2, <3>3, <1>Recorded DEF OnChunkRecorded, network
  <2>15. CASE RecorderStopped
    <3> DEFINE stopping == {t \in Waiting : task[t].at = "stop"}
               Send(u) == NewTask(task[u].kind, "call", Info(task[u].kind))
    <3>1. \A u \in stopping : /\ u \in Task /\ Beside(task[u], 0) /\ Beside(Send(u), 0)
                              /\ task[u].kind \in Kind \ {"reconnect"}
      <4>1. \A u \in stopping : task[u].fn = None /\ task[u].kind \in InfoState /\ task[u].kind \in Kind \ {"reconnect"}
        BY <2>8 DEF Shaped, Call, Kind, InfoState
      <4> QED BY <2>4, <2>8, <4>1 DEF Beside, Kind, InfoState
    <3>2. CASE task' = [u \in Task |-> IF u \in stopping THEN Send(u) ELSE task[u]] /\ UNCHANGED recorded
      <4>1. \A u \in Task : Alike(task[u], task'[u]) \/ (Beside(task[u], 0) /\ Beside(task'[u], 0))
        <5> HIDE DEF stopping, Send
        <5> QED BY <2>3, <3>1, <3>2
      <4> QED BY <2>1, <2>2, <2>15, <3>2, <4>1, <1>Still DEF RecorderStopped, network
    <3>3. ASSUME NEW t \in stopping, recorded' = recorded + 1,
                 task' = [u \in Task |->
                    CASE u = t -> NewTask(task[t].kind, "call", Upload(recorded'))
                      [] u \in stopping \ {t} -> Send(u)
                      [] OTHER -> task[u]]
          PROVE  Steady'
      <4>1. /\ \A u \in Task \ {t} : Alike(task[u], task'[u]) \/ (Beside(task[u], 0) /\ Beside(task'[u], 0))
            /\ task'[t] = NewTask(task[t].kind, "call", Upload(recorded'))
        <5> HIDE DEF stopping, Send
        <5> QED BY <2>3, <3>1, <3>3
      <4>2. UNCHANGED <<scenario, toRetry, sent, unanswered>>
        BY <2>1, <2>15 DEF RecorderStopped, network
      <4> HIDE DEF stopping
      <4> QED BY <3>1, <3>3, <4>1, <4>2, <1>Recorded
    <3> QED BY <2>15, <3>2, <3>3 DEF RecorderStopped
  <2>16. ASSUME NEW t \in Task, Uploaded(t) PROVE Steady'
    <3>1. task[t] \in Call /\ task[t] # None /\ None \notin Call
      BY <2>8, <2>16, RecordingAssumption DEF RecordingAssumption, Uploaded, AtCall, Waiting
    <3> DEFINE new == [task[t] EXCEPT !.at = "send", !.seq = sequence + 1]
    <3>2. task' = [task EXCEPT ![t] = new]
      BY <2>2, <2>16 DEF Uploaded
    <3>3. new \in Call /\ new.fn = task[t].fn /\ new.kind = task[t].kind
          /\ new.copy = task[t].copy /\ new.next = task[t].next /\ new.own = task[t].own
      <4>1. sequence + 1 \in Nat
        BY <2>2
      <4> QED BY <3>1, <4>1 DEF Call
    <3>4. \A u \in Task : Alike(task[u], task'[u])
      <4>1. Alike(task[t], new)
        <5> HIDE DEF new
        <5> QED BY <3>1, <3>3 DEF Alike
      <4> HIDE DEF new
      <4> QED BY <2>2, <2>3, <3>2, <4>1
    <3> QED BY <2>1, <2>2, <2>16, <3>4, <1>Still DEF Uploaded, network
  <2>17. ASSUME NEW t \in Task, Failing(t),
                \/ UNCHANGED <<sent, unanswered>>
                \/ MessageArrives(t) /\ unanswered' = [unanswered EXCEPT ![task[t].fn.chunk] = @ + 1]
         PROVE  Steady'
    <3>1. Reconnecting = {} /\ t \in Waiting /\ UNCHANGED <<recorded, scenario>> /\ Throws(t)
      BY <2>17 DEF Failing, Waiting
    <3>2. /\ task[t].kind # "reconnect" /\ Shaped(task[t]) /\ task[t] \in Call
          /\ task[t].fn # None => task[t].fn \in Function /\ OfRecording(task[t].fn)
      BY <2>8, <3>1 DEF Reconnecting
    <3>3. CASE task[t].at = "call" /\ Proceed(t, <<task[t].fn>>)
      <4>1. task[t].fn # None
        BY <3>2, <3>3 DEF Shaped
      <4>2. PICK f : f = task[t].fn
        OBVIOUS
      <4>3. \/ UNCHANGED <<sent, unanswered>>
            \/ /\ f.kind = "message" /\ f.chunk \in 1 .. recorded
               /\ sent' = sent (+) SetToBag({Number(f.chunk, f.seq)})
               /\ unanswered' = [unanswered EXCEPT ![f.chunk] = @ + 1]
        BY <2>17, <3>2, <3>3, <4>1, <4>2 DEF MessageArrives, MessageOf, AtCall, Number, OfRecording
      <4> QED BY <3>1, <3>2, <3>3, <4>1, <4>2, <4>3, <1>Failed
    <3>4. CASE task[t].at = "send" /\ Proceed(t, <<Message(task[t].fn.chunk, task[t].seq)>>)
      <4>1. task[t].fn # None /\ task[t].fn \in Function /\ task[t].seq \in Nat
            /\ task[t].fn.chunk \in 1 .. recorded
        BY <3>2, <3>4 DEF Shaped, Call, OfRecording
      <4>2. PICK f : f = Message(task[t].fn.chunk, task[t].seq)
        OBVIOUS
      <4>3. /\ f \in Function /\ f.chunk = task[t].fn.chunk /\ f.kind = "message" /\ f.seq = task[t].seq
        BY <4>1, <4>2 DEF Message, Function
      <4>4. \/ UNCHANGED <<sent, unanswered>>
            \/ /\ f.kind = "message" /\ f.chunk \in 1 .. recorded
               /\ sent' = sent (+) SetToBag({Number(f.chunk, f.seq)})
               /\ unanswered' = [unanswered EXCEPT ![f.chunk] = @ + 1]
        BY <2>17, <3>4, <4>1, <4>3 DEF MessageArrives, MessageOf, Number
      <4> QED BY <3>1, <3>4, <4>1, <4>2, <4>3, <4>4, <1>Failed
    <3> QED BY <3>1, <3>2, <3>3, <3>4 DEF Throws
  <2>18. ASSUME NEW t \in Task, RequestFailed(t) \/ AnswerLost(t) PROVE Steady'
    BY <2>17, <2>18 DEF RequestFailed, AnswerLost, InfoArrives, network
  <2>19. ASSUME NEW t \in Task, MessageSent(t) PROVE Steady'
    <3>1. t \in Waiting /\ Proceed(t, <<>>) /\ UNCHANGED <<recorded, scenario, unanswered>>
      BY <2>1, <2>19 DEF MessageSent, MessageArrives, AtCall, Waiting
    <3>2. /\ task[t].fn # None /\ task[t].fn \in Function /\ OfRecording(task[t].fn)
          /\ task[t].fn.kind # "info" /\ task[t].fn.chunk \in 1 .. recorded
          /\ \E m : /\ m.chunk = task[t].fn.chunk /\ sent' = sent (+) SetToBag({m})
                    /\ task[t].fn.kind = "message" => m = Number(task[t].fn.chunk, task[t].fn.seq)
      <4>1. task[t].fn # None /\ task[t].fn.kind # "info" /\ (task[t].at = "send" => task[t].fn.kind = "upload")
        BY <2>8, <2>19, <3>1 DEF MessageSent, MessageArrives, AtCall, Shaped
      <4>2. \E m : /\ m.chunk = task[t].fn.chunk /\ sent' = sent (+) SetToBag({m})
                   /\ task[t].fn.kind = "message" => m = Number(task[t].fn.chunk, task[t].fn.seq)
        BY <2>19, <4>1 DEF MessageSent, MessageArrives, MessageOf, Number
      <4> QED BY <2>8, <3>1, <4>1, <4>2 DEF OfRecording
    <3>3. CASE t \in Reconnecting
      <4>1. task[t].fn = toRetry[task[t].next]
        BY <3>3 DEF Steady, Retrying
      <4> QED BY <3>1, <3>2, <3>3, <4>1, <1>Retried
    <3>4. CASE t \notin Reconnecting
      <4>0. PICK d : d = task[t].fn.chunk
        OBVIOUS
      <4>1. PICK m : m.chunk = d /\ sent' = sent (+) SetToBag({m})
        BY <3>2, <4>0
      <4>2. /\ task[t].kind # "reconnect" /\ d \in 1 .. recorded /\ d \in Nat \ {0}
            /\ task[t] # None /\ t \in Task
        BY <2>2, <2>8, <3>1, <3>2, <3>4, <4>0 DEF Reconnecting
      <4>3. /\ \A u \in Task \ {t} : task'[u] = task[u]
            /\ Beside(task'[t], 0) /\ toRetry' = toRetry
        <5>1. <<>> \in Seq(Function) /\ toRetry \o <<>> = toRetry
          BY <2>2, ConcatEmptySeq
        <5> QED BY <2>2, <3>1, <4>2, <5>1, <1>Ended
      <4>4. \A u \in Task : Alike(task[u], task'[u]) \/ (Beside(task[u], d) /\ Beside(task'[u], d))
        BY <2>3, <4>0, <4>2, <4>3 DEF Beside
      <4>5. t \in CallsOf(d) /\ Whole(d)
        BY <3>1, <3>2, <4>0, <4>2 DEF CallsOf, Steady
      <4>6. RoomOf(d) = {} /\ CallsOf(d) = {t} /\ OwedOf(d) = {}
        BY <4>5 DEF Whole
      <4>7. m \notin Messages
        BY <4>1, <4>6 DEF RoomOf
      <4>8. /\ Messages' = Messages \cup {m} /\ sent'[m] = 0 + 1
            /\ \A n \in Messages : sent'[n] = sent[n] + 0
        BY <4>1, <4>7 DEF Messages, BagToSet, (+), SetToBag
      <4>9. \A n \in Messages : sent[n] \in Nat
        BY <2>2, SentOnce
      <4>10. CallsOf(d)' = {}
        <5>1. \A u \in Task \ {t} : u \notin CallsOf(d)'
          BY <4>3, <4>6 DEF CallsOf, Waiting
        <5>2. t \notin CallsOf(d)'
          BY <4>2, <4>3 DEF CallsOf, Waiting, Beside
        <5> QED BY <5>1, <5>2 DEF CallsOf, Waiting
      <4>11. RoomOf(d)' = {m}
        BY <4>1, <4>6, <4>8 DEF RoomOf
      <4>12. OwedOf(d)' = OwedOf(d) => Whole(d)'
        <5>1. unanswered'[d] \in Nat
          BY <2>2, <3>1, <4>2, Counted
        <5>2. Copies(d, m, 1)' /\ m \in Messages'
          BY <4>8, <5>1 DEF Copies
        <5> QED BY <4>6, <4>10, <4>11, <5>2 DEF Whole
      <4>13. /\ \A n \in Messages : sent'[n] = sent[n]
             /\ \A n : n \in Messages' /\ n.chunk # d <=> n \in Messages /\ n.chunk # d
        <5>1. \A n \in Messages : sent'[n] = sent[n]
          BY <4>8, <4>9
        <5>2. \A n : n \in Messages' /\ n.chunk # d <=> n \in Messages /\ n.chunk # d
          BY <4>1, <4>8
        <5> QED BY <5>1, <5>2
      <4> QED BY <2>2, <3>1, <4>2, <4>3, <4>4, <4>12, <4>13, <1>OneChunk
    <3> QED BY <3>3, <3>4
  <2>20. ASSUME NEW t \in Task, InfoSent(t) PROVE Steady'
    <3>1. /\ t \in Waiting /\ Proceed(t, <<>>) /\ UNCHANGED <<recorded, scenario, sent, unanswered>>
          /\ task[t].fn # None /\ task[t].fn.kind = "info" /\ task[t].fn.chunk = 0
      BY <2>1, <2>8, <2>20 DEF InfoSent, InfoArrives, AtCall, Waiting, Shaped, OfRecording
    <3>2. CASE t \in Reconnecting
      <4>1. task[t].fn = toRetry[task[t].next]
        BY <3>2 DEF Steady, Retrying
      <4> QED BY <3>1, <3>2, <4>1, <1>Retried
    <3>3. CASE t \notin Reconnecting
      <4>1. task[t].kind # "reconnect" /\ Beside(task[t], 0)
        BY <3>1, <3>3 DEF Reconnecting, Beside
      <4>2. /\ \A u \in Task \ {t} : task'[u] = task[u]
            /\ Beside(task'[t], 0) /\ toRetry' = toRetry
        <5>1. <<>> \in Seq(Function) /\ toRetry \o <<>> = toRetry
          BY <2>2, ConcatEmptySeq
        <5> QED BY <2>2, <3>1, <4>1, <5>1, <1>Ended
      <4>3. \A u \in Task : Alike(task[u], task'[u]) \/ (Beside(task[u], 0) /\ Beside(task'[u], 0))
        BY <2>3, <4>1, <4>2
      <4> QED BY <2>2, <3>1, <4>2, <4>3, <1>Still
    <3> QED BY <3>2, <3>3
  <2>21. CASE OnReconnect
    <3> DEFINE begun == NewTask("reconnect", "call", toRetry[1])
               new == [begun EXCEPT !.next = 1, !.own = TRUE, !.copy = toRetry]
    <3>1. PICK t \in FreeSlot : task' = [task EXCEPT ![t] = new]
      BY <2>21 DEF OnReconnect
    <3>2. /\ Reconnecting = {} /\ UNCHANGED <<recorded, toRetry, sent, unanswered>> /\ 1 \in 1 .. Len(toRetry)
      BY <2>2, <2>21 DEF OnReconnect, network
    <3>3. /\ new.kind = "reconnect" /\ new.fn = toRetry[1] /\ new.next = 1 /\ new.own
          /\ new.copy = toRetry
      BY DEF NewTask
    <3>4. task'[t] = new /\ t \in Task /\ task[t] = None /\ \A u \in Task \ {t} : task'[u] = task[u]
      BY <2>2, <3>1 DEF FreeSlot, Free, Waiting
    <3>5. new # None
      <4>1. toRetry[1] \in Function /\ "reconnect" \in Kind
        BY <2>2, <3>2 DEF Kind
      <4>2. begun \in Call
        BY <2>2, <4>1, NewTaskType
      <4>3. new \in Call
        <5> HIDE DEF begun
        <5> QED BY <2>2, <4>2 DEF Call
      <4> QED BY <4>3, RecordingAssumption DEF RecordingAssumption
    <3> HIDE DEF new
    <3>6. Reconnecting' = {t}
      <4>1. \A u \in Task : u \in Reconnecting' <=> u = t
        BY <3>2, <3>3, <3>4, <3>5 DEF Reconnecting, Waiting
      <4>2. Reconnecting' \subseteq Task
        BY DEF Reconnecting, Waiting
      <4> QED BY <3>4, <4>1, <4>2
    <3>7. Owed = 1 .. Len(toRetry) /\ Owed' = 1 .. Len(toRetry) /\ toRetry' = toRetry
      BY <2>2, <3>2, <3>3, <3>4, <3>6 DEF Owed
    <3>8. \A c : OwedOf(c)' = OwedOf(c) /\ RoomOf(c)' = RoomOf(c)
      BY <3>2, <3>7 DEF OwedOf, RoomOf, Messages
    <3>9. ASSUME NEW c PROVE CallsOf(c)' = CallsOf(c)
      <4>1. \A u \in Task : u \in CallsOf(c)' <=> u \in CallsOf(c)
        BY <3>3, <3>4 DEF CallsOf, Waiting
      <4>2. CallsOf(c) \subseteq Task /\ CallsOf(c)' \subseteq Task
        BY DEF CallsOf, Waiting
      <4> QED BY <4>1, <4>2
    <3>10. Retrying'
      <4>1. SubSeq(toRetry, 1, Len(toRetry)) = toRetry
        BY <2>2
      <4> QED BY <3>2, <3>3, <3>4, <3>6, <4>1 DEF Retrying
    <3>11. Moved(0)
      BY <3>2, <3>8, <3>9, <3>10 DEF Moved
    <3> QED BY <2>1, <3>11, <1>MovedKeeps
  <2> QED BY <2>9, <2>10, <2>11, <2>12, <2>13, <2>14, <2>15, <2>16, <2>18, <2>19, <2>20, <2>21 DEF Next, Requests
<1> QED BY <1>1, <1>2, Invariance, PTL DEF Spec

(* Reconnects that run alone and succeed lose no chunk.                    *)
THEOREM ChunksKept == Spec => []SteadyChunkKept
<1>1. IInv /\ Steady => SteadyChunkKept
  <2> SUFFICES ASSUME IInv, Steady, scenario.steady, NEW c \in 1 .. recorded
               PROVE  \/ \E m \in Messages : m.chunk = c
                      \/ \E t \in Waiting : task[t].fn # None /\ task[t].fn.chunk = c
                      \/ \E f \in ToSet(toRetry) : f.chunk = c
    BY DEF SteadyChunkKept, ChunkKept
  <2>1. \/ \E m \in Messages : m \in RoomOf(c)
        \/ \E t \in Task : t \in CallsOf(c)
        \/ \E i \in Owed : i \in OwedOf(c)
    BY DEF Steady, Whole
  <2> QED BY <2>1 DEF RoomOf, CallsOf, OwedOf, Owed, ToSet
<1> QED BY <1>1, Invariance, SteadyInvariance, PTL

(* Nor do they send one twice.                                             *)
THEOREM ChunksOnce == Spec => []SteadySentOnce
<1>1. IInv /\ Steady => SteadySentOnce
  BY SentOnce DEF SteadySentOnce, IInv
<1> QED BY <1>1, Invariance, SteadyInvariance, PTL

----------------------------------------------------------------------------
(* While the user waits for each command and nothing fails, one call at    *)
(* most carries out a command.                                             *)
Commanding == {t \in Waiting : task[t].kind # "chunk"}

(* It brings about the state that the recording says it is in: it waits    *)
(* for the recorder, then for the last chunk, then for the event.          *)
Commanded(call) ==
    /\ call.kind = state
    /\ \/ call.at = "start" /\ call.kind \in {"started", "resumed"} /\ recorder = "off"
       \/ call.at = "stop" /\ call.kind \in {"paused", "stopped"} /\ recorder = "on"
       \/ /\ call.at = "call" /\ call.fn = Info(call.kind) /\ call.kind # "started"
          /\ recorder = "on" <=> call.kind = "resumed"
       \/ /\ call.at \in {"call", "send"} /\ call.fn.kind = "upload"
          /\ call.kind \in {"paused", "stopped"} /\ recorder = "off"

Calls ==
    /\ \A t \in Waiting \ Commanding : task[t].fn.kind = "upload"
    /\ \A t \in Commanding : Commanded(task[t])
    /\ \A t, u \in Commanding : t = u

Phases ==
    /\ Calls
    /\ errors = 0 /\ destroyed = "no" /\ state \in InfoState
    /\ ~begin.created => Waiting = {} /\ recorder = "off" /\ state = "started"
    /\ begin.created /\ Commanding = {} =>
          /\ recorder = "on" <=> state \in {"started", "resumed"}
          /\ infos # <<>> => infos[Len(infos)].state = state
    /\ state = "started" => infos = <<>>
    /\ \A i \in 1 .. Len(infos) : infos[i].state = "stopped" => i = Len(infos) /\ Commanding = {}

OrderlyPhases == Orderly => Phases

(* OrderlyPhases holds in every behaviour. *)
THEOREM OrderlyInvariance == Spec => []OrderlyPhases
<1>1. Init => OrderlyPhases
  <2> SUFFICES ASSUME Init PROVE Phases
    BY DEF OrderlyPhases
  <2>1. Waiting = {} /\ Commanding = {}
    BY DEF Init, Waiting, Commanding
  <2> QED BY <2>1 DEF Init, Phases, Calls, InfoState
<1>2. IInv /\ OrderlyPhases /\ [Next]_vars => OrderlyPhases'
  <2> SUFFICES ASSUME IInv, OrderlyPhases, [Next]_vars PROVE OrderlyPhases'
    OBVIOUS
  <2>1. scenario' = scenario
    BY DEF Next, Answered, OnRoomStateEvents, Pause, Stop, Resume, Command, RecorderStopped,
           OnChunkRecorded, OnReconnect, OnReconnectIdle, OnBeforeRedaction, Requests, Uploaded,
           MessageSent, InfoSent, RecorderStarted, RequestFailed, AnswerLost, Failing, bounds, vars
  <2> SUFFICES ASSUME Orderly PROVE Phases'
    BY <2>1 DEF OrderlyPhases, Orderly
  <2>2. /\ Phases /\ Calls /\ TypeOK /\ task \in [Task -> Call \cup {None}] /\ None \notin Call
        /\ infos \in Seq([state : InfoState, last : Nat]) /\ state \in InfoState
        /\ begin \in [answered : BOOLEAN, inRoom : BOOLEAN, created : BOOLEAN]
        /\ recorder \in {"on", "off"} /\ None \notin Function
    BY RecordingAssumption DEF RecordingAssumption, IInv, TypeOK, OrderlyPhases, Phases
  <2>3. \A t \in Waiting : Shaped(task[t]) /\ task[t] \in Call /\ t \in Task /\ task[t] # None
    BY <2>2 DEF IInv, WellFormed, Waiting
  <2>4. \A kind, at, fn : /\ NewTask(kind, at, fn).kind = kind /\ NewTask(kind, at, fn).at = at
                          /\ NewTask(kind, at, fn).fn = fn
    BY DEF NewTask
  <2>5. \A s \in InfoState : /\ NewTask(s, "call", Info(s)) # None /\ NewTask(s, "start", None) # None
                             /\ StopThenSend(s) # None
    BY <2>2, RestingTasks DEF Resting, IInv, TypeOK
  <2>6. \A t \in FreeSlot : t \in Task /\ task[t] = None
    BY DEF FreeSlot, Free, Waiting
  (* The call in t becomes new, all others go on.                          *)
  <2>7. ASSUME NEW t \in Task, NEW new, task' = [task EXCEPT ![t] = new]
        PROVE  /\ task'[t] = new /\ \A u \in Task \ {t} : task'[u] = task[u]
               /\ new = None => Waiting' = Waiting \ {t} /\ Commanding' = Commanding \ {t}
               /\ new # None => Waiting' = Waiting \cup {t}
               /\ new # None /\ new.kind = "chunk" => Commanding' = Commanding \ {t}
               /\ new # None /\ new.kind # "chunk" => Commanding' = Commanding \cup {t}
    <3>1. task'[t] = new /\ \A u \in Task \ {t} : task'[u] = task[u]
      BY <2>2, <2>7
    <3>2. \A u \in Task : u \in Waiting' <=> IF u = t THEN new # None ELSE u \in Waiting
      BY <3>1 DEF Waiting
    <3>3. \A u \in Task : u \in Commanding' <=> IF u = t THEN new # None /\ new.kind # "chunk" ELSE u \in Commanding
      BY <3>1, <3>2 DEF Commanding
    <3>4. Waiting \subseteq Task /\ Waiting' \subseteq Task /\ Commanding \subseteq Task /\ Commanding' \subseteq Task
      BY DEF Waiting, Commanding
    <3> QED BY <3>1, <3>2, <3>3, <3>4
  <2>8. ASSUME UNCHANGED <<task, recorder, state>> PROVE Calls' /\ Waiting' = Waiting /\ Commanding' = Commanding
    BY <2>2, <2>8 DEF Calls, Commanding, Waiting, Commanded
  <2>9. CASE Answered \/ UNCHANGED vars
    BY <2>2, <2>8, <2>9 DEF Answered, vars, network, Phases
  <2>10. CASE OnRoomStateEvents
    <3>1. ~begin.created /\ Waiting = {} /\ Commanding = {} /\ begin.answered
      <4>1. ~begin.created /\ begin.answered
        BY <2>10 DEF OnRoomStateEvents, Orderly
      <4>2. Waiting = {}
        BY <2>2, <4>1 DEF Phases
      <4> QED BY <4>1, <4>2 DEF Commanding
    <3>2. PICK t \in FreeSlot : task' = [task EXCEPT ![t] = NewTask("started", "start", None)]
      BY <2>10, <3>1 DEF OnRoomStateEvents, Create
    <3>3. /\ begin'.created
          /\ UNCHANGED <<recorder, state, errors, destroyed, infos>>
          /\ recorder = "off" /\ state = "started" /\ infos = <<>>
      BY <2>2, <2>10, <3>1 DEF OnRoomStateEvents, Create, Phases, network
    <3>4. Commanding' = {t} /\ Waiting' = {t} /\ task'[t] = NewTask("started", "start", None)
      <4>1. PICK new : new = NewTask("started", "start", None)
        OBVIOUS
      <4>2. new.kind # "chunk" /\ new # None
        BY <2>4, <2>5, <4>1 DEF InfoState
      <4>3. task' = [task EXCEPT ![t] = new] /\ t \in Task
        BY <2>6, <3>2, <4>1
      <4>4. /\ task'[t] = new /\ Waiting' = Waiting \cup {t} /\ Commanding' = Commanding \cup {t}
        BY <2>7, <4>2, <4>3
      <4> QED BY <3>1, <4>1, <4>4
    <3>5. Calls'
      BY <2>4, <3>3, <3>4 DEF Calls, Commanded
    <3> QED BY <2>2, <3>3, <3>4, <3>5 DEF Phases
  <2>11. CASE Pause \/ Stop \/ Resume
    <3>1. /\ begin.created /\ Waiting = {} /\ Commanding = {}
          /\ UNCHANGED <<begin, recorder, errors, destroyed, infos>>
      BY <2>11 DEF Pause, Stop, Resume, Command, Orderly, Commanding, network
    <3>2. /\ recorder = "on" <=> state \in {"started", "resumed"}
          /\ infos # <<>> => infos[Len(infos)].state = state
      BY <2>2, <3>1 DEF Phases
    <3>3. PICK t \in FreeSlot :
            \/ /\ task' = [task EXCEPT ![t] = StopThenSend(state')] /\ state' \in {"paused", "stopped"}
               /\ state # "stopped" /\ (state' = "paused" => state # "paused")
            \/ /\ task' = [task EXCEPT ![t] = NewTask(state', "start", None)] /\ state' = "resumed"
               /\ recorder = "off" /\ state # "stopped"
      BY <2>2, <2>11, <3>2 DEF Pause, Stop, Resume, InfoState
    <3>4. state' \in InfoState /\ state' # "started"
      BY <3>3 DEF InfoState
    <3>5. /\ Commanding' = {t} /\ Waiting' = {t}
          /\ \/ task'[t] = StopThenSend(state') /\ state' \in {"paused", "stopped"}
             \/ task'[t] = NewTask(state', "start", None) /\ state' = "resumed" /\ recorder = "off"
      <4>1. PICK new : /\ task' = [task EXCEPT ![t] = new]
                       /\ \/ new = StopThenSend(state') /\ state' \in {"paused", "stopped"}
                          \/ new = NewTask(state', "start", None) /\ state' = "resumed" /\ recorder = "off"
        BY <3>3
      <4>2. new.kind = state' /\ new # None /\ new.kind # "chunk"
        BY <2>4, <2>5, <3>4, <4>1 DEF StopThenSend, InfoState
      <4> QED BY <2>6, <2>7, <3>1, <4>1, <4>2
    <3>6. Calls'
      BY <2>2, <2>4, <3>1, <3>5 DEF Calls, Commanded, StopThenSend
    <3>7. \A i \in 1 .. Len(infos) : infos[i].state # "stopped"
      <4>1. ASSUME NEW i \in 1 .. Len(infos), infos[i].state = "stopped" PROVE FALSE
        <5>1. i = Len(infos) /\ infos # <<>>
          BY <2>2, <4>1 DEF Phases
        <5> QED BY <3>2, <3>3, <4>1, <5>1
      <4> QED BY <4>1
    <3> QED BY <2>2, <3>1, <3>4, <3>5, <3>6, <3>7 DEF Phases
  <2>12. ASSUME NEW t \in Task, RecorderStarted(t) PROVE Phases'
    <3>1. /\ t \in Waiting /\ task[t].at = "start" /\ recorder' = "on"
          /\ UNCHANGED <<begin, state, errors, destroyed, infos>>
          /\ task' = [task EXCEPT ![t] =
                IF task[t].kind = "resumed" THEN NewTask("resumed", "call", Info("resumed")) ELSE None]
      <4>1. task[t] # None /\ task[t].at = "start" /\ ~scenario.refused
        BY <2>12 DEF RecorderStarted, Orderly
      <4> QED BY <2>12, <4>1 DEF RecorderStarted, Waiting, network
    <3>2. /\ t \in Commanding /\ Commanding = {t} /\ task[t].kind = state /\ state \in {"started", "resumed"}
          /\ begin.created
      <4>1. t \in Commanding
        BY <2>3, <3>1 DEF Commanding, Shaped
      <4> QED BY <2>2, <2>3, <3>1, <4>1 DEF Calls, Commanded, Phases, Shaped
    <3>3. \A i \in 1 .. Len(infos) : infos[i].state # "stopped"
      BY <2>2, <3>2 DEF Phases
    <3>4. CASE state = "resumed"
      <4>1. task' = [task EXCEPT ![t] = NewTask("resumed", "call", Info("resumed"))]
        BY <3>1, <3>2, <3>4
      <4>2. Commanding' = {t} /\ Waiting' = Waiting /\ task'[t] = NewTask("resumed", "call", Info("resumed"))
            /\ \A u \in Task \ {t} : task'[u] = task[u]
        <5>1. PICK new : new = NewTask("resumed", "call", Info("resumed"))
          OBVIOUS
        <5>2. new.kind # "chunk" /\ new # None
          BY <2>4, <2>5, <5>1 DEF InfoState
        <5>3. task' = [task EXCEPT ![t] = new]
          BY <4>1, <5>1
        <5>4. /\ task'[t] = new /\ \A u \in Task \ {t} : task'[u] = task[u]
              /\ Waiting' = Waiting \cup {t} /\ Commanding' = Commanding \cup {t}
          BY <2>7, <5>2, <5>3
        <5> QED BY <3>1, <3>2, <5>1, <5>4
      <4>3. Calls'
        <5>1. Commanded(task[t])'
          BY <2>4, <3>1, <3>4, <4>2 DEF Commanded
        <5>2. \A u \in Waiting' \ Commanding' : u \in Waiting \ Commanding /\ task'[u] = task[u]
          BY <2>3, <3>2, <4>2
        <5> QED BY <2>2, <4>2, <5>1, <5>2 DEF Calls
      <4> QED BY <2>2, <3>1, <3>2, <3>3, <3>4, <4>2, <4>3 DEF Phases
    <3>5. CASE state = "started"
      <4>1. task' = [task EXCEPT ![t] = None]
        BY <3>1, <3>2, <3>5
      <4>2. Commanding' = {} /\ Waiting' = Waiting \ {t} /\ \A u \in Task \ {t} : task'[u] = task[u]
        BY <2>7, <3>2, <4>1
      <4>3. Calls'
        BY <2>2, <2>3, <3>2, <4>2 DEF Calls
      <4> QED BY <2>2, <3>1, <3>2, <3>3, <3>5, <4>2, <4>3 DEF Phases
    <3> QED BY <3>2, <3>4, <3>5
  <2>13. CASE OnChunkRecorded
    <3>1. PICK t \in FreeSlot : task' = [task EXCEPT ![t] = NewTask("chunk", "call", Upload(recorded'))]
      BY <2>13 DEF OnChunkRecorded
    <3>2. NewTask("chunk", "call", Upload(recorded')) # None
      <4>1. recorded' \in Nat
        BY <2>2, <2>13 DEF OnChunkRecorded, TypeOK
      <4>2. Upload(recorded') \in Function /\ "chunk" \in Kind
        BY <4>1 DEF Upload, Function, Kind
      <4> QED BY <2>2, <4>2, NewTaskType DEF TypeOK
    <3>3. /\ Commanding' = Commanding /\ Waiting' = Waiting \cup {t}
          /\ task'[t] = NewTask("chunk", "call", Upload(recorded')) /\ \A u \in Task \ {t} : task'[u] = task[u]
      <4>1. t \notin Commanding
        BY <2>6, <3>1 DEF Commanding, Waiting
      <4>2. PICK new : new = NewTask("chunk", "call", Upload(recorded'))
        OBVIOUS
      <4>3. new.kind = "chunk" /\ new # None
        BY <2>4, <3>2, <4>2
      <4>4. task' = [task EXCEPT ![t] = new] /\ t \in Task
        BY <2>6, <3>1, <4>2
      <4>5. /\ task'[t] = new /\ \A u \in Task \ {t} : task'[u] = task[u]
            /\ Waiting' = Waiting \cup {t} /\ Commanding' = Commanding \ {t}
        BY <2>7, <4>3, <4>4
      <4> QED BY <4>1, <4>2, <4>5
    <3>4. UNCHANGED <<begin, state, recorder, errors, destroyed, infos>> /\ recorder = "on"
      BY <2>13 DEF OnChunkRecorded, network
    <3>5. Calls'
      <4>1. task'[t].fn.kind = "upload"
        BY <2>4, <3>3 DEF Upload
      <4>2. t \notin Commanding
        BY <2>6 DEF Commanding, Waiting
      <4> QED BY <2>2, <2>3, <3>3, <3>4, <4>1, <4>2 DEF Calls, Commanded, Commanding
    <3> QED BY <2>2, <3>3, <3>4, <3>5 DEF Phases
  <2>14. CASE RecorderStopped
    <3> DEFINE Send(u) == NewTask(task[u].kind, "call", Info(task[u].kind))
               Handed(u) == NewTask(task[u].kind, "call", Upload(recorded'))
               stopping == {t \in Waiting : task[t].at = "stop"}
    <3>1. PICK t \in stopping :
            /\ recorder = "on" /\ recorder' = "off"
            /\ task' = [u \in Task |-> IF u \in stopping THEN Send(u) ELSE task[u]]
               \/ \E v \in stopping : task' = [u \in Task |->
                    CASE u = v -> Handed(v) [] u \in stopping \ {v} -> Send(u) [] OTHER -> task[u]]
      BY <2>2, <2>14 DEF RecorderStopped, Phases
    <3>2. t \in Commanding /\ stopping = {t} /\ Commanding = {t} /\ t \in Task /\ task[t].kind = state
          /\ state \in {"paused", "stopped"}
      <4>1. \A u \in stopping : u \in Commanding
        BY <2>3 DEF Commanding, Shaped
      <4>2. \A u \in stopping : u = t
        BY <2>2, <4>1 DEF Calls
      <4>3. Commanded(task[t]) /\ \A u \in Commanding : u = t
        BY <2>2, <4>1 DEF Calls
      <4>4. task[t].fn = None /\ task[t].at = "stop" /\ t \in Task
        BY <2>3 DEF Shaped
      <4>5. task[t].kind = state /\ state \in {"paused", "stopped"}
        BY <4>3, <4>4 DEF Commanded
      <4> QED BY <4>1, <4>2, <4>3, <4>4, <4>5
    <3>3. /\ task'[t] = Send(t) \/ task'[t] = Handed(t)
          /\ \A u \in Task \ {t} : task'[u] = task[u]
      <4> HIDE DEF stopping, Send, Handed
      <4> QED BY <3>1, <3>2
    <3>4. task'[t] # None /\ task'[t].kind = state
      <4>1. Send(t) # None /\ Send(t).kind = state
        BY <2>2, <2>4, <2>5, <3>2
      <4>2. Handed(t) # None /\ Handed(t).kind = state
        <5>1. recorded' \in Nat
          BY <2>2, <2>14 DEF RecorderStopped, TypeOK
        <5>2. Upload(recorded') \in Function /\ state \in Kind
          BY <2>2, <5>1 DEF Upload, Function, Kind
        <5> QED BY <2>2, <3>2, <5>2, NewTaskType DEF TypeOK
      <4> HIDE DEF Send, Handed
      <4> QED BY <3>3, <4>1, <4>2
    <3>5. Waiting' = Waiting /\ Commanding' = {t} /\ begin.created
      <4>1. \A u \in Task : u \in Waiting' <=> u \in Waiting
        BY <2>3, <3>2, <3>3, <3>4 DEF Waiting
      <4>2. Waiting \subseteq Task /\ Waiting' \subseteq Task
        BY DEF Waiting
      <4>3. Waiting' = Waiting
        BY <4>1, <4>2
      <4>4. \A u \in Task : u \in Commanding' <=> u = t
        BY <3>2, <3>3, <3>4, <4>3 DEF Commanding
      <4>5. Commanding' \subseteq Task
        BY DEF Commanding, Waiting
      <4>6. begin.created
        BY <2>2 DEF Phases
      <4> QED BY <3>2, <4>3, <4>4, <4>5, <4>6
    <3>6. UNCHANGED <<begin, infos>> /\ errors' = 0 /\ state' = state /\ destroyed' = "no"
      BY <2>2, <2>14 DEF RecorderStopped, Phases, network
    <3>7. Calls'
      <4>1. Commanded(task[t])'
        <5>1. CASE task'[t] = Send(t)
          BY <2>4, <3>1, <3>2, <3>6, <5>1 DEF Commanded
        <5>2. CASE task'[t] = Handed(t)
          BY <2>4, <3>1, <3>2, <3>6, <5>2 DEF Commanded, Upload
        <5> QED BY <3>3, <5>1, <5>2
      <4>2. \A u \in Waiting' \ Commanding' : u \in Waiting \ Commanding /\ task'[u] = task[u]
        BY <2>3, <3>2, <3>3, <3>5
      <4> QED BY <2>2, <3>5, <4>1, <4>2 DEF Calls
    <3> QED BY <2>2, <3>1, <3>2, <3>5, <3>6, <3>7 DEF Phases
  <2>15. ASSUME NEW t \in Task, Uploaded(t) PROVE Phases'
    <3> DEFINE new == [task[t] EXCEPT !.at = "send", !.seq = sequence + 1]
    <3>1. /\ task[t] \in Call /\ t \in Waiting /\ task[t].at = "call" /\ task[t].fn.kind = "upload"
          /\ task' = [task EXCEPT ![t] = new]
          /\ UNCHANGED <<begin, state, recorder, errors, destroyed, infos>> /\ sequence + 1 \in Nat
      <4>1. task[t] # None /\ task[t].at = "call" /\ task[t].fn.kind = "upload"
        BY <2>15 DEF Uploaded, AtCall
      <4>2. t \in Waiting /\ task[t] \in Call /\ sequence + 1 \in Nat
        BY <2>2, <4>1 DEF Waiting, TypeOK
      <4>3. task' = [task EXCEPT ![t] = new]
        BY <2>2, <2>15 DEF Uploaded
      <4>4. UNCHANGED <<begin, state, recorder, errors, destroyed, infos>>
        BY <2>15 DEF Uploaded, network
      <4> QED BY <4>1, <4>2, <4>3, <4>4
    <3>2. new \in Call /\ new.kind = task[t].kind /\ new.fn = task[t].fn /\ new.at = "send"
      BY <3>1 DEF Call
    <3> HIDE DEF new
    <3>3. task'[t] = new /\ new # None /\ \A u \in Task \ {t} : task'[u] = task[u]
      BY <2>2, <3>1, <3>2
    <3>4. \A u \in Task : /\ u \in Waiting' <=> u \in Waiting
                          /\ u \in Commanding' <=> u \in Commanding
      BY <3>1, <3>2, <3>3 DEF Waiting, Commanding
    <3>5. Waiting' = Waiting /\ Commanding' = Commanding
      <4>1. Waiting \subseteq Task /\ Waiting' \subseteq Task /\ Commanding \subseteq Task /\ Commanding' \subseteq Task
        BY DEF Waiting, Commanding
      <4> QED BY <3>4, <4>1
    <3>6. Calls'
      <4>1. \A u \in Waiting : task'[u].fn = task[u].fn /\ task'[u].kind = task[u].kind
        BY <2>3, <3>2, <3>3
      <4>2. ASSUME NEW u \in Commanding PROVE Commanded(task[u])'
        <5>1. u \in Waiting /\ Commanded(task[u])
          BY <2>2 DEF Calls, Commanding
        <5>2. CASE u = t
          <6>1. task[t].kind \in {"paused", "stopped"} /\ recorder = "off" /\ task[t].kind = state
            BY <3>1, <5>1, <5>2 DEF Commanded, Info
          <6> QED BY <3>1, <3>2, <3>3, <5>2, <6>1 DEF Commanded
        <5>3. CASE u # t
          BY <2>3, <3>1, <3>3, <5>1, <5>3 DEF Commanded
        <5> QED BY <5>2, <5>3
      <4> QED BY <2>2, <3>5, <4>1, <4>2 DEF Calls, Commanding
    <3> QED BY <2>2, <3>1, <3>5, <3>6 DEF Phases
  (* A call that is not a reconnect ends without a failure.                *)
  <2>16. ASSUME NEW t \in Waiting, Proceed(t, <<>>)
         PROVE  /\ task[t].kind # "reconnect" /\ errors' = errors /\ state' = state
                /\ task' = [task EXCEPT ![t] =
                      IF task[t].kind \in {"paused", "stopped"} /\ task[t].fn.kind = "upload"
                      THEN NewTask(task[t].kind, "call", Info(task[t].kind)) ELSE None]
    <3>1. task[t].kind # "reconnect"
      BY <2>2 DEF Calls, Commanding, Commanded, InfoState
    <3> QED BY <2>16, <3>1 DEF Proceed, StateAfter, ErrorsAfter
  <2>17. ASSUME NEW t \in Task, MessageSent(t) PROVE Phases'
    <3>1. /\ t \in Waiting /\ Proceed(t, <<>>) /\ UNCHANGED <<begin, recorder, destroyed, infos>>
          /\ task[t].at = "send" \/ (task[t].at = "call" /\ task[t].fn.kind = "message")
      BY <2>17 DEF MessageSent, MessageArrives, AtCall, Waiting, bounds
    <3>2. errors' = errors /\ state' = state
      BY <2>16, <3>1
    <3>3. CASE t \in Commanding
      <4>1. /\ Commanding = {t} /\ task[t].kind = state /\ state \in {"paused", "stopped"}
            /\ recorder = "off" /\ task[t].fn.kind = "upload" /\ begin.created
        <5>1. Commanded(task[t]) /\ Commanding = {t} /\ begin.created
          BY <2>2, <3>1, <3>3 DEF Calls, Phases
        <5> QED BY <2>3, <3>1, <5>1 DEF Commanded, Info, Shaped
      <4>2. PICK new : new = NewTask(state, "call", Info(state))
        OBVIOUS
      <4>3. task' = [task EXCEPT ![t] = new] /\ new # None /\ new.kind = state /\ new.at = "call"
            /\ new.fn = Info(state)
        <5>1. task' = [task EXCEPT ![t] = new]
          BY <2>16, <3>1, <4>1, <4>2
        <5> QED BY <2>2, <2>4, <2>5, <4>2, <5>1
      <4>4. /\ task'[t] = new /\ \A u \in Task \ {t} : task'[u] = task[u]
            /\ Waiting' = Waiting \cup {t} /\ Commanding' = Commanding \cup {t}
        BY <2>7, <4>1, <4>3
      <4>5. Waiting' = Waiting /\ Commanding' = {t}
        BY <3>1, <4>1, <4>4
      <4>6. Commanded(task[t])'
        BY <3>1, <3>2, <4>1, <4>3, <4>4 DEF Commanded
      <4>7. \A u \in Waiting' \ Commanding' : u \in Waiting \ Commanding /\ task'[u] = task[u]
        BY <2>3, <4>1, <4>4, <4>5
      <4>8. Calls'
        BY <2>2, <4>5, <4>6, <4>7 DEF Calls
      <4> QED BY <2>2, <3>1, <3>2, <4>1, <4>5, <4>8 DEF Phases
    <3>4. CASE t \notin Commanding
      <4>1. task[t].kind = "chunk"
        BY <3>1, <3>4 DEF Commanding
      <4>2. task' = [task EXCEPT ![t] = None]
        BY <2>16, <3>1, <4>1
      <4>3. /\ \A u \in Task \ {t} : task'[u] = task[u]
            /\ Waiting' = Waiting \ {t} /\ Commanding' = Commanding
        <5>1. /\ \A u \in Task \ {t} : task'[u] = task[u]
              /\ Waiting' = Waiting \ {t} /\ Commanding' = Commanding \ {t}
          BY <2>7, <4>2
        <5> QED BY <3>4, <5>1
      <4>4. Calls'
        <5>1. \A u \in Commanding : Commanded(task[u])' /\ task'[u] = task[u]
          BY <2>2, <2>3, <3>1, <3>2, <3>4, <4>3 DEF Calls, Commanding, Commanded
        <5>2. \A u \in Waiting' \ Commanding' : u \in Waiting \ Commanding /\ task'[u] = task[u]
          BY <2>3, <4>3
        <5> QED BY <2>2, <4>3, <5>1, <5>2 DEF Calls
      <4> QED BY <2>2, <3>1, <3>2, <4>3, <4>4 DEF Phases
    <3> QED BY <3>3, <3>4
  <2>18. ASSUME NEW t \in Task, InfoSent(t) PROVE Phases'
    <3>1. /\ t \in Waiting /\ Proceed(t, <<>>) /\ UNCHANGED <<begin, recorder, destroyed>>
          /\ task[t].at = "call" /\ task[t].fn.kind = "info"
          /\ infos' = Append(infos, [state |-> task[t].fn.state, last |-> task[t].seq])
      BY <2>18 DEF InfoSent, InfoArrives, AtCall, Waiting, bounds
    <3>2. /\ t \in Commanding /\ Commanding = {t} /\ task[t].kind = state /\ state # "started"
          /\ task[t].fn = Info(state)
          /\ recorder = "on" <=> state = "resumed"
      <4>1. t \in Commanding
        BY <2>2, <3>1 DEF Calls
      <4>2. Commanded(task[t]) /\ Commanding = {t}
        BY <2>2, <4>1 DEF Calls
      <4> QED BY <3>1, <4>1, <4>2 DEF Commanded
    <3>3. begin.created /\ \A i \in 1 .. Len(infos) : infos[i].state # "stopped"
      BY <2>2, <3>2 DEF Phases
    <3>4. errors' = errors /\ state' = state /\ task' = [task EXCEPT ![t] = None]
      BY <2>16, <3>1
    <3>5. /\ \A u \in Task \ {t} : task'[u] = task[u]
          /\ Waiting' = Waiting \ {t} /\ Commanding' = {}
      BY <2>7, <3>2, <3>4
    <3>6. Calls'
      BY <2>2, <2>3, <3>2, <3>5 DEF Calls
    <3>7. /\ Len(infos') = Len(infos) + 1 /\ Len(infos) \in Nat /\ infos' # <<>>
          /\ infos'[Len(infos) + 1].state = state
          /\ \A i \in 1 .. Len(infos) : infos'[i] = infos[i]
      <4>1. task[t].fn.state = state
        BY <3>2 DEF Info
      <4> QED BY <2>2, <2>3, <3>1, <4>1 DEF Call
    <3>8. \A i \in 1 .. Len(infos') : infos'[i].state = "stopped" => i = Len(infos')
      <4>1. \A i \in 1 .. Len(infos') : i \in 1 .. Len(infos) \/ i = Len(infos')
        BY <3>7
      <4> QED BY <3>3, <3>7, <4>1
    <3> QED BY <2>2, <3>1, <3>2, <3>3, <3>4, <3>5, <3>6, <3>7, <3>8 DEF Phases
  <2>19. /\ ~OnReconnect /\ ~OnReconnectIdle /\ ~OnBeforeRedaction
         /\ \A t \in Task : ~RequestFailed(t) /\ ~AnswerLost(t)
    <3>1. failures \in Nat /\ scenario.failures = 0 /\ ~scenario.redactions
      BY <2>2 DEF TypeOK, Orderly
    <3>2. state # "connection_error"
      BY <2>2 DEF InfoState
    <3> QED BY <3>1, <3>2 DEF OnReconnect, OnReconnectIdle, OnBeforeRedaction, RequestFailed, AnswerLost, Failing
  <2> QED BY <2>9, <2>10, <2>11, <2>12, <2>13, <2>14, <2>15, <2>17, <2>18, <2>19 DEF Next, Requests
<1> QED BY <1>1, <1>2, Invariance, PTL DEF Spec

(* Where the user waits and nothing fails, the microphone, the state of    *)
(* the recording and the last event in the room agree in the end.          *)
THEOREM Agreement == Spec => []StatesAgree
<1>1. IInv /\ OrderlyPhases => StatesAgree
  <2> SUFFICES ASSUME IInv, OrderlyPhases, Orderly, Quiet
               PROVE  /\ begin.created => (recorder = "on" <=> state \in {"started", "resumed"})
                      /\ infos # <<>> => Last(infos).state = state
    BY DEF StatesAgree
  <2>1. Phases /\ Waiting = {} /\ Commanding = {}
    BY DEF OrderlyPhases, Quiet, Commanding
  <2>2. begin.created \/ infos = <<>>
    BY <2>1 DEF Phases
  <2> QED BY <2>1, <2>2 DEF Phases, Last
<1> QED BY <1>1, Invariance, OrderlyInvariance, PTL

(* There, too, no info state event follows the end of the broadcast.       *)
THEOREM StoppedLast == Spec => []StoppedIsLast
<1>1. IInv /\ OrderlyPhases => StoppedIsLast
  <2> SUFFICES ASSUME IInv, OrderlyPhases, Orderly, NEW i \in 1 .. Len(infos) - 1
               PROVE  infos[i].state # "stopped"
    BY DEF StoppedIsLast
  <2>1. i \in 1 .. Len(infos) /\ i # Len(infos)
    BY DEF IInv, TypeOK
  <2> QED BY <2>1 DEF OrderlyPhases, Phases
<1> QED BY <1>1, Invariance, OrderlyInvariance, PTL
=============================================================================
