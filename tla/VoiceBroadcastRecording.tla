----------------------- MODULE VoiceBroadcastRecording -----------------------
(***************************************************************************)
(* One voice broadcast that this client records: startBroadcast, the       *)
(* VoiceBroadcastRecording with its commands, chunks and retry list, and   *)
(* the recorder below it (src/voice-broadcast).                            *)
(*                                                                         *)
(* Every asynchronous call of a method is a task that holds a slot while   *)
(* it waits; the code between two awaits is one step.  A retryable         *)
(* function is a record that says what it sends.  A recorder that is       *)
(* not recording is stopped at once: its promise settles in microtasks.    *)
(***************************************************************************)
EXTENDS Integers, SequencesExt

CONSTANTS
    Task,           \* bound: slots for calls that wait
    None,
    Scenarios       \* bounds and assumptions, one of which a behaviour is under

Scenario ==
    [chunks : Nat,           \* bound: chunks of the recording
     commands : Nat,         \* bound: pauses, resumes and stops
     failures : Nat,         \* bound: requests that fail or whose answer is lost
     reconnects : Nat,       \* bound: changes of the sync state
     patient : BOOLEAN,      \* are commands given only when everything else is done?
     steady : BOOLEAN,       \* do reconnects run alone, and succeed?
     refused : BOOLEAN,      \* may the browser refuse the microphone?
     answerFirst : BOOLEAN,  \* does the answer come before the event does by /sync?
     redactions : BOOLEAN,   \* may the broadcast be redacted?
     fair : BOOLEAN]         \* are requests and reconnects fair?


VARIABLES
    begin,        \* startBroadcast: is the event answered for, is it in the room?
    state,
    recorder,     \* "on" while VoiceRecording.recording
    destroyed,    \* "stopping" until the recorder that destroy stops has stopped
    recorded,     \* chunks that the recording was given: not the last one of a recorder
                  \* that onConnectionError or destroy stops, which nobody sends
    sequence,
    task,         \* the calls that wait
    errors,       \* calls of onConnectionError that wait for the recorder
    toRetry,
    sent,         \* messages that reached the room
    infos,        \* info state events that reached the room
    unanswered,   \* history: how many messages of a chunk got there without an answer
    commands, failures, reconnects,
    scenario      \* never changes

bounds == <<commands, failures, reconnects, scenario>>
network == <<sent, infos, unanswered>>
vars == <<begin, state, recorder, destroyed, recorded, sequence, task, errors, toRetry,
          network, bounds>>

InfoState == {"started", "paused", "resumed", "stopped"}

(* uploadAndSendFn of a chunk, sendMessageFn of a chunk and a sequence     *)
(* number, sendEventFn of a state.                                         *)
Upload(c) == [kind |-> "upload", chunk |-> c, seq |-> 0, state |-> None]
Message(c, n) == [kind |-> "message", chunk |-> c, seq |-> n, state |-> None]
Info(s) == [kind |-> "info", chunk |-> 0, seq |-> 0, state |-> s]
Function == [kind : {"upload", "message", "info"}, chunk : Nat, seq : Nat,
             state : InfoState \cup {None}]

(* A call: of onChunkRecorded ("chunk"), of the method that brings about   *)
(* an info state, or of onReconnect.  It waits for the recorder to stop or *)
(* start, for the function fn ("call"), or for the message that an upload  *)
(* has led to ("send").  seq is what it read of `sequence'; onReconnect    *)
(* iterates over `list', the toRetry it found, which is this.toRetry as    *)
(* long as it is `own'.                                                    *)
Call == [kind : InfoState \cup {"chunk", "reconnect"}, at : {"stop", "start", "call", "send"},
         fn : Function \cup {None}, seq : Nat, next : Nat, own : BOOLEAN,
         copy : Seq(Function), list : Seq(Function)]

ASSUME RecordingAssumption == Scenarios \subseteq Scenario /\ None \notin Function \cup Call

TypeOK ==
    /\ begin \in [answered : BOOLEAN, inRoom : BOOLEAN, created : BOOLEAN]
    /\ state \in InfoState \cup {"connection_error"}
    /\ recorder \in {"on", "off"} /\ destroyed \in {"no", "stopping", "yes"}
    /\ recorded \in 0 .. scenario.chunks /\ sequence \in Nat /\ errors \in Nat
    /\ task \in [Task -> Call \cup {None}] /\ toRetry \in Seq(Function)
    /\ BagToSet(sent) \subseteq [chunk : 1 .. scenario.chunks, seq : Nat]
    /\ infos \in Seq([state : InfoState, last : Nat])
    /\ unanswered \in [1 .. scenario.chunks -> Nat]
    /\ commands \in 0 .. scenario.commands /\ failures \in 0 .. scenario.failures
    /\ reconnects \in 0 .. scenario.reconnects /\ scenario \in Scenarios

Init ==
    /\ begin = [answered |-> FALSE, inRoom |-> FALSE, created |-> FALSE]
    /\ state = "started" /\ recorder = "off" /\ destroyed = "no"
    /\ recorded = 0 /\ sequence = 0 /\ errors = 0
    /\ task = [t \in Task |-> None]
    /\ toRetry = <<>> /\ sent = EmptyBag /\ infos = <<>>
    /\ commands = 0 /\ failures = 0 /\ reconnects = 0 /\ scenario \in Scenarios
    /\ unanswered = [c \in 1 .. scenario.chunks |-> 0]

----------------------------------------------------------------------------
Waiting == {t \in Task : task[t] # None}
Free == Task \ Waiting

(* The slot that a new call takes; slots differ by nothing else. *)
FreeSlot == IF Free = {} THEN {} ELSE {CHOOSE t \in Free : TRUE}

Reconnecting == {t \in Waiting : task[t].kind = "reconnect"}

(* A call begins; it waits at `at' for fn. *)
NewTask(kind, at, fn) ==
    [kind |-> kind, at |-> at, fn |-> fn, seq |-> sequence, next |-> 0, own |-> FALSE,
     copy |-> <<>>, list |-> <<>>]

(* stopRecorder, then sendInfoStateEvent. *)
StopThenSend(s) == IF recorder = "on" THEN NewTask(s, "stop", None) ELSE NewTask(s, "call", Info(s))

(* Mutant: what has been retried stays. *)
NotSpliced(copy, fn) == copy

(* toRetryCopy.splice(toRetryCopy.indexOf(fn), 1), which removes the last  *)
(* element when there is no fn.                                            *)
Spliced(copy, fn) ==
    IF fn \in ToSet(copy) THEN RemoveAt(copy, SelectInSeq(copy, LAMBDA f : f = fn))
    ELSE IF copy = <<>> THEN copy ELSE Front(copy)

(* Mutant: the function is kept, the connection error not noticed. *)
StateUnaware(fns) == state

(* callWithRetry pushes fns to this.toRetry and calls onConnectionError. *)
StateAfter(fns) == IF fns # <<>> /\ recorder = "off" THEN "connection_error" ELSE state
ErrorsAfter(fns) == IF fns # <<>> /\ recorder = "on" THEN errors + 1 ELSE errors

(* onReconnect in t is at its end: this.toRetry is replaced, and when      *)
(* nothing is left the recording pauses.                                   *)
EndReconnect(t, copy, fns) ==
    LET old == toRetry \o fns
        pausing == copy = <<>> /\ StateAfter(fns) \notin {"stopped", "paused"}
    IN  /\ toRetry' = copy
        /\ state' = IF pausing THEN "paused" ELSE StateAfter(fns)
        /\ task' = [u \in Task |->
                CASE u = t -> IF pausing THEN StopThenSend("paused") ELSE None
                  [] u \in Reconnecting \ {t} /\ task[u].own
                        -> [task[u] EXCEPT !.own = FALSE, !.list = old]
                  [] OTHER -> task[u]]

(* onReconnect in t goes on with its next function, or ends. *)
NextRetry(t, copy, fns) ==
    LET list == IF task[t].own THEN toRetry \o fns ELSE task[t].list
        n == task[t].next + 1
    IN  \/ /\ n > Len(list)
           /\ EndReconnect(t, copy, fns)
        \/ /\ n <= Len(list)
           /\ task' = [task EXCEPT ![t].fn = list[n], ![t].at = "call", ![t].next = n,
                                   ![t].copy = copy, ![t].seq = sequence]
           /\ toRetry' = toRetry \o fns /\ state' = StateAfter(fns)

(* The call that t waits for has ended without throwing; fns failed in it. *)
Proceed(t, fns) ==
    /\ errors' = ErrorsAfter(fns)
    /\ \/ /\ task[t].kind = "reconnect"
          /\ NextRetry(t, Spliced(task[t].copy, task[t].fn), fns)
       \/ /\ task[t].kind \in {"paused", "stopped"} /\ task[t].fn.kind = "upload"
          /\ task' = [task EXCEPT ![t] = NewTask(@.kind, "call", Info(@.kind))]
          /\ toRetry' = toRetry \o fns /\ state' = StateAfter(fns)
       \/ /\ task[t].kind # "reconnect"
          /\ task[t].kind \in {"paused", "stopped"} => task[t].fn.kind # "upload"
          /\ task' = [task EXCEPT ![t] = None]
          /\ toRetry' = toRetry \o fns /\ state' = StateAfter(fns)

----------------------------------------------------------------------------
(* startBroadcast: the server answers the "started" event, and the event   *)
(* comes down /sync.  The listener returns as long as there is no answer;  *)
(* after one, any state event of the room lets it find the broadcast.      *)
Create(b) ==
    /\ begin' = [b EXCEPT !.created = TRUE]
    /\ \E t \in FreeSlot : task' = [task EXCEPT ![t] = NewTask("started", "start", None)]

Answered ==
    /\ ~begin.answered
    /\ begin' = [begin EXCEPT !.answered = TRUE]
    /\ UNCHANGED <<state, recorder, destroyed, recorded, sequence, task, errors, toRetry, network, bounds>>

OnRoomStateEvents ==
    /\ ~begin.created /\ (scenario.answerFirst => begin.answered)
    /\ \/ begin.answered /\ Create([begin EXCEPT !.inRoom = TRUE])
       \/ ~begin.answered /\ ~begin.inRoom /\ begin' = [begin EXCEPT !.inRoom = TRUE] /\ UNCHANGED task
    /\ UNCHANGED <<state, recorder, destroyed, recorded, sequence, errors, toRetry, network, bounds>>

(* A command of the user; a call of his pauses too, as does reaching the   *)
(* end of the broadcast stop it.                                           *)
Command ==
    /\ begin.created /\ commands < scenario.commands
    /\ scenario.patient => Waiting = {} /\ errors = 0 /\ state # "connection_error"
    /\ commands' = commands + 1
    /\ UNCHANGED <<begin, recorder, destroyed, recorded, sequence, errors, toRetry, network,
                   failures, reconnects, scenario>>

(* Mutant: only paused recordings cannot be paused. *)
PauseStopped ==
    /\ Command /\ destroyed = "no"
    /\ state # "paused" /\ state' = "paused"
    /\ \E t \in FreeSlot : task' = [task EXCEPT ![t] = StopThenSend("paused")]

Pause ==
    /\ Command /\ destroyed = "no"
    /\ state \notin {"stopped", "paused"}
    /\ state' = "paused"
    /\ \E t \in FreeSlot : task' = [task EXCEPT ![t] = StopThenSend("paused")]

(* Mutant: stop sends what pause sends. *)
StopAsPause ==
    /\ Command
    /\ state # "stopped" /\ state' = "stopped"
    /\ \E t \in FreeSlot : task' = [task EXCEPT ![t] = StopThenSend("paused")]

Stop ==
    /\ Command
    /\ state # "stopped"
    /\ state' = "stopped"
    /\ \E t \in FreeSlot : task' = [task EXCEPT ![t] = StopThenSend("stopped")]

(* VoiceRecording.start throws while it still records. *)
Resume ==
    /\ Command
    /\ state = "paused" /\ state' = "resumed"
    /\ \/ recorder = "on" /\ UNCHANGED task
       \/ /\ recorder = "off"
          /\ \E t \in FreeSlot : task' = [task EXCEPT ![t] = NewTask("resumed", "start", None)]

(* The microphone is there, or refused. *)
RecorderStarted(t) ==
    /\ task[t] # None /\ task[t].at = "start"
    /\ \/ /\ recorder' = "on"
          /\ task' = [task EXCEPT ![t] =
                IF @.kind = "resumed" THEN NewTask("resumed", "call", Info("resumed")) ELSE None]
       \/ scenario.refused /\ task' = [task EXCEPT ![t] = None] /\ UNCHANGED recorder
    /\ UNCHANGED <<begin, state, destroyed, recorded, sequence, errors, toRetry, network, bounds>>

(* The recorder has stopped, for all who wait: one of them is handed the   *)
(* last chunk, if any, and onConnectionError drops it.                     *)
RecorderStopped ==
    LET stopping == {t \in Waiting : task[t].at = "stop"}
        Send(u) == NewTask(task[u].kind, "call", Info(task[u].kind))
    IN  /\ recorder = "on" /\ (destroyed = "stopping" \/ errors > 0 \/ stopping # {})
        /\ recorder' = "off" /\ errors' = 0
        /\ state' = IF errors > 0 THEN "connection_error" ELSE state
        /\ \/ /\ task' = [u \in Task |-> IF u \in stopping THEN Send(u) ELSE task[u]]
              /\ UNCHANGED recorded
           \/ \E t \in stopping :
              /\ recorded < scenario.chunks /\ recorded' = recorded + 1
              /\ task' = [u \in Task |->
                    CASE u = t -> NewTask(task[t].kind, "call", Upload(recorded'))
                      [] u \in stopping \ {t} -> Send(u)
                      [] OTHER -> task[u]]
        /\ destroyed' = IF destroyed = "stopping" THEN "yes" ELSE destroyed
        /\ UNCHANGED <<begin, sequence, toRetry, network, bounds>>

(* ChunkRecorded: the recorder has filled a chunk. *)
OnChunkRecorded ==
    /\ recorder = "on" /\ destroyed = "no" /\ recorded < scenario.chunks
    /\ recorded' = recorded + 1
    /\ \E t \in FreeSlot : task' = [task EXCEPT ![t] = NewTask("chunk", "call", Upload(recorded'))]
    /\ UNCHANGED <<begin, state, recorder, destroyed, sequence, errors, toRetry, network, bounds>>

----------------------------------------------------------------------------
AtCall(t, kind) == task[t] # None /\ task[t].at = "call" /\ task[t].fn.kind = kind

(* Mutant: the number was read before the upload. *)
UploadedStale(t) ==
    /\ AtCall(t, "upload")
    /\ sequence' = task[t].seq + 1
    /\ task' = [task EXCEPT ![t].at = "send", ![t].seq = @ + 1]
    /\ UNCHANGED <<begin, state, recorder, destroyed, recorded, errors, toRetry, network, bounds>>

(* A chunk is uploaded: sendVoiceMessage takes the next sequence number. *)
Uploaded(t) ==
    /\ AtCall(t, "upload")
    /\ sequence' = sequence + 1
    /\ task' = [task EXCEPT ![t].at = "send", ![t].seq = sequence + 1]
    /\ UNCHANGED <<begin, state, recorder, destroyed, recorded, errors, toRetry, network, bounds>>

(* The message that the call in t sends, if it sends one, and its arrival. *)
MessageOf(t) ==
    [chunk |-> task[t].fn.chunk, seq |-> IF task[t].at = "send" THEN task[t].seq ELSE task[t].fn.seq]

MessageArrives(t) ==
    /\ AtCall(t, "message") \/ (task[t] # None /\ task[t].at = "send")
    /\ sent' = sent (+) SetToBag({MessageOf(t)})
    /\ UNCHANGED infos

InfoArrives(t) ==
    /\ AtCall(t, "info")
    /\ infos' = Append(infos, [state |-> task[t].fn.state, last |-> task[t].seq])
    /\ UNCHANGED <<sent, unanswered>>

(* A message reaches the room, and the answer the client. *)
MessageSent(t) ==
    /\ MessageArrives(t) /\ Proceed(t, <<>>)
    /\ UNCHANGED <<begin, recorder, destroyed, recorded, sequence, unanswered, bounds>>

(* An info state event does. *)
InfoSent(t) ==
    /\ InfoArrives(t) /\ Proceed(t, <<>>)
    /\ UNCHANGED <<begin, recorder, destroyed, recorded, sequence, bounds>>

(* Mutant: the message of an upload is not kept when it fails. *)
ThrowsForgetful(t) ==
    \/ /\ task[t].at = "call" /\ task[t].kind # "reconnect"
       /\ Proceed(t, <<task[t].fn>>)
    \/ /\ task[t].at = "call" /\ task[t].kind = "reconnect"
       /\ EndReconnect(t, task[t].copy, <<>>)
       /\ UNCHANGED errors
    \/ /\ task[t].at = "send" /\ Proceed(t, <<>>)

(* The request throws: callWithRetry keeps the function, onReconnect       *)
(* stops.  The message of an upload has a callWithRetry of its own.        *)
Throws(t) ==
    \/ /\ task[t].at = "call" /\ task[t].kind # "reconnect"
       /\ Proceed(t, <<task[t].fn>>)
    \/ /\ task[t].at = "call" /\ task[t].kind = "reconnect"
       /\ EndReconnect(t, task[t].copy, <<>>)
       /\ UNCHANGED errors
    \/ /\ task[t].at = "send"
       /\ Proceed(t, <<Message(task[t].fn.chunk, task[t].seq)>>)

Failing(t) ==
    /\ failures < scenario.failures /\ failures' = failures + 1
    /\ scenario.steady => Reconnecting = {}
    /\ task[t] # None /\ Throws(t)
    /\ UNCHANGED <<begin, recorder, destroyed, recorded, sequence, commands, reconnects, scenario>>

(* A request fails without effect. *)
RequestFailed(t) == Failing(t) /\ UNCHANGED network

(* What a request sends is in the room, but its answer does not arrive:    *)
(* sent again, it is another event, as every call takes a new transaction. *)
AnswerLost(t) ==
    /\ Failing(t)
    /\ \/ /\ MessageArrives(t)
          /\ unanswered' = [unanswered EXCEPT ![task[t].fn.chunk] = @ + 1]
       \/ InfoArrives(t)

(* The sync state changes to one that is no error. *)
OnReconnect ==
    /\ state = "connection_error" /\ destroyed = "no"
    /\ scenario.steady => Reconnecting = {}
    /\ reconnects < scenario.reconnects /\ reconnects' = reconnects + 1
    /\ toRetry # <<>>
    /\ \E t \in FreeSlot : task' = [task EXCEPT ![t] =
            [NewTask("reconnect", "call", toRetry[1]) EXCEPT !.next = 1, !.own = TRUE,
                                                             !.copy = toRetry]]
    /\ UNCHANGED <<begin, state, recorder, destroyed, recorded, sequence, errors, toRetry,
                   network, commands, failures, scenario>>

(* onReconnect finds nothing to retry. *)
OnReconnectIdle ==
    /\ state = "connection_error" /\ destroyed = "no" /\ toRetry = <<>>
    /\ reconnects < scenario.reconnects /\ reconnects' = reconnects + 1
    /\ state' = "paused"
    /\ \E t \in FreeSlot : task' = [task EXCEPT ![t] = StopThenSend("paused")]
    /\ UNCHANGED <<begin, recorder, destroyed, recorded, sequence, errors, toRetry,
                   network, commands, failures, scenario>>

(* onBeforeRedaction, with destroy. *)
OnBeforeRedaction ==
    /\ scenario.redactions /\ begin.created /\ state # "stopped"
    /\ state' = "stopped"
    /\ destroyed' = IF recorder = "on" THEN "stopping" ELSE "yes"
    /\ UNCHANGED <<begin, recorder, recorded, sequence, task, errors, toRetry, network, bounds>>

Requests(t) == Uploaded(t) \/ MessageSent(t) \/ InfoSent(t) \/ RecorderStarted(t)

Next ==
    \/ Answered \/ OnRoomStateEvents
    \/ Pause \/ Stop \/ Resume
    \/ RecorderStopped \/ OnChunkRecorded
    \/ OnReconnect \/ OnReconnectIdle \/ OnBeforeRedaction
    \/ \E t \in Task : Requests(t) \/ RequestFailed(t) \/ AnswerLost(t)

Spec == Init /\ [][Next]_vars
----------------------------------------------------------------------------
(* SAFETY *)

Messages == BagToSet(sent)

(* A sequence number belongs to one chunk: messages that are sent again    *)
(* carry the number that their chunk was given first.                      *)
UniqueSequence == \A m, n \in Messages : m.seq = n.seq => m.chunk = n.chunk

(* "On failure adds it to the retry list": a chunk of the recording is in  *)
(* the room, or some call still works on it, or it is in the retry list.   *)
ChunkKept ==
    \A c \in 1 .. recorded :
        \/ \E m \in Messages : m.chunk = c
        \/ \E t \in Waiting : task[t].fn # None /\ task[t].fn.chunk = c
        \/ \E f \in ToSet(toRetry) : f.chunk = c

(* No chunk is lost while reconnects run alone and succeed, whatever the   *)
(* user does and whatever requests fail before.                            *)
SteadyChunkKept == scenario.steady => ChunkKept

(* Under the same assumption the retries send no chunk twice, except one   *)
(* whose answer was lost: that is in the room once more for each lost      *)
(* answer, and all its copies carry one sequence number.                   *)
SteadySentOnce ==
    scenario.steady =>
        /\ \A m \in Messages : sent[m] <= 1 + unanswered[m.chunk]
        /\ \A m, n \in Messages : m.chunk = n.chunk => m = n

(* The user waits for each command, nothing fails or is redacted, and the  *)
(* listener for the event is there before the event.                       *)
Orderly ==
    /\ scenario.patient /\ scenario.failures = 0 /\ scenario.answerFirst
    /\ ~scenario.refused /\ ~scenario.redactions

(* "stopped or already paused recordings cannot be paused": in the room,   *)
(* no state follows the end of the broadcast.                              *)
StoppedIsLast == Orderly => \A i \in 1 .. Len(infos) - 1 : infos[i].state # "stopped"

Quiet == Waiting = {} /\ errors = 0 /\ destroyed # "stopping"

(* The microphone is on just when the recording says so, and the room      *)
(* knows the state of the recording.                                       *)
StatesAgree ==
    Orderly /\ Quiet =>
        /\ begin.created => (recorder = "on" <=> state \in {"started", "resumed"})
        /\ infos # <<>> => Last(infos).state = state

----------------------------------------------------------------------------
(* LIVENESS: requests settle, the sync loop comes back. *)

Fairness ==
    /\ WF_vars(scenario.fair /\ Answered) /\ WF_vars(scenario.fair /\ OnRoomStateEvents)
    /\ WF_vars(scenario.fair /\ RecorderStopped)
    /\ WF_vars(scenario.fair /\ OnReconnect) /\ WF_vars(scenario.fair /\ OnReconnectIdle)
    /\ \A t \in Task : WF_vars(scenario.fair /\ Requests(t))

FairSpec == Spec /\ Fairness

(* After the connection has come back everything recorded is in the room.  *)
EverythingSent ==
    []<>(scenario.fair =>
            toRetry = <<>> /\ \A c \in 1 .. recorded : \E m \in Messages : m.chunk = c)
=============================================================================
