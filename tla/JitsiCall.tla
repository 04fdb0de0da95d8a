----------------------------- MODULE JitsiCall -----------------------------
(***************************************************************************)
(* The group call of a video room: Call and JitsiCall of src/models/Call.ts *)
(* and the part of src/stores/CallStore.ts that remembers connected calls,  *)
(* on several devices of one user, with the widget, the homeserver, /sync, *)
(* crashes, restarts and the hour after which the user's entry expires.     *)
(*                                                                         *)
(* The room state holds one entry per user, the set of the devices that    *)
(* are in the call: every device reads it, changes it and sends it whole.  *)
(***************************************************************************)
EXTENDS Naturals, FiniteSets, Sequences, SequencesExt

CONSTANTS
    Device,      \* the devices of this user
    Scenarios    \* bound: what happens, and how often

(* starts: calls of start; faults: failing requests and waits; crashes:    *)
(* tabs that end; resends: turns of the resend timer; leaves: the user     *)
(* leaves the room and comes back; serial: no device updates the entry     *)
(* while another's update is under way; steady: nobody hangs up in the     *)
(* lobby, or while the entry of a new connection is sent, and no tab       *)
(* crashes during an update.                                               *)
JitsiCallAssumption ==
    \A s \in Scenarios :
        /\ {s.starts, s.faults, s.crashes, s.resends, s.leaves} \subseteq Nat
        /\ {s.serial, s.steady} \subseteq BOOLEAN

VARIABLES
    call,        \* the JitsiCall of each device
    up,          \* is the device's client running?
    activeCallRoomIds, \* is this room in the device's setting of that name?
    known,       \* the entry that the device has in its room state
    sends,       \* sendStateEvent calls under way
    cleaning,    \* is clean waiting for the list of devices?
    entries,     \* the entries of the user in the room's history
    expired,     \* those up to this one are over an hour old
    member,      \* is the user in the room?
    callCount, callScenario

deviceVars == <<call, up, activeCallRoomIds, known, sends, cleaning>>
roomVars == <<entries, expired, member>>
callVars == <<deviceVars, roomVars, callCount, callScenario>>

(* connectionState "connecting" is left at once for "lobby".  starting:     *)
(* calls of start that wait for the widget; joining: one waits in the      *)
(* lobby; listening: registrations for leave, unload and the widget's end;  *)
(* timers: running intervals; held: the call knows one of them; hangingUp:  *)
(* disconnect waits for the widget; inConference: so the widget has it.     *)
NewCall == [state |-> "disconnected", starting |-> 0, joining |-> FALSE, listening |-> 0,
            timers |-> 0, held |-> FALSE, hangingUp |-> FALSE, inConference |-> FALSE]
IsConnected(state) == state \in {"connected", "disconnecting"}

Happens(what) ==
    callCount[what] < callScenario[what] /\ callCount' = [callCount EXCEPT ![what] = @ + 1]

CallInit ==
    /\ call = [d \in Device |-> NewCall] /\ up = [d \in Device |-> TRUE]
    /\ activeCallRoomIds = [d \in Device |-> FALSE]
    /\ known = [d \in Device |-> 1] /\ sends = [d \in Device |-> <<>>]
    /\ cleaning = [d \in Device |-> FALSE]
    /\ entries = << {} >> /\ expired = 0 /\ member = TRUE
    /\ callCount = [k \in {"starts", "faults", "crashes", "resends", "leaves"} |-> 0]
    /\ callScenario \in Scenarios

----------------------------------------------------------------------------
(* THE ENTRY *)

Entry(i) == IF i <= expired THEN {} ELSE entries[i]
Devices(d) == Entry(known[d])

(* What updateDevices sends, if anything. *)
UpdateDevices(joined, why, devices) ==
    IF joined THEN << [why |-> why, devices |-> devices] >> ELSE <<>>
(* Mutant: the devices of the others are dropped. *)
AddOurDeviceOnly(joined, d, why) == UpdateDevices(joined, why, {d})

AddOurDevice(joined, d, why) == UpdateDevices(joined, why, Devices(d) \cup {d})
RemoveOurDevice(joined, d) == UpdateDevices(joined, "remove", Devices(d) \ {d})

(* updateParticipants: the user's devices as d shows them in the call. *)
Participants(d) ==
    LET listed == IF member THEN Devices(d) ELSE {}
    IN IF IsConnected(call[d].state) THEN listed \cup {d} ELSE listed \ {d}

----------------------------------------------------------------------------
(* CONNECTION STATES                                                       *)
(* A state [call, sends, active, member] of one device goes through these. *)

SetTimer(c) == [c EXCEPT !.timers = @ + 1, !.held = TRUE]
(* Mutants: the interval runs on; one is cleared that was never set. *)
ClearTimerNot(c) == c
ClearTimerAlways(c) == [c EXCEPT !.timers = @ - 1, !.held = FALSE]

ClearTimer(c) == IF c.held THEN [c EXCEPT !.timers = @ - 1, !.held = FALSE] ELSE c

(* connectionState = s, with JitsiCall's and CallStore's listeners. *)
SetState(x, d, s) ==
    LET now == [x.call EXCEPT !.state = s]
        joins == s = "connected" /\ ~IsConnected(x.call.state)
        leaves == s = "disconnected" /\ IsConnected(x.call.state)
        skipped == joins /\ ~x.member     \* addOurDevice returns at once
    IN [x EXCEPT
          !.call = IF leaves THEN ClearTimer(now) ELSE IF skipped THEN SetTimer(now) ELSE now,
          !.sends = @ \o (IF joins THEN AddOurDevice(x.member, d, "connect")
                          ELSE IF leaves THEN RemoveOurDevice(x.member, d) ELSE <<>>),
          !.active = (s = "connected") \/ (@ /\ s # "disconnected")]

(* The end of start, once performConnection has returned. *)
Connected(x, d) ==
    SetState([x EXCEPT !.call.listening = @ + 1, !.call.joining = FALSE], d, "connected")

SetDisconnected(x, d) ==
    SetState([x EXCEPT !.call.listening = IF @ = 0 THEN 0 ELSE @ - 1], d, "disconnected")

BeginStart(x, d) == SetState([x EXCEPT !.call.starting = @ + 1], d, "widgetLoading")

(* A start that waits in the lobby ends as soon as the connection state     *)
(* changes: dontStopMessaging is resolved by any change, also by a hangup. *)
Released(x, d) == IF x.call.joining THEN Connected(x, d) ELSE x

Now(d) == [call |-> call[d], sends |-> sends[d], active |-> activeCallRoomIds[d], member |-> member]
Becomes(d, x) ==
    /\ call' = [call EXCEPT ![d] = x.call]
    /\ sends' = [sends EXCEPT ![d] = x.sends]
    /\ activeCallRoomIds' = [activeCallRoomIds EXCEPT ![d] = x.active]

(* In a serial scenario an update begins when no other device's is under    *)
(* way and the device knows the current entry.                             *)
Orderly(d) ==
    /\ callScenario.serial =>
          known[d] = Len(entries) /\ \A e \in Device \ {d} : sends[e] = <<>>
    /\ callScenario.steady => \A i \in DOMAIN sends[d] : sends[d][i].why # "connect"

Unmoved == UNCHANGED <<up, known, cleaning, roomVars, callScenario>>

(* The call is shown: CallView cleans the entry, and starts the call.      *)
Start(d) ==
    /\ up[d] /\ call[d].state = "disconnected" /\ Happens("starts")
    /\ Becomes(d, BeginStart(Now(d), d))
    /\ cleaning' = [cleaning EXCEPT ![d] = TRUE]
    /\ UNCHANGED <<up, known, roomVars, callScenario>>

(* The widget's messaging is there: connecting, then performConnection.    *)
WidgetReady(d) ==
    /\ call[d].starting > 0 /\ (call[d].joining => Orderly(d))
    /\ LET lobby == SetState([Now(d) EXCEPT !.call.starting = @ - 1], d, "lobby")
       IN Becomes(d, IF lobby.call.joining THEN Connected(Connected(lobby, d), d)
                     ELSE [lobby EXCEPT !.call.joining = TRUE])
    /\ UNCHANGED callCount /\ Unmoved

(* It does not come in time: start throws, and nobody resets the state.    *)
WidgetTimeout(d) ==
    /\ call[d].starting > 0 /\ Happens("faults")
    /\ call' = [call EXCEPT ![d].starting = @ - 1]
    /\ UNCHANGED <<activeCallRoomIds, sends>> /\ Unmoved

(* The widget has joined the conference. *)
JoinCall(d) ==
    /\ call[d].joining /\ Orderly(d)
    /\ Becomes(d, [Connected(Now(d), d) EXCEPT !.call.inConference = TRUE])
    /\ UNCHANGED callCount /\ Unmoved

(* The request fails, its answer takes too long, or the messaging stops.   *)
JoinFailed(d) ==
    /\ call[d].joining /\ Happens("faults")
    /\ Becomes(d, SetState([Now(d) EXCEPT !.call.joining = FALSE], d, "disconnected"))
    /\ Unmoved

(* onHangup: in the conference, or of a widget that crashes at startup.    *)
(* A video room starts the call again at once.                             *)
OnHangup(d) ==
    /\ \/ call[d].state = "connected" /\ call[d].inConference
       \/ call[d].joining /\ ~callScenario.steady
    /\ Happens("starts") /\ Orderly(d)
    /\ LET down == SetDisconnected([Now(d) EXCEPT !.call.inConference = FALSE], d)
       IN Becomes(d, Released(BeginStart(down, d), d))
    /\ Unmoved

(* disconnect. *)
Disconnect(d) ==
    /\ IsConnected(call[d].state) /\ ~call[d].hangingUp
    /\ Becomes(d, [SetState(Now(d), d, "disconnecting") EXCEPT !.call.hangingUp = TRUE])
    /\ UNCHANGED callCount /\ Unmoved

DisconnectAnswered(d) ==
    /\ call[d].hangingUp /\ Orderly(d)
    /\ Becomes(d, Released(SetDisconnected([Now(d) EXCEPT !.call.hangingUp = FALSE,
                                                          !.call.inConference = FALSE], d), d))
    /\ UNCHANGED callCount /\ Unmoved

(* The widget has hung up or not, but the call stays "disconnecting". *)
DisconnectFailed(d) ==
    /\ call[d].hangingUp /\ Happens("faults")
    /\ call' = [call EXCEPT ![d].hangingUp = FALSE]
    /\ UNCHANGED <<activeCallRoomIds, sends>> /\ Unmoved

(* onStopMessaging and onMyMembership run once per registration.           *)
Ended(x, d) ==
    IF x.call.listening = 0 THEN x
    ELSE Released(SetDisconnected([x EXCEPT !.call.listening = 0, !.call.inConference = FALSE], d), d)

StopMessaging(d) ==
    /\ call[d].listening > 0 /\ Orderly(d) /\ Happens("faults")
    /\ Becomes(d, Ended(Now(d), d))
    /\ Unmoved

----------------------------------------------------------------------------
(* onConnectionState goes on after addOurDevice. *)
AfterSend(c, why) ==
    IF why = "connect" THEN SetTimer(c) ELSE c

(* The server takes the entry and answers. *)
EntrySent(d) ==
    \E i \in DOMAIN sends[d] :
        /\ callScenario.serial => i = 1
        /\ entries' = Append(entries, sends[d][i].devices)
        /\ call' = [call EXCEPT ![d] = AfterSend(@, sends[d][i].why)]
        /\ sends' = [sends EXCEPT ![d] = RemoveAt(@, i)]
        /\ UNCHANGED <<up, activeCallRoomIds, known, cleaning, expired, member, callCount, callScenario>>

(* The request fails; addOurDevice throws before the timer is set. *)
SendFailed(d) ==
    \E i \in DOMAIN sends[d] :
        /\ Happens("faults")
        /\ sends' = [sends EXCEPT ![d] = RemoveAt(@, i)]
        /\ UNCHANGED <<call, up, activeCallRoomIds, known, cleaning, roomVars, callScenario>>

(* The resend interval. *)
Resend(d) ==
    /\ call[d].timers > 0 /\ Orderly(d) /\ Happens("resends")
    /\ sends' = [sends EXCEPT ![d] = @ \o AddOurDevice(member, d, "resend")]
    /\ UNCHANGED <<call, up, activeCallRoomIds, known, cleaning, roomVars, callScenario>>

(* Mutant: the device itself has been seen. *)
InactiveOthers(d, seen) == Devices(d) \ seen

Inactive(d, seen) == {e \in Devices(d) : e \notin seen \/ (e = d /\ ~IsConnected(call[d].state))}

(* clean has the list of devices: those that are not up may have been seen *)
(* in the last hour all the same.                                          *)
Clean(d) ==
    /\ cleaning[d] /\ Orderly(d)
    /\ cleaning' = [cleaning EXCEPT ![d] = FALSE]
    /\ \E seen \in SUBSET Device :
          /\ \A e \in Device : up[e] => e \in seen
          /\ LET gone == Inactive(d, seen)
             IN sends' = [sends EXCEPT ![d] =
                    @ \o (IF gone = {} THEN <<>> ELSE UpdateDevices(member, "clean", Devices(d) \ gone))]
    /\ UNCHANGED <<call, up, activeCallRoomIds, known, roomVars, callCount, callScenario>>

(* /sync brings the next entry. *)
Sync(d) ==
    /\ up[d] /\ known[d] < Len(entries)
    /\ known' = [known EXCEPT ![d] = @ + 1]
    /\ UNCHANGED <<call, up, activeCallRoomIds, sends, cleaning, roomVars, callCount, callScenario>>

(* An hour passes in which no interval renews the entry. *)
Expire ==
    /\ expired < Len(entries)
    /\ \A d \in Device : call[d].timers = 0 /\ sends[d] = <<>> /\ ~cleaning[d]
                         /\ (up[d] => known[d] = Len(entries))
    /\ expired' = Len(entries)
    /\ UNCHANGED <<deviceVars, entries, member, callCount, callScenario>>

(* The user leaves the room with another client, or comes back. *)
MyMembership ==
    /\ IF member THEN Happens("leaves") ELSE UNCHANGED callCount
    /\ member' = ~member
    /\ LET Then(d) == IF member THEN Ended([Now(d) EXCEPT !.member = FALSE], d) ELSE Now(d)
       IN /\ call' = [d \in Device |-> Then(d).call]
          /\ activeCallRoomIds' = [d \in Device |-> Then(d).active]
    /\ UNCHANGED <<up, known, sends, cleaning, entries, expired, callScenario>>

Gone(d) ==
    /\ up[d] /\ up' = [up EXCEPT ![d] = FALSE]
    /\ call' = [call EXCEPT ![d] = NewCall]
    /\ sends' = [sends EXCEPT ![d] = <<>>] /\ cleaning' = [cleaning EXCEPT ![d] = FALSE]
    /\ UNCHANGED <<known, expired, member, callScenario>>

(* The tab crashes. *)
Crash(d) ==
    /\ callScenario.steady => sends[d] = <<>> /\ ~cleaning[d]
    /\ Gone(d) /\ Happens("crashes") /\ UNCHANGED <<activeCallRoomIds, entries>>

(* The page is unloaded in a call: beforeUnload, whose request is sent or  *)
(* lost with the page.                                                     *)
BeforeUnload(d) ==
    /\ call[d].listening > 0 /\ Orderly(d)
    /\ Gone(d)
    /\ activeCallRoomIds' = [activeCallRoomIds EXCEPT ![d] = FALSE]
    /\ \/ Happens("faults") /\ UNCHANGED entries
       \/ /\ Happens("crashes")
          /\ entries' = IF member THEN Append(entries, Devices(d) \ {d}) ELSE entries

(* onReady of CallStore: cleans up after a call that was not disconnected. *)
OnReady(d) ==
    /\ ~up[d] /\ up' = [up EXCEPT ![d] = TRUE]
    /\ known' = [known EXCEPT ![d] = Len(entries)]
    /\ cleaning' = [cleaning EXCEPT ![d] = activeCallRoomIds[d]]
    /\ activeCallRoomIds' = [activeCallRoomIds EXCEPT ![d] = FALSE]
    /\ UNCHANGED <<call, sends, roomVars, callCount, callScenario>>

CallNext ==
    \/ \E d \in Device :
          \/ Start(d) \/ WidgetReady(d) \/ WidgetTimeout(d) \/ JoinCall(d) \/ JoinFailed(d)
          \/ OnHangup(d) \/ Disconnect(d) \/ DisconnectAnswered(d) \/ DisconnectFailed(d)
          \/ StopMessaging(d) \/ EntrySent(d) \/ SendFailed(d) \/ Resend(d) \/ Clean(d)
          \/ Sync(d) \/ Crash(d) \/ BeforeUnload(d) \/ OnReady(d)
    \/ Expire \/ MyMembership

CallSpec == CallInit /\ [][CallNext]_callVars
----------------------------------------------------------------------------
(* SAFETY *)

Status == {"disconnected", "widgetLoading", "lobby", "connected", "disconnecting"}

CallOf == [state : Status, starting : Nat, joining : BOOLEAN, listening : Nat, timers : Nat,
           held : BOOLEAN, hangingUp : BOOLEAN, inConference : BOOLEAN]
Update == [why : {"connect", "remove", "resend", "clean"}, devices : SUBSET Device]

CallTypeOK ==
    /\ call \in [Device -> CallOf]
    /\ up \in [Device -> BOOLEAN] /\ activeCallRoomIds \in [Device -> BOOLEAN]
    /\ known \in [Device -> 1 .. Len(entries)]
    /\ sends \in [Device -> Seq(Update)] /\ cleaning \in [Device -> BOOLEAN]
    /\ entries \in Seq(SUBSET Device) /\ expired \in 0 .. Len(entries) /\ member \in BOOLEAN
    /\ callCount \in [{"starts", "faults", "crashes", "resends", "leaves"} -> Nat]
    /\ callScenario \in Scenarios

(* The devices that the room shows in the call. *)
Listed == Entry(Len(entries))

Quiet ==
    /\ \A d \in Device : sends[d] = <<>> /\ (up[d] => known[d] = Len(entries))

(* Where updates do not overlap and none failed, every device that is in   *)
(* the call is shown to be by all clients.  Without steady nobody crashes:  *)
(* clean, which then removes the device that crashed from the entry that   *)
(* this device knows, would drop the one whose connection is being sent.   *)
ConnectedShown ==
    /\ callScenario.serial /\ (callScenario.steady \/ callCount["crashes"] = 0)
    /\ Quiet /\ callCount["faults"] = 0 /\ callCount["leaves"] = 0
    => \A d, e \in Device : up[e] /\ IsConnected(call[d].state) => d \in Participants(e)

(* A device that is listed without being in the call is going to be        *)
(* removed: by an update under way, or because the next start of its client *)
(* finds that it was in a call.                                            *)
UncleanRemembered ==
    /\ callScenario.serial /\ callScenario.steady
    /\ callCount["faults"] = 0 /\ callCount["leaves"] = 0
    => \A d \in Listed : \/ IsConnected(call[d].state) \/ activeCallRoomIds[d] \/ cleaning[d]
                          \/ \E e \in Device : sends[e] # <<>>

----------------------------------------------------------------------------
(* LIVENESS: requests and the widget answer, /sync and time go on. *)
CallProgress == Expire \/ \E d \in Device : EntrySent(d) \/ Sync(d) \/ Clean(d)

CallFairSpec == CallSpec /\ WF_callVars(CallProgress)

(* A device that is not in the call does not stay listed: at the latest    *)
(* the entry expires, since nobody renews it.                              *)
StuckDevicesGo ==
    \A d \in Device :
        (callScenario.steady /\ d \in Listed /\ ~IsConnected(call[d].state))
            ~> (d \notin Listed \/ IsConnected(call[d].state)
                \/ \E e \in Device : IsConnected(call[e].state))
=============================================================================
