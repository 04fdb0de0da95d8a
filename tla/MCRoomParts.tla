---------------------------- MODULE MCRoomParts ----------------------------
(***************************************************************************)
(* An instance for TLC of three parts that serve the rooms of the user and *)
(* share no state: inviting several users (MultiInviter), group calls      *)
(* (JitsiCall) and navigation (RoomViewStore).  Each behaviour is one of   *)
(* one part, the others rest in their initial states.                      *)
(***************************************************************************)
EXTENDS MultiInviter, RoomViewStore, JitsiCall, TLC

CONSTANTS a, b, c, d1, d2, r1, r2, r3, alias

VARIABLE part

allVars == <<part, vars, callVars, viewVars>>

(* Addresses that repeat, that are invalid, and in an order of their own. *)
InviteLists == {<<a, b>>, <<a, b, a>>, <<c, a>>, <<c>>, <<a, c, b>>}

(* Two devices: failures; crashes; turns of the resend timer; hangups in   *)
(* the lobby; and the user's leaving the room while updates overlap.       *)
Failures == [starts |-> 2, faults |-> 1, crashes |-> 0, resends |-> 0, leaves |-> 0,
             serial |-> TRUE, steady |-> TRUE]
Crashes == [Failures EXCEPT !.crashes = 2, !.faults = 0]
Resends == [Failures EXCEPT !.resends = 1, !.faults = 0]
Lobby == [Failures EXCEPT !.faults = 0, !.steady = FALSE]
Leaving == [Failures EXCEPT !.starts = 1, !.leaves = 1, !.serial = FALSE, !.steady = FALSE]
CallScenarios == {Failures, Crashes, Resends, Lobby, Leaving}

(* Three rooms: quick changes with sliding sync; aliases, the home page    *)
(* and failures with and without it; and tasks that pile up.               *)
Quick == [views |-> 3, homes |-> 0, joins |-> 1, replies |-> 0, faults |-> 0,
          sliding |-> TRUE, prompt |-> TRUE, patient |-> TRUE]
Plain == [Quick EXCEPT !.views = 2, !.homes = 1, !.replies = 2, !.faults = 1, !.sliding = FALSE]
Away == [Quick EXCEPT !.homes = 1, !.joins = 0, !.faults = 1, !.patient = FALSE]
Piled == [Quick EXCEPT !.joins = 0, !.prompt = FALSE, !.patient = FALSE]
PiledPlain == [Plain EXCEPT !.homes = 0, !.replies = 1, !.prompt = FALSE, !.patient = FALSE]
CheckedViews == {Quick, Plain, Away, Piled, PiledPlain}
AliasOfRoom == alias :> r2

----------------------------------------------------------------------------
PartsInit ==
    /\ part \in {"inviting", "calls", "views"}
    /\ Init /\ CallInit /\ ViewInit
    /\ part # "inviting" => prompt
    /\ part # "calls" => callScenario = Failures
    /\ part # "views" => viewScenario = Quick

Inviting == part = "inviting" /\ UNCHANGED <<part, callVars, viewVars>>
InCalls == part = "calls" /\ UNCHANGED <<part, vars, viewVars>>
Viewing == part = "views" /\ UNCHANGED <<part, vars, callVars>>

PartsNext ==
    \/ Inviting /\ Invite
    \/ Inviting /\ Cancel
    \/ Inviting /\ OnInviteAnyways
    \/ Inviting /\ OnGiveUp
    \/ Inviting /\ OnBackgroundClick
    \/ \E x \in Address :
          \/ Inviting /\ ProfileAnswered(x)
          \/ Inviting /\ InviteAccepted(x)
          \/ Inviting /\ InviteWithoutProfile(x)
          \/ Inviting /\ LimitExceeded(x)
          \/ Inviting /\ TriedAgain(x)
          \/ \E err \in Failure : Inviting /\ InviteFailed(x, err)
    \/ \E d \in Device :
          \/ InCalls /\ Start(d)
          \/ InCalls /\ WidgetReady(d)
          \/ InCalls /\ WidgetTimeout(d)
          \/ InCalls /\ JoinCall(d)
          \/ InCalls /\ JoinFailed(d)
          \/ InCalls /\ OnHangup(d)
          \/ InCalls /\ Disconnect(d)
          \/ InCalls /\ DisconnectAnswered(d)
          \/ InCalls /\ DisconnectFailed(d)
          \/ InCalls /\ StopMessaging(d)
          \/ InCalls /\ EntrySent(d)
          \/ InCalls /\ SendFailed(d)
          \/ InCalls /\ Resend(d)
          \/ InCalls /\ Clean(d)
          \/ InCalls /\ Sync(d)
          \/ InCalls /\ Crash(d)
          \/ InCalls /\ BeforeUnload(d)
          \/ InCalls /\ OnReady(d)
    \/ InCalls /\ Expire
    \/ InCalls /\ MyMembership
    \/ \E r \in Room :
          \/ Viewing /\ ClickRoom(r)
          \/ Viewing /\ ClickReply(r)
    \/ Viewing /\ ClickAlias(alias)
    \/ Viewing /\ ClickHome
    \/ Viewing /\ ClickJoin
    \/ Viewing /\ EndReply
    \/ Viewing /\ Subscribe
    \/ Viewing /\ ViewRoom
    \/ Viewing /\ ViewAlias
    \/ Viewing /\ ViewRoomError
    \/ Viewing /\ ViewHomePage
    \/ Viewing /\ JoinRoom
    \/ Viewing /\ JoinRoomError
    \/ Viewing /\ ReplyToEvent
    \/ \E i \in DOMAIN subscribing : Viewing /\ RoomVisible(i)
    \/ \E i \in DOMAIN lookups : Viewing /\ RoomIdForAlias(i)
    \/ \E i \in DOMAIN lookups : Viewing /\ AliasNotFound(i)
    \/ \E i \in DOMAIN joins : Viewing /\ JoinAnswered(i)

(* The fairness of the parts. *)
PartsProgress ==
    \/ Inviting /\ Progress
    \/ InCalls /\ CallProgress
    \/ Viewing /\ ViewProgress

PartsSpec == PartsInit /\ [][PartsNext]_allVars /\ WF_allVars(PartsProgress)

----------------------------------------------------------------------------
(* The type invariants of the parts. *)
PartsTypeOK == TypeOK /\ CallTypeOK /\ ViewTypeOK
=============================================================================
