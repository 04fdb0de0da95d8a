--------------------------- MODULE RoomViewStore ---------------------------
(***************************************************************************)
(* Navigation between rooms: src/stores/RoomViewStore.tsx with the         *)
(* dispatcher's queue, the cache and the lookup of room aliases, the room   *)
(* subscriptions of sliding sync, and requests to join a room.             *)
(***************************************************************************)
EXTENDS Naturals, Sequences, SequencesExt, FiniteSets

CONSTANTS
    Room,
    Alias,       \* each the alias of one room:
    RoomOf,
    None,
    ViewScenarios    \* bound: what happens, and how often

(* sliding: is feature_sliding_sync on?  views, homes, joins, replies: what *)
(* the user does; faults: failing requests; prompt: tasks of the event     *)
(* queue run before an answer comes or the user acts; patient: the user    *)
(* waits for the lookup of an alias.                                       *)
ASSUME RoomViewAssumption ==
    /\ None \notin Room \cup Alias /\ RoomOf \in [Alias -> Room]
    /\ \A s \in ViewScenarios : /\ {s.views, s.homes, s.joins, s.replies, s.faults} \subseteq Nat
                                /\ {s.sliding, s.prompt, s.patient} \subseteq BOOLEAN

VARIABLES
    state,          \* the State of the store
    queue,          \* dispatched payloads whose timeout has not fired
    cache,          \* the aliases in the cache
    lookups,        \* payloads whose alias is being looked up
    subscribing,    \* payloads whose room subscription is being awaited
    subscriptions,  \* the room subscriptions of sliding sync
    joins,          \* join requests under way
    joined,         \* rooms joined (history)
    asked,          \* where the user wants to be (history)
    viewCount, viewScenario

async == <<cache, lookups, subscribing, subscriptions, joins>>
viewVars == <<state, queue, async, joined, asked, viewCount, viewScenario>>

InitialState == [roomId |-> None, roomAlias |-> None, roomLoading |-> FALSE, joining |-> FALSE,
                 subscribingRoomId |-> None, replyingTo |-> None]

Counted == {"views", "homes", "joins", "replies", "faults"}

(* A payload; reply is the room of the event that is replied to. *)
Payload(action, room) ==
    [action |-> action, room |-> room, alias |-> None, autoJoin |-> FALSE, reply |-> None]

ViewInit ==
    /\ state = InitialState
    /\ queue = <<>> /\ cache = {} /\ lookups = <<>> /\ subscribing = <<>> /\ subscriptions = {}
    /\ joins = <<>> /\ joined = {} /\ asked = None
    /\ viewCount = [k \in Counted |-> 0]
    /\ viewScenario \in ViewScenarios

Once(what) == viewCount[what] < viewScenario[what] /\ viewCount' = [viewCount EXCEPT ![what] = @ + 1]

Prompt == viewScenario.prompt => queue = <<>>

Dispatch(payload) == queue' = Append(queue, payload)

----------------------------------------------------------------------------
(* THE USER *)

MayAct == Prompt /\ (viewScenario.patient => lookups = <<>>)

Goes(room, payload) ==
    /\ MayAct /\ Dispatch(payload) /\ asked' = room
    /\ UNCHANGED <<state, async, joined, viewScenario>>

ClickRoom(r) == Once("views") /\ \E j \in BOOLEAN : Goes(r, [Payload("view_room", r) EXCEPT !.autoJoin = j])
ClickAlias(a) == Once("views") /\ Goes(RoomOf[a], [Payload("view_room", None) EXCEPT !.alias = a])
ClickHome == Once("homes") /\ Goes(None, Payload("view_home_page", None))

(* The join button of the room that is shown. *)
ClickJoin ==
    /\ MayAct /\ Once("joins") /\ state.roomId # None /\ ~state.roomLoading
    /\ Dispatch(Payload("join_room", state.roomId))
    /\ UNCHANGED <<state, async, joined, asked, viewScenario>>

(* Reply to an event, of another room when it was found by searching all.  *)
ClickReply(r) ==
    /\ MayAct /\ Once("replies") /\ state.roomId # None /\ ~state.roomLoading
    /\ Dispatch([Payload("reply_to_event", None) EXCEPT !.reply = r])
    /\ asked' = r
    /\ UNCHANGED <<state, async, joined, viewScenario>>

(* The reply is sent or given up: an event of no room. *)
EndReply ==
    /\ MayAct /\ Once("replies") /\ state.replyingTo # None
    /\ Dispatch(Payload("reply_to_event", None))
    /\ UNCHANGED <<state, async, joined, asked, viewScenario>>

----------------------------------------------------------------------------
(* HANDLERS OF THE STORE, for the payload at the head of the queue         *)

Dispatching(action) == queue # <<>> /\ Head(queue).action = action
Keep == UNCHANGED <<joined, asked, viewCount, viewScenario>>

(* Mutant: the room that was viewed before stays subscribed to. *)
ResubscribedToo(old, new) == subscriptions \cup {new}

Resubscribed(old, new) == (IF old = new THEN subscriptions ELSE subscriptions \ {old}) \cup {new}

(* viewRoom, sliding sync, another room: subscribes to it and waits.       *)
Subscribe ==
    LET p == Head(queue)
    IN /\ Dispatching("view_room") /\ p.room # None
       /\ viewScenario.sliding /\ state.roomId # p.room
       /\ subscriptions' = Resubscribed(state.subscribingRoomId, p.room)
       /\ state' = [state EXCEPT !.subscribingRoomId = p.room, !.roomId = p.room,
                                 !.roomAlias = None, !.roomLoading = TRUE]
       /\ subscribing' = Append(subscribing, p)
       /\ queue' = Tail(queue)
       /\ UNCHANGED <<cache, lookups, joins>> /\ Keep

(* Mutant: nobody asks whether another room was viewed. *)
SubscribedAlways(p) == TRUE

(* Whilst we were subscribing another room was viewed: unsubscribes.       *)
SubscribedTo(p) == state.subscribingRoomId = p.room

RoomVisible(i) ==
    /\ Prompt
    /\ subscribing' = RemoveAt(subscribing, i)
    /\ LET p == subscribing[i]
       IN IF SubscribedTo(p)
          THEN Dispatch(p) /\ UNCHANGED subscriptions
          ELSE subscriptions' = subscriptions \ {p.room} /\ UNCHANGED queue
    /\ UNCHANGED <<state, cache, lookups, joins>> /\ Keep

(* Mutant: the event that is replied to stays. *)
ReplyInKept(p) == IF p.reply = p.room THEN p.reply ELSE state.replyingTo

ReplyIn(p) == IF p.reply = p.room THEN p.reply
              ELSE IF state.replyingTo = p.room THEN state.replyingTo ELSE None

(* viewRoom, otherwise. *)
ViewRoom ==
    LET p == Head(queue)
    IN /\ Dispatching("view_room") /\ p.room # None
       /\ viewScenario.sliding => state.roomId = p.room
       /\ state' = [state EXCEPT !.roomId = p.room, !.roomAlias = p.alias, !.roomLoading = FALSE,
                                 !.joining = FALSE, !.replyingTo = ReplyIn(p)]
       /\ queue' = Tail(queue) \o (IF p.autoJoin THEN << Payload("join_room", p.room) >> ELSE <<>>)
       /\ UNCHANGED async /\ Keep

(* viewRoom with an alias only: from the cache, or looked up. *)
ViewAlias ==
    LET p == Head(queue)
    IN /\ Dispatching("view_room") /\ p.room = None
       /\ IF p.alias \in cache
          THEN /\ queue' = Append(Tail(queue), [p EXCEPT !.room = RoomOf[p.alias]])
               /\ UNCHANGED <<state, lookups>>
          ELSE /\ state' = [state EXCEPT !.roomId = None, !.roomAlias = p.alias, !.roomLoading = TRUE]
               /\ lookups' = Append(lookups, p) /\ queue' = Tail(queue)
       /\ UNCHANGED <<cache, subscribing, subscriptions, joins>> /\ Keep

RoomIdForAlias(i) ==
    /\ Prompt
    /\ cache' = cache \cup {lookups[i].alias} /\ lookups' = RemoveAt(lookups, i)
    /\ Dispatch([lookups[i] EXCEPT !.room = RoomOf[lookups[i].alias]])
    /\ UNCHANGED <<state, subscribing, subscriptions, joins>> /\ Keep

AliasNotFound(i) ==
    /\ Prompt /\ Once("faults")
    /\ lookups' = RemoveAt(lookups, i)
    /\ Dispatch([lookups[i] EXCEPT !.action = "view_room_error"])
    /\ UNCHANGED <<state, cache, subscribing, subscriptions, joins, joined, asked, viewScenario>>

(* Mutant: the room is loading on. *)
ViewRoomErrorLoading ==
    /\ Dispatching("view_room_error")
    /\ state' = [state EXCEPT !.roomId = None, !.roomAlias = Head(queue).alias]
    /\ queue' = Tail(queue)
    /\ UNCHANGED async /\ Keep

ViewRoomError ==
    /\ Dispatching("view_room_error")
    /\ state' = [state EXCEPT !.roomId = None, !.roomAlias = Head(queue).alias, !.roomLoading = FALSE]
    /\ queue' = Tail(queue)
    /\ UNCHANGED async /\ Keep

ViewHomePage ==
    /\ Dispatching("view_home_page")
    /\ state' = [state EXCEPT !.roomId = None, !.roomAlias = None]
    /\ queue' = Tail(queue)
    /\ UNCHANGED async /\ Keep

(* joinRoom joins the room of the state, not that of the payload. *)
JoinTarget == IF state.roomAlias # None THEN RoomOf[state.roomAlias] ELSE state.roomId

JoinRoom ==
    /\ Dispatching("join_room")
    /\ state' = [state EXCEPT !.joining = TRUE]
    /\ joins' = Append(joins, [address |-> JoinTarget, roomId |-> state.roomId, asked |-> Head(queue).room])
    /\ queue' = Tail(queue)
    /\ UNCHANGED <<cache, lookups, subscribing, subscriptions>> /\ Keep

JoinAnswered(i) ==
    /\ Prompt
    /\ joins' = RemoveAt(joins, i)
    /\ \/ /\ joins[i].address # None /\ joined' = joined \cup {joins[i].address}
          /\ UNCHANGED <<queue, viewCount>>     \* join_room_ready sets shouldPeek only
       \/ /\ Once("faults") /\ Dispatch(Payload("join_room_error", joins[i].roomId))
          /\ UNCHANGED joined
    /\ UNCHANGED <<state, cache, lookups, subscribing, subscriptions, asked, viewScenario>>

(* joinRoomError, of whatever room. *)
JoinRoomError ==
    /\ Dispatching("join_room_error")
    /\ state' = [state EXCEPT !.joining = FALSE]
    /\ queue' = Tail(queue)
    /\ UNCHANGED async /\ Keep

ReplyToEvent ==
    LET r == Head(queue).reply
    IN /\ Dispatching("reply_to_event")
       /\ IF r \notin {None, state.roomId}
          THEN /\ queue' = Append(Tail(queue), [Payload("view_room", r) EXCEPT !.reply = r])
               /\ UNCHANGED state
          ELSE state' = [state EXCEPT !.replyingTo = r] /\ queue' = Tail(queue)
       /\ UNCHANGED async /\ Keep

OnDispatch ==
    \/ Subscribe \/ ViewRoom \/ ViewAlias \/ ViewRoomError \/ ViewHomePage
    \/ JoinRoom \/ JoinRoomError \/ ReplyToEvent

ViewNext ==
    \/ \E r \in Room : ClickRoom(r) \/ ClickReply(r)
    \/ \E a \in Alias : ClickAlias(a)
    \/ ClickHome \/ ClickJoin \/ EndReply
    \/ OnDispatch
    \/ \E i \in DOMAIN subscribing : RoomVisible(i)
    \/ \E i \in DOMAIN lookups : RoomIdForAlias(i) \/ AliasNotFound(i)
    \/ \E i \in DOMAIN joins : JoinAnswered(i)

ViewSpec == ViewInit /\ [][ViewNext]_viewVars
----------------------------------------------------------------------------
(* SAFETY *)

Action == {"view_room", "view_home_page", "view_room_error", "join_room", "join_room_error",
           "reply_to_event"}
Payloads == [action : Action, room : Room \cup {None}, alias : Alias \cup {None},
             autoJoin : BOOLEAN, reply : Room \cup {None}]

ViewTypeOK ==
    /\ state \in [roomId : Room \cup {None}, roomAlias : Alias \cup {None}, roomLoading : BOOLEAN,
                  joining : BOOLEAN, subscribingRoomId : Room \cup {None}, replyingTo : Room \cup {None}]
    /\ queue \in Seq(Payloads) /\ cache \subseteq Alias
    /\ lookups \in Seq(Payloads) /\ subscribing \in Seq(Payloads) /\ subscriptions \subseteq Room
    /\ joins \in Seq([address : Room \cup {None}, roomId : Room \cup {None}, asked : Room \cup {None}])
    /\ joined \subseteq Room /\ asked \in Room \cup {None}
    /\ viewCount \in [Counted -> Nat] /\ viewScenario \in ViewScenarios

ViewSettled == queue = <<>> /\ lookups = <<>> /\ subscribing = <<>>

(* Once everything has been answered the room is shown that the user asked *)
(* for last, whatever subscriptions were confirmed meanwhile, and in what   *)
(* order - if no lookup failed and, with sliding sync, the user did not     *)
(* leave for the home page, which forgets no subscription.  It excludes two *)
(* orders in which the code takes the user elsewhere: patient, that an      *)
(* alias is answered after the user went on; prompt, that two views are     *)
(* dispatched before the first is handled.                                 *)
LastViewWins ==
    (/\ viewScenario.prompt /\ viewScenario.patient
     /\ ViewSettled /\ viewCount["faults"] = 0
     /\ ~viewScenario.sliding \/ viewCount["homes"] = 0)
        => state.roomId = asked

(* With sliding sync the room that is shown is subscribed to and no other. *)
OneSubscription ==
    viewScenario.sliding /\ ViewSettled =>
        /\ subscriptions \subseteq {state.subscribingRoomId}
        /\ state.roomId # None => state.roomId \in subscriptions

(* What the store does and tells is about the room that is shown: the user *)
(* is joining it, an event that is replied to is one of it, and a request  *)
(* joins the room whose button was pressed (if tasks do not pile up).       *)
AboutThisRoom ==
    /\ state.roomId # None /\ ~state.roomLoading =>
        /\ state.replyingTo \in {None, state.roomId}
        /\ state.joining => \/ state.roomId \in joined \cup {j.address : j \in ToSet(joins)}
                            \/ \E i \in DOMAIN queue : queue[i].action = "join_room_error"
    /\ viewScenario.prompt => \A j \in ToSet(joins) : j.address = j.asked

----------------------------------------------------------------------------
(* LIVENESS: timeouts fire and requests are answered. *)
ViewProgress ==
    \/ OnDispatch
    \/ \E i \in DOMAIN subscribing : RoomVisible(i)
    \/ \E i \in DOMAIN lookups : RoomIdForAlias(i)

ViewFairSpec == ViewSpec /\ WF_viewVars(ViewProgress)

(* Navigation comes to rest: rooms viewed quickly one after the other do   *)
(* not take turns for ever, and no room is loading for ever.               *)
NavigationSettles ==
    (viewScenario.sliding => viewScenario.prompt) => <>[](ViewSettled /\ ~state.roomLoading)
=============================================================================
