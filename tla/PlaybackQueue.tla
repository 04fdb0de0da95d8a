---------------------------- MODULE PlaybackQueue ----------------------------
(***************************************************************************)
(* The voice messages of a room: src/audio/PlaybackQueue.ts with the       *)
(* Playback, ManagedPlayback and PlaybackManager that it drives, as        *)
(* MAudioBody mounts them.  When a message ends the queue starts another   *)
(* one, while the user clicks, seeks, scrolls and changes rooms.           *)
(*                                                                         *)
(* The calls of suspend and resume of one AudioContext settle in the order *)
(* of the calls, those of different messages in any order.                 *)
(***************************************************************************)
EXTENDS Naturals, FiniteSets, Sequences, SequencesExt

CONSTANTS
    Message,     \* voice messages
    Text,        \* a message that is not a voice message
    None,
    VoiceScenarios \* the timeline, and bounds: what happens, and how often

(* clicks: on a message or its seek bar; mounts: of single messages;       *)
(* visits: of the room; decoded: nobody clicks before all are decoded;      *)
(* patient: clicks, changes of the room and ends of messages come when      *)
(* nothing else is under way.                                              *)
ASSUME QueueAssumption ==
    /\ None \notin Message /\ Text \notin Message
    /\ \A s \in VoiceScenarios :
        /\ s.timeline \in Seq(Message \cup {Text})
        /\ {s.clicks, s.mounts, s.visits} \subseteq Nat
        /\ {s.decoded, s.patient} \subseteq BOOLEAN

VARIABLES
    playbacks,   \* the Playback of each message, the last one if there were several
    calls,       \* its calls that wait for its AudioContext
    currentPlaybackId, playbackIdOrder, recentFullPlays,
    clockStates, \* the messages that have a position
    partly,      \* history: heard in part since they were last heard to the end
    voiceCount, voiceScenario

queueVars == <<currentPlaybackId, playbackIdOrder, recentFullPlays, clockStates>>
voiceVars == <<playbacks, calls, queueVars, partly, voiceCount, voiceScenario>>

(* preparing: is it being decoded?  attached: is it mounted, with its      *)
(* listeners?  source: is there a source node that has not run out?        *)
(* running: is the AudioContext?                                           *)
Mounted == [state |-> "decoding", preparing |-> TRUE, attached |-> TRUE, source |-> FALSE,
            running |-> FALSE]

Once(what) == voiceCount[what] < voiceScenario[what] /\ voiceCount' = [voiceCount EXCEPT ![what] = @ + 1]

VoicesInit ==
    /\ voiceScenario \in VoiceScenarios
    /\ playbacks = [m \in Message |-> Mounted]
    /\ calls = [m \in Message |-> <<>>]
    /\ currentPlaybackId = None /\ playbackIdOrder = <<>> /\ recentFullPlays = {}
    /\ clockStates = {} /\ partly = {}
    /\ voiceCount = [k \in {"clicks", "mounts", "visits"} |-> 0]

----------------------------------------------------------------------------
(* PLAYBACK: a state [playbacks, calls, current, order, recent, clocks]    *)
(* goes through these.                                                     *)

Now == [playbacks |-> playbacks, calls |-> calls, current |-> currentPlaybackId,
        order |-> playbackIdOrder, recent |-> recentFullPlays, clocks |-> clockStates]

Becomes(x) ==
    /\ playbacks' = x.playbacks /\ calls' = x.calls
    /\ currentPlaybackId' = x.current /\ playbackIdOrder' = x.order
    /\ recentFullPlays' = x.recent /\ clockStates' = x.clocks

(* pauseAllExcept of the PlaybackManager: it pauses those that play. *)
PauseAllExcept(x, m) ==
    [x EXCEPT !.calls =
        [n \in Message |-> IF n # m /\ x.playbacks[n].attached /\ x.playbacks[n].state = "playing"
                           THEN Append(@[n], "pause") ELSE @[n]]]

Start(x, m) ==
    [x EXCEPT !.playbacks[m].source = @ \/ x.playbacks[m].state = "stopped",
              !.calls[m] = Append(@, "play")]
(* Mutant: the others play on. *)
PlayAlso(x, m) == Start(x, m)
(* play of ManagedPlayback and of Playback, up to its await. *)
Play(x, m) == Start(PauseAllExcept(x, m), m)

(* skipTo, of a message that does not play. *)
SkipTo(x, m) == [x EXCEPT !.playbacks[m].source = TRUE, !.calls[m] = Append(@, "pause")]

----------------------------------------------------------------------------
(* THE QUEUE *)

Follows(i, m) == \E j \in 1 .. i - 1 : voiceScenario.timeline[j] = m
(* The messages of the timeline after m, up to one that is not a voice message. *)
Ahead(m) ==
    {i \in DOMAIN voiceScenario.timeline :
        Follows(i, m) /\ \A j \in 1 .. i : Follows(j, m) => voiceScenario.timeline[j] # Text}
(* The next one that has not been heard in full. *)
NextIn(x, m) ==
    LET fresh == {i \in Ahead(m) : voiceScenario.timeline[i] \notin x.recent}
    IN IF fresh = {} THEN None
       ELSE voiceScenario.timeline[CHOOSE i \in fresh : \A j \in fresh : i <= j]

PlayNext(x, m) == Play(PauseAllExcept(x, m), m)

(* The current message m has stopped: it has been heard in full. *)
PlayAfter(x, m) ==
    LET y == [x EXCEPT !.recent = @ \cup {m}]
        before == Front(x.order)
        next == NextIn(y, m)
    IN IF x.order = <<>> \/ Last(x.order) # m THEN y
       ELSE IF before # <<>> THEN PlayNext([y EXCEPT !.order = Front(before)], Last(before))
       ELSE IF next = None THEN [y EXCEPT !.recent = {}, !.order = <<>>]
       ELSE PlayNext([y EXCEPT !.order = <<>>], next)

OnStopped(x, m) ==
    IF m \in x.clocks /\ x.current # m THEN SkipTo(x, m)
    ELSE LET y == [x EXCEPT !.clocks = @ \ {m}]
         IN IF x.current = m THEN PlayAfter(y, m) ELSE y

Pushed(order, m) == IF order = <<>> \/ Last(order) # m THEN Append(order, m) ELSE order
(* Mutant: the previous one comes again also where it has ended. *)
InterruptedAlways(x, m) == x.current \notin {None, m}
(* m plays while another one had been started before it and has not ended. *)
Interrupted(x, m) ==
    /\ x.current \notin {None, m}
    /\ x.playbacks[x.current].state \in {"playing", "paused"}

OnPlaying(x, m) ==
    LET order == IF Interrupted(x, m) THEN Pushed(x.order, x.current) ELSE x.order
    IN [x EXCEPT !.current = m, !.order = Pushed(order, m)]

(* emit, and onPlaybackStateChange where the queue still listens. *)
Emit(x, m, state) ==
    LET y == [x EXCEPT !.playbacks[m].state = state]
    IN IF ~y.playbacks[m].attached THEN y
       ELSE IF state = "stopped" THEN OnStopped(y, m)
       ELSE IF state = "playing" THEN OnPlaying(y, m)
       ELSE y

----------------------------------------------------------------------------
(* ACTIONS *)

NothingUnderWay == \A m \in Message : calls[m] = <<>>
InTime ==
    /\ voiceScenario.patient => NothingUnderWay
    /\ voiceScenario.decoded => \A m \in Message : ~playbacks[m].preparing

(* toggle, from the button; it is disabled while the message is decoded. *)
Toggle(m) ==
    /\ Once("clicks") /\ InTime
    /\ playbacks[m].attached /\ playbacks[m].state # "decoding"
    /\ Becomes(IF playbacks[m].state = "playing" THEN [Now EXCEPT !.calls[m] = Append(@, "pause")]
               ELSE Play(Now, m))
    /\ UNCHANGED <<partly, voiceScenario>>

(* The seek bar of a message that does not play; a playing one plays on. *)
Seek(m) ==
    /\ Once("clicks") /\ InTime
    /\ playbacks[m].attached /\ playbacks[m].state \in {"stopped", "paused"}
    /\ Becomes(SkipTo(Now, m))
    /\ UNCHANGED <<partly, voiceScenario>>

(* resume and suspend have settled: the end of play, pause and onPlaybackEnd. *)
Settled(m) ==
    /\ calls[m] # <<>>
    /\ LET call == Head(calls[m])
           x == [Now EXCEPT !.calls[m] = Tail(@), !.playbacks[m].running = call = "play"]
       IN Becomes(Emit(x, m, CASE call = "play" -> "playing" [] call = "pause" -> "paused"
                               [] call = "end" -> "stopped"))
    /\ UNCHANGED <<partly, voiceCount, voiceScenario>>

(* The source node runs out: onPlaybackEnd. *)
Ended(m) ==
    /\ InTime
    /\ playbacks[m].source /\ playbacks[m].running
    /\ Becomes([Now EXCEPT !.playbacks[m].source = FALSE, !.calls[m] = Append(@, "end")])
    /\ partly' = partly \ {m}
    /\ UNCHANGED <<voiceCount, voiceScenario>>

(* onPlaybackClock: the clock ticks while a message can be heard. *)
OnPlaybackClock(m) ==
    /\ playbacks[m].source /\ playbacks[m].running /\ playbacks[m].attached
    /\ playbacks[m].state \in {"playing", "paused"}
    /\ clockStates' = clockStates \cup {m} /\ partly' = partly \cup {m}
    /\ UNCHANGED <<playbacks, calls, currentPlaybackId, playbackIdOrder, recentFullPlays, voiceCount,
                   voiceScenario>>

(* The end of prepare. *)
Prepared(m) ==
    /\ playbacks[m].preparing
    /\ Becomes(Emit([Now EXCEPT !.playbacks[m].preparing = FALSE], m, "stopped"))
    /\ UNCHANGED <<partly, voiceCount, voiceScenario>>

Destroy(x, S) ==
    [x EXCEPT !.playbacks = [m \in Message |-> IF m \in S THEN [@[m] EXCEPT !.attached = FALSE] ELSE @[m]],
              !.calls = [m \in Message |-> IF m \in S THEN Append(@[m], "end") ELSE @[m]]]
ShownMessages == {m \in Message : playbacks[m].attached}

(* componentWillUnmount of one message, and destroy. *)
Unmount(m) ==
    /\ Once("mounts")
    /\ m \in ShownMessages
    /\ Becomes(Destroy(Now, {m}))
    /\ UNCHANGED <<partly, voiceScenario>>

(* componentDidMount, with unsortedEnqueue: a Playback of its own takes the *)
(* place of the one that was destroyed.                                    *)
Mount(m) ==
    /\ ShownMessages # {} /\ m \notin ShownMessages
    /\ playbacks' = [playbacks EXCEPT ![m] = Mounted] /\ calls' = [calls EXCEPT ![m] = <<>>]
    /\ UNCHANGED <<queueVars, partly, voiceCount, voiceScenario>>

(* The user goes to another room, and everything unmounts. *)
LeaveRoom ==
    /\ Once("visits") /\ InTime
    /\ ShownMessages # {}
    /\ Becomes(Destroy(Now, ShownMessages))
    /\ UNCHANGED <<partly, voiceScenario>>

(* The room is viewed again: the room listener, then the messages mount. *)
EnterRoom ==
    /\ ShownMessages = {}
    /\ playbacks' = [m \in Message |-> Mounted] /\ calls' = [m \in Message |-> <<>>]
    /\ currentPlaybackId' = None /\ playbackIdOrder' = <<>> /\ recentFullPlays' = {}
    /\ UNCHANGED <<clockStates, partly, voiceCount, voiceScenario>>

VoicesNext ==
    \/ \E m \in Message :
          \/ Toggle(m) \/ Seek(m) \/ Settled(m) \/ Ended(m) \/ OnPlaybackClock(m) \/ Prepared(m)
          \/ Unmount(m) \/ Mount(m)
    \/ LeaveRoom \/ EnterRoom

(* The browser settles calls, decodes, and plays to the end. *)
VoicesProgress == \E m \in Message : Settled(m) \/ Ended(m) \/ Prepared(m)

VoicesSpec == VoicesInit /\ [][VoicesNext]_voiceVars
VoicesFairSpec == VoicesSpec /\ WF_voiceVars(VoicesProgress)

----------------------------------------------------------------------------
Playback == [state : {"decoding", "stopped", "paused", "playing"}, preparing : BOOLEAN,
             attached : BOOLEAN, source : BOOLEAN, running : BOOLEAN]
Call == {"play", "pause", "end"}

VoicesTypeOK ==
    /\ playbacks \in [Message -> Playback] /\ calls \in [Message -> Seq(Call)]
    /\ currentPlaybackId \in Message \cup {None} /\ playbackIdOrder \in Seq(Message)
    /\ recentFullPlays \subseteq Message /\ clockStates \subseteq Message /\ partly \subseteq Message
    /\ voiceCount \in [{"clicks", "mounts", "visits"} -> Nat] /\ voiceScenario \in VoiceScenarios

Waiting == voiceScenario.patient /\ voiceScenario.decoded /\ voiceScenario.mounts = 0

Heard(m) == playbacks[m].source /\ playbacks[m].running

(* At most one voice message can be heard ("one playback operating at any  *)
(* one time", PlaybackManager), if the user waits for what is under way    *)
(* and until all are decoded, and no message is unmounted alone.  When one *)
(* that was autoplayed is decoded, the queue takes it for heard and starts *)
(* the next, beside the one that the user has clicked meanwhile.           *)
OneVoice ==
    Waiting /\ NothingUnderWay => \A m, n \in Message : Heard(m) /\ Heard(n) => m = n

(* "Remember where the user got to": a message that was heard in part has  *)
(* its position until it is heard to the end, over changes of the room, of *)
(* the message and of the order.                                           *)
PositionKept == Waiting => partly \subseteq clockStates

VoicesInOrder == OneVoice /\ PositionKept

Silent == \A m \in Message : playbacks[m].state # "playing"

(* However the user went back and forth between messages, scrolled or was  *)
(* impatient: when he has stopped, the queue plays what it still has and   *)
(* comes to an end.  It does not play the same messages again and again,   *)
(* and nothing is shown as playing for ever.                               *)
ChainEnds == <>[](NothingUnderWay /\ (voiceScenario.patient /\ voiceScenario.decoded => Silent))
=============================================================================
