--------------------------- MODULE MCClientParts ---------------------------
(***************************************************************************)
(* An instance for TLC of two parts of the client that share no state: the *)
(* local echo of a room's notification volume (EchoChamber) and voice      *)
(* messages (PlaybackQueue).  Each behaviour is one of one part, the other *)
(* rests in one initial state.                                             *)
(***************************************************************************)
EXTENDS MCEchoChamber, PlaybackQueue

CONSTANTS m1, m2, m3

VARIABLE part

allVars == <<part, vars, voiceVars>>

(* Three voice messages: back and forth between them; changes of the room, *)
(* and a text between them; clicks while messages are decoded; and an      *)
(* impatient user while a message is mounted again.                        *)
Chain == [timeline |-> <<m1, m2, m3>>, clicks |-> 4, mounts |-> 0, visits |-> 0,
          decoded |-> TRUE, patient |-> TRUE]
Visit == [Chain EXCEPT !.timeline = <<m1, Text, m2, m3>>, !.clicks = 3, !.visits = 1]
Decoding == [Visit EXCEPT !.decoded = FALSE]
Impatient == [Chain EXCEPT !.clicks = 2, !.mounts = 1, !.decoded = FALSE, !.patient = FALSE]
CheckedVoices == {Chain, Visit, Decoding, Impatient}

----------------------------------------------------------------------------
PartsInit ==
    /\ part \in {"echo", "voices"}
    /\ Init /\ VoicesInit
    /\ part # "echo" => rules = [mute |-> FALSE, room |-> "none"] /\ scenario = Serial
    /\ part # "voices" => voiceScenario = Chain

InEcho == part = "echo" /\ UNCHANGED <<part, voiceVars>>
InVoices == part = "voices" /\ UNCHANGED <<part, vars>>

PartsNext ==
    \/ \E v \in Volume :
          \/ InEcho /\ SetValue(v)
          \/ InEcho /\ ForeignChange(v)
    \/ \E i \in DOMAIN txns : InEcho /\ Resend(i)
    \/ \E i \in DOMAIN txns : InEcho /\ RunDone(i)
    \/ \E q \in requests : InEcho /\ RequestDone(q)
    \/ \E q \in requests : InEcho /\ RequestFailed(q)
    \/ InEcho /\ OnAccountData
    \/ \E m \in Message :
          \/ InVoices /\ Toggle(m)
          \/ InVoices /\ Seek(m)
          \/ InVoices /\ Settled(m)
          \/ InVoices /\ Ended(m)
          \/ InVoices /\ OnPlaybackClock(m)
          \/ InVoices /\ Prepared(m)
          \/ InVoices /\ Unmount(m)
          \/ InVoices /\ Mount(m)
    \/ InVoices /\ LeaveRoom
    \/ InVoices /\ EnterRoom

(* The fairness of EchoChamber and of PlaybackQueue. *)
PartsSpec ==
    /\ PartsInit /\ [][PartsNext]_allVars
    /\ Fairness
    /\ WF_allVars(InVoices /\ VoicesProgress)
=============================================================================
