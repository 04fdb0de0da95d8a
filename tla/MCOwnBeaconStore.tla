-------------------------- MODULE MCOwnBeaconStore --------------------------
EXTENDS OwnBeaconStore, TLC

(* Rooms are interchangeable; used in safety runs only. *)
RoomSymmetry == Permutations(Rooms)

(* Without incidents the other actions of Next are disabled. *)
LiveNext ==
    \/ \E r \in Rooms :
          \/ Sync(r) \/ Expire(r)
          \/ CreateLiveBeacon(r) \/ CreateAccepted(r) \/ CreateAnswered(r) \/ SendAnswered(r)
    \/ \E s \in stops : StopAccepted(s)
    \/ \E s \in stops : StopAnswered(s)
    \/ OnWatchedPosition \/ DebounceEnds \/ StaticInterval \/ Located

LiveSpec == Init /\ [][LiveNext]_vars /\ Fairness
=============================================================================
