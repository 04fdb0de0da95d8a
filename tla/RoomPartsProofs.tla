--------------------------- MODULE RoomPartsProofs ---------------------------
(***************************************************************************)
(* Proofs about two parts that bring users into rooms and share no state.  *)
(*                                                                         *)
(* MultiInviter: for every set of addresses, every lists and every number  *)
(* of rate limits.                                                         *)
(* RoomViewStore: for every set of rooms and aliases and every scenario:   *)
(* any number of views, joins, replies and failures, and tasks of the      *)
(* event queue that run in any order with the answers.                     *)
(***************************************************************************)
EXTENDS MultiInviter, RoomViewStore, Integers, FiniteSetTheorems, SequenceTheorems, TLAPS

----------------------------------------------------------------------------
(* INVITING SEVERAL USERS *)

State == {"none", "invited", "error"}
Promise == {"none", "pending", "resolved", "rejected"}
Phase == {"idle", "inviting", "asking", "anyway", "closed", "over"}
Call == [at : {"none", "profile", "invite", "waiting"}, ignore : BOOLEAN]

(* The type invariant has two parts, as the provers differ in Booleans. *)
Booleans ==
    /\ canceled \in BOOLEAN /\ busy \in BOOLEAN /\ fatal \in BOOLEAN /\ prompt \in BOOLEAN
    /\ refused \in BOOLEAN
Data ==
    /\ addresses \in Lists \cup {<<>>} /\ completionStates \in [Address -> State]
    /\ errors \in [Address -> ErrCode] /\ deferred \in Promise /\ phase \in Phase
    /\ next \in Nat /\ unknowns \subseteq Address /\ calls \in [Address -> Call]
    /\ accepted \subseteq Address /\ gaveUp \subseteq Address /\ limits \in 0 .. MaxLimits

(* The inductive invariant: between the phases that invite nothing is      *)
(* under way,                                                              *)
Resting == phase \in {"idle", "asking", "closed", "over"} => \A a \in Address : calls[a].at = "none"

(* one address of the list at a time is invited,                           *)
OneAtATime ==
    phase = "inviting" =>
        /\ next \in 1 .. Len(addresses)
        /\ \A a \in Address : calls[a].at # "none" => a = addresses[next]

(* then the unknown ones,                                                  *)
OnlyUnknowns == phase = "anyway" => \A a \in Address : calls[a].at # "none" => a \in unknowns

(* but nobody who is invited already;                                      *)
InvitedRests == \A a \in Address : completionStates[a] = "invited" => calls[a].at = "none"
UnknownsFailed ==
    /\ phase = "asking" => \A a \in unknowns : completionStates[a] # "invited"
    /\ phase \in {"idle", "inviting"} =>
           \A a \in Address : errors[a] # "none" => completionStates[a] = "error"

(* who is shown as invited is, or was given up;                            *)
InvitedIsTrue ==
    /\ \A a \in Address : completionStates[a] = "invited" => a \in accepted \cup gaveUp
    /\ gaveUp # {} => phase = "over"
    /\ phase = "idle" => \A a \in Address : completionStates[a] = "none"

(* every address before the one being invited is done with.                *)
InvalidMarked == \A a \in ToSet(addresses) : a \in Invalid => completionStates[a] # "none"
Reached ==
    /\ phase = "inviting" => \A k \in 1 .. (next - 1) : completionStates[addresses[k]] # "none"
    /\ phase \in {"asking", "anyway"} => \A a \in ToSet(addresses) : completionStates[a] # "none"
    /\ phase = "over" => fatal \/ \A a \in ToSet(addresses) : completionStates[a] # "none"
    /\ deferred = "resolved" => phase = "over"

InviteInv ==
    /\ Booleans /\ Data /\ Resting /\ OneAtATime /\ OnlyUnknowns /\ InvitedRests /\ UnknownsFailed
    /\ InvitedIsTrue /\ InvalidMarked /\ Reached

----------------------------------------------------------------------------
(* Every set of natural numbers that has an element has a least one. *)
LEMMA Minimum ==
    ASSUME NEW T \in SUBSET Nat, T # {}
    PROVE  \E n \in T : \A m \in T : n <= m
<1> DEFINE below == {0 .. x : x \in T}
<1>1. below \subseteq FiniteSubsetsOf(Nat)
  <2>1. \A x \in T : 0 .. x \in SUBSET Nat /\ IsFiniteSet(0 .. x)
    BY FS_Interval
  <2> QED BY <2>1 DEF FiniteSubsetsOf
<1>2. below # {}
  OBVIOUS
<1>3. PICK least \in below : \A other \in below : <<other, least>> \notin StrictSubsetOrdering(Nat)
  <2> HIDE DEF below
  <2> QED BY <1>1, <1>2, FS_StrictSubsetOrderingWellFounded, WFMin
<1>4. PICK n \in T : least = 0 .. n
  OBVIOUS
<1>5. ASSUME NEW m \in T PROVE n <= m
  <2>1. <<0 .. m, 0 .. n>> \notin StrictSubsetOrdering(Nat)
    BY <1>3, <1>4
  <2>2. ~(0 .. m \subseteq 0 .. n /\ 0 .. m # 0 .. n)
    BY <2>1 DEF StrictSubsetOrdering
  <2>3. m < n => 0 .. m \subseteq 0 .. n /\ n \in 0 .. n /\ n \notin 0 .. m
    OBVIOUS
  <2> QED BY <2>2, <2>3
<1> QED BY <1>5

(* NextToInvite is the first address from i on that has to be invited, or  *)
(* just after the list.                                                    *)
LEMMA NextIsFirst ==
    ASSUME NEW list \in Seq(Address), NEW i \in 1 .. (Len(list) + 1), NEW states,
           NEW j, j = NextToInvite(list, i, states)
    PROVE  /\ j \in i .. (Len(list) + 1)
           /\ j <= Len(list) => list[j] \notin Invalid /\ states[list[j]] # "invited"
           /\ \A k \in i .. (j - 1) : list[k] \in Invalid \/ states[list[k]] = "invited"
<1> DEFINE todo == {k \in i .. Len(list) : list[k] \notin Invalid /\ states[list[k]] # "invited"}
<1>1. Len(list) \in Nat /\ todo \in SUBSET Nat
  OBVIOUS
<1>2. j = IF todo = {} THEN Len(list) + 1 ELSE CHOOSE k \in todo : \A m \in todo : k <= m
  BY DEF NextToInvite
<1>3. CASE todo = {}
  BY <1>1, <1>2, <1>3
<1>4. CASE todo # {}
  <2>1. \E k \in todo : \A m \in todo : k <= m
    <3> HIDE DEF todo
    <3> QED BY <1>1, <1>4, Minimum
  <2>2. j \in todo /\ \A m \in todo : j <= m
    <3> HIDE DEF todo
    <3> QED BY <1>2, <1>4, <2>1
  <2>3. ASSUME NEW k \in i .. (j - 1) PROVE k \notin todo /\ k \in i .. Len(list)
    BY <1>1, <2>2
  <2> QED BY <1>1, <2>2, <2>3
<1> QED BY <1>3, <1>4

----------------------------------------------------------------------------
(* InviteInv holds in every behaviour. *)
THEOREM InviteInvariant == Spec => []InviteInv
(* What inviteMore leaves behind, when all before i are done with and      *)
(* nothing is under way any more.                                          *)
<1>InviteMoreKeeps.
      ASSUME NEW list \in Seq(Address), NEW i \in 1 .. (Len(list) + 1),
             NEW done \in [Address -> Call], \A a \in Address : done[a].at = "none",
             NEW nowBusy, unknowns \subseteq Address,
             addresses' = list, completionStates' \in [Address -> State],
             \A a \in Address : errors'[a] # "none" => completionStates'[a] = "error",
             \A k \in 1 .. (i - 1) : completionStates'[list[k]] # "none",
             InvalidMarked', InviteMore(list, i, done, nowBusy)
      PROVE  /\ next' \in Nat /\ phase' \in Phase \ {"idle"}
             /\ deferred' \in Promise /\ unknowns' \subseteq Address /\ calls' \in [Address -> Call]
             /\ Resting' /\ OneAtATime' /\ OnlyUnknowns' /\ InvitedRests' /\ UnknownsFailed' /\ Reached'
  <2> USE <1>InviteMoreKeeps
  <2> DEFINE j == NextToInvite(list, i, completionStates')
             unknown == UnknownProfileUsers(errors')
             Kept == /\ phase' \in Phase \ {"idle"} /\ deferred' \in Promise
                     /\ unknowns' \subseteq Address /\ calls' \in [Address -> Call]
                     /\ Resting' /\ OneAtATime' /\ OnlyUnknowns' /\ InvitedRests'
                     /\ UnknownsFailed' /\ Reached'
  <2>1. /\ j \in i .. (Len(list) + 1)
        /\ j <= Len(list) => list[j] \notin Invalid /\ completionStates'[list[j]] # "invited"
        /\ \A k \in i .. (j - 1) : list[k] \in Invalid \/ completionStates'[list[k]] = "invited"
    BY NextIsFirst
  <2>2. /\ next' = j
        /\ \/ /\ j <= Len(list) /\ phase' = "inviting" /\ deferred' = "pending"
              /\ calls' = [done EXCEPT ![list[j]] = InviteToRoom(FALSE)] /\ unknowns' = unknowns
           \/ /\ j > Len(list) /\ unknown # {} /\ deferred' = "pending" /\ unknowns' = unknown
              /\ \/ phase' = "asking" /\ calls' = done
                 \/ /\ phase' = "anyway"
                    /\ calls' = [a \in Address |-> IF a \in unknown THEN InviteToRoom(TRUE) ELSE done[a]]
           \/ /\ j > Len(list) /\ unknown = {} /\ phase' = "over" /\ deferred' = "resolved"
              /\ calls' = done /\ unknowns' = unknowns
    BY Zenon DEF InviteMore
  <2>3. InviteToRoom(FALSE) \in Call /\ InviteToRoom(TRUE) \in Call
    BY DEF InviteToRoom, Call
  <2>4. unknown \subseteq Address /\ \A a \in unknown : completionStates'[a] = "error"
    <3>1. \A a \in unknown : a \in Address /\ errors'[a] \in {"unknown", "noProfile"}
      BY DEF UnknownProfileUsers, UnknownProfileErrors
    <3> QED BY <3>1
  <2>5. \A k \in 1 .. (j - 1) : completionStates'[list[k]] # "none"
    <3>1. ASSUME NEW k \in i .. (j - 1) PROVE completionStates'[list[k]] # "none"
      <4>1. k \in 1 .. Len(list) /\ list[k] \in ToSet(list)
        BY <2>1 DEF ToSet
      <4> QED BY <2>1, <3>1, <4>1 DEF InvalidMarked
    <3>2. \A k \in 1 .. (j - 1) : k \in 1 .. (i - 1) \/ k \in i .. (j - 1)
      BY <2>1
    <3> QED BY <3>1, <3>2
  <2> HIDE DEF j, unknown
  <2>6. j > Len(list) => \A a \in ToSet(list) : completionStates'[a] # "none"
    <3>1. \A a \in ToSet(list) : \E k \in 1 .. Len(list) : a = list[k]
      BY DEF ToSet
    <3> QED BY <2>1, <2>5, <3>1
  <2>7. j \in Nat /\ (j > Len(list) <=> ~(j <= Len(list)))
    BY <2>1
  <2>8. ASSUME j <= Len(list) PROVE Kept
    <3>1. /\ next' = j /\ phase' = "inviting" /\ deferred' = "pending"
          /\ calls' = [done EXCEPT ![list[j]] = InviteToRoom(FALSE)] /\ unknowns' = unknowns
      BY <2>2, <2>8, <2>7, Zenon
    <3>2. j \in 1 .. Len(list) /\ list[j] \in Address
      BY <2>1, <2>8
    <3>3. calls' \in [Address -> Call] /\ \A a \in Address : a # list[j] => calls'[a].at = "none"
      BY <2>3, <3>1
    <3>4. OneAtATime' /\ InvitedRests'
      BY <2>1, <2>8, <3>1, <3>2, <3>3 DEF OneAtATime, InvitedRests
    <3>5. Reached' /\ Resting' /\ OnlyUnknowns' /\ UnknownsFailed'
      BY <2>5, <3>1 DEF Reached, Resting, OnlyUnknowns, UnknownsFailed
    <3> QED BY <3>1, <3>2, <3>3, <3>4, <3>5 DEF Phase, Promise
  <2>9. ASSUME j > Len(list), unknown # {} PROVE Kept
    <3>1. /\ deferred' = "pending" /\ unknowns' = unknown
          /\ \/ phase' = "asking" /\ calls' = done
             \/ /\ phase' = "anyway"
                /\ calls' = [a \in Address |-> IF a \in unknown THEN InviteToRoom(TRUE) ELSE done[a]]
      BY <2>2, <2>9, <2>7, Zenon
    <3>2. /\ calls' \in [Address -> Call]
          /\ \A a \in Address : calls'[a].at # "none" => phase' = "anyway" /\ a \in unknown
      BY <2>3, <3>1
    <3>3. Resting' /\ OneAtATime' /\ OnlyUnknowns'
      BY <3>1, <3>2 DEF Resting, OneAtATime, OnlyUnknowns
    <3>4. InvitedRests' /\ UnknownsFailed'
      BY <2>4, <3>1, <3>2 DEF InvitedRests, UnknownsFailed
    <3>5. Reached'
      BY <2>6, <2>9, <3>1 DEF Reached
    <3> QED BY <2>1, <2>4, <3>1, <3>2, <3>3, <3>4, <3>5 DEF Phase, Promise
  <2>10. ASSUME j > Len(list), unknown = {} PROVE Kept
    <3>1. phase' = "over" /\ deferred' = "resolved" /\ calls' = done /\ unknowns' = unknowns
      BY <2>2, <2>10, <2>7, Zenon
    <3>2. Resting' /\ OneAtATime' /\ OnlyUnknowns' /\ InvitedRests' /\ UnknownsFailed'
      BY <3>1 DEF Resting, OneAtATime, OnlyUnknowns, InvitedRests, UnknownsFailed
    <3>3. Reached'
      BY <2>6, <2>10, <3>1 DEF Reached
    <3> QED BY <2>1, <3>1, <3>2, <3>3 DEF Phase, Promise
  <2>11. next' \in Nat
    BY <2>2, <2>7, Zenon
  <2> QED BY <2>2, <2>7, <2>8, <2>9, <2>10, <2>11, Zenon
(* The answer to the invitation of a: what doInvite and inviteMore leave.  *)
<1>ResolvedKeeps.
      ASSUME InviteInv, NEW a \in Address, calls[a].at # "none", NEW nowBusy \in BOOLEAN,
             addresses' = addresses, completionStates' \in [Address -> State],
             completionStates'[a] # "none", errors'[a] # "none" => completionStates'[a] = "error",
             \A b \in Address : b # a => completionStates'[b] = completionStates[b] /\ errors'[b] = errors[b],
             DoInviteResolved(a, nowBusy)
      PROVE  /\ next' \in Nat /\ busy' \in BOOLEAN /\ phase' \in Phase \ {"idle"}
             /\ deferred' \in Promise /\ unknowns' \subseteq Address /\ calls' \in [Address -> Call]
             /\ Resting' /\ OneAtATime' /\ OnlyUnknowns' /\ InvitedRests' /\ UnknownsFailed'
             /\ InvalidMarked' /\ Reached'
  <2> USE <1>ResolvedKeeps
  <2> DEFINE done == [calls EXCEPT ![a] = NoCall]
  <2>1. /\ addresses \in Seq(Address) /\ unknowns \subseteq Address
        /\ calls \in [Address -> Call] /\ deferred \in Promise /\ next \in Nat
    BY InviterAssumption, EmptySeq DEF InviterAssumption, InviteInv, Data
  <2>2. done \in [Address -> Call] /\ \A b \in Address : done[b] = IF b = a THEN NoCall ELSE calls[b]
    BY <2>1 DEF NoCall, Call
  <2>3. \A b \in Address : completionStates[b] # "none" => completionStates'[b] # "none"
    OBVIOUS
  <2>4. InvalidMarked'
    <3>1. \A b \in ToSet(addresses) : b \in Address
      BY <2>1 DEF ToSet
    <3> QED BY <2>3, <3>1 DEF InviteInv, InvalidMarked
  <2>5. CASE phase = "inviting"
    <3>1. /\ next \in 1 .. Len(addresses) /\ a = addresses[next]
          /\ \A b \in Address : done[b].at = "none"
      BY <2>2, <2>5 DEF InviteInv, OneAtATime, NoCall
    <3>2. \A k \in 1 .. ((next + 1) - 1) : completionStates'[addresses[k]] # "none"
      <4>1. ASSUME NEW k \in 1 .. ((next + 1) - 1) PROVE completionStates'[addresses[k]] # "none"
        <5>1. addresses[k] \in Address /\ (k \in 1 .. (next - 1) \/ k = next)
          BY <2>1, <3>1
        <5> QED BY <2>3, <2>5, <3>1, <5>1 DEF InviteInv, Reached
      <4> QED BY <4>1
    <3>3. \A b \in Address : errors'[b] # "none" => completionStates'[b] = "error"
      BY <2>5 DEF InviteInv, UnknownsFailed
    <3>4. InviteMore(addresses, next + 1, done, nowBusy)
      BY <2>5, Zenon DEF DoInviteResolved
    <3>5. next + 1 \in 1 .. (Len(addresses) + 1)
      BY <2>1, <3>1
    <3>6. busy' \in BOOLEAN
      BY <3>4, Zenon DEF InviteMore
    <3>7. /\ next' \in Nat /\ phase' \in Phase \ {"idle"}
          /\ deferred' \in Promise /\ unknowns' \subseteq Address /\ calls' \in [Address -> Call]
          /\ Resting' /\ OneAtATime' /\ OnlyUnknowns' /\ InvitedRests' /\ UnknownsFailed' /\ Reached'
      <4> HIDE DEF done
      <4> QED BY <2>1, <2>2, <2>4, <3>1, <3>2, <3>3, <3>4, <3>5, <1>InviteMoreKeeps
    <3> QED BY <2>4, <3>6, <3>7, Zenon
  <2>6. CASE phase = "anyway"
    <3>1. /\ calls' = done /\ unknowns' = unknowns \ {a} /\ next' = next
          /\ \/ unknowns' = {} /\ phase' = "over" /\ Settled("resolved")
             \/ phase' = "anyway" /\ deferred' = deferred
      BY <2>6, Zenon DEF DoInviteResolved, AllDone
    <3>2. busy' \in BOOLEAN
      BY <2>6, Zenon DEF DoInviteResolved
    <3>3. deferred' \in Promise /\ phase' \in Phase \ {"idle"}
      BY <2>1, <3>1 DEF Settled, Promise, Phase
    <3>4. \A b \in Address : calls'[b].at # "none" => b \in unknowns'
      BY <2>2, <2>6, <3>1 DEF InviteInv, OnlyUnknowns, NoCall
    <3>5. Resting' /\ OneAtATime' /\ OnlyUnknowns'
      BY <3>1, <3>4 DEF Resting, OneAtATime, OnlyUnknowns
    <3>6. InvitedRests' /\ UnknownsFailed'
      BY <2>2, <3>1 DEF InviteInv, InvitedRests, UnknownsFailed, NoCall
    <3>7. \A b \in ToSet(addresses) : b \in Address /\ completionStates[b] # "none"
      BY <2>1, <2>6 DEF InviteInv, Reached, ToSet
    <3>8. Reached'
      BY <2>3, <2>6, <3>1, <3>7 DEF InviteInv, Reached
    <3> QED BY <2>1, <2>2, <2>4, <3>1, <3>2, <3>3, <3>5, <3>6, <3>8
  <2>7. phase \in {"inviting", "anyway"}
    BY DEF InviteInv, Data, Phase, Resting
  <2> QED BY <2>5, <2>6, <2>7
(* Where nothing but the calls under way, the server and cancel moved. *)
<1>StaysSo.
      ASSUME InviteInv, calls' \in [Address -> Call],
             \A a \in Address : calls[a].at = "none" => calls'[a].at = "none",
             canceled' \in BOOLEAN, deferred' \in {deferred, "rejected"},
             accepted' \subseteq Address, accepted \subseteq accepted', limits' \in 0 .. MaxLimits,
             UNCHANGED <<addresses, busy, fatal, completionStates, errors, phase, next, unknowns,
                         prompt, gaveUp, refused>>
      PROVE  InviteInv'
  <2> USE <1>StaysSo
  <2>1. Booleans'
    BY Zenon DEF InviteInv, Booleans
  <2>2. Data'
    BY DEF InviteInv, Data, Promise
  <2>3. Resting' /\ OneAtATime' /\ OnlyUnknowns'
    BY DEF InviteInv, Resting, OneAtATime, OnlyUnknowns
  <2>4. InvitedRests' /\ UnknownsFailed' /\ InvitedIsTrue'
    BY DEF InviteInv, Data, InvitedRests, UnknownsFailed, InvitedIsTrue
  <2>5. InvalidMarked'
    BY DEF InviteInv, InvalidMarked
  <2>6. Reached'
    BY DEF InviteInv, Reached
  <2> QED BY <2>1, <2>2, <2>3, <2>4, <2>5, <2>6 DEF InviteInv
(* The actions that change calls under way only, and answers after cancel. *)
<1>IgnoredKeeps.
      ASSUME InviteInv, NEW a \in Address, Ignored(a), accepted' \subseteq Address, accepted \subseteq accepted',
             UNCHANGED <<addresses, canceled, prompt, gaveUp, refused, limits>>
      PROVE  InviteInv'
  <2> USE <1>IgnoredKeeps
  <2>1. calls \in [Address -> Call] /\ limits \in 0 .. MaxLimits /\ calls' = [calls EXCEPT ![a] = NoCall]
    BY DEF InviteInv, Data, Ignored
  <2>2. /\ calls' \in [Address -> Call]
        /\ \A b \in Address : calls[b].at = "none" => calls'[b].at = "none"
    BY <2>1 DEF NoCall, Call
  <2>3. canceled' \in BOOLEAN
    BY Zenon DEF InviteInv, Booleans
  <2> QED BY <2>1, <2>2, <2>3, <1>StaysSo, Zenon DEF Ignored
(* A call that goes on without an answer for its address changes nothing  *)
(* but the call.                                                           *)
<1>CallGoesOn.
      ASSUME InviteInv, NEW a \in Address,
             ProfileAnswered(a) \/ InviteWithoutProfile(a) \/ LimitExceeded(a) \/ TriedAgain(a)
      PROVE  InviteInv'
  <2> USE <1>CallGoesOn
  <2>1. calls \in [Address -> Call] /\ limits \in 0 .. MaxLimits /\ MaxLimits \in Nat
    BY InviterAssumption DEF InviteInv, Data, InviterAssumption
  <2>2. \A g \in BOOLEAN : InviteToRoom(g) \in Call
    BY Zenon DEF InviteToRoom, Call
  <2>3. /\ calls' \in [Address -> Call] /\ calls[a].at # "none"
        /\ \A b \in Address : b # a => calls'[b] = calls[b]
    <3>1. CASE ProfileAnswered(a)
      <4>1. calls[a].at = "profile" /\ calls' = [calls EXCEPT ![a].at = "invite"]
        BY <3>1, Zenon DEF ProfileAnswered
      <4> QED BY <2>1, <4>1 DEF Call
    <3>2. CASE InviteWithoutProfile(a)
      <4>1. calls[a].at \in {"profile", "invite"} /\ calls' = [calls EXCEPT ![a] = InviteToRoom(TRUE)]
        BY <3>2, Zenon DEF InviteWithoutProfile
      <4> QED BY <2>1, <2>2, <4>1
    <3>3. CASE LimitExceeded(a)
      <4>1. calls[a].at \in {"profile", "invite"} /\ calls' = [calls EXCEPT ![a].at = "waiting"]
        BY <3>3, Zenon DEF LimitExceeded
      <4> QED BY <2>1, <4>1 DEF Call
    <3>4. CASE TriedAgain(a)
      <4>1. calls[a].at = "waiting" /\ calls' = [calls EXCEPT ![a] = InviteToRoom(calls[a].ignore)]
        BY <3>4, Zenon DEF TriedAgain
      <4>2. calls[a].ignore \in BOOLEAN
        BY <2>1 DEF Call
      <4>3. InviteToRoom(calls[a].ignore) \in Call
        BY <2>2, <4>2, Zenon
      <4> QED BY <2>1, <4>1, <4>3
    <3> QED BY <3>1, <3>2, <3>3, <3>4
  <2>4. \A b \in Address : calls[b].at = "none" => calls'[b].at = "none"
    BY <2>3
  <2>5. limits' \in 0 .. MaxLimits
    <3>1. limits' = limits \/ (limits < MaxLimits /\ limits' = limits + 1)
      BY Zenon DEF ProfileAnswered, InviteWithoutProfile, LimitExceeded, TriedAgain
    <3> QED BY <2>1, <3>1
  <2>6. UNCHANGED <<addresses, canceled, busy, fatal, completionStates, errors, deferred, phase, next,
                    unknowns, prompt, accepted, gaveUp, refused>>
    BY Zenon DEF ProfileAnswered, InviteWithoutProfile, LimitExceeded, TriedAgain
  <2>7. canceled' \in BOOLEAN /\ accepted' \subseteq Address /\ deferred' \in {deferred, "rejected"}
    BY <2>6, Zenon DEF InviteInv, Booleans, Data
  <2> QED BY <2>3, <2>4, <2>5, <2>6, <2>7, <1>StaysSo, Zenon
(* cancel sets canceled, and rejects the promise if it is busy. *)
<1>CancelKeeps. ASSUME InviteInv, Cancel PROVE InviteInv'
  <2> USE <1>CancelKeeps
  <2>1. /\ canceled' = TRUE /\ deferred' \in {deferred, "rejected"}
        /\ UNCHANGED <<addresses, busy, fatal, completionStates, errors, phase, next, unknowns, calls,
                       prompt, accepted, gaveUp, refused, limits>>
    BY DEF Cancel, Settled
  <2>2. calls' \in [Address -> Call] /\ accepted' \subseteq Address /\ limits' \in 0 .. MaxLimits
    BY <2>1 DEF InviteInv, Data
  <2>3. canceled' \in BOOLEAN
    BY <2>1, Zenon
  <2> QED BY <2>1, <2>2, <2>3, <1>StaysSo, Zenon
(* The start of the series: the invalid addresses are marked. *)
<1>InviteKeeps. ASSUME InviteInv, Invite PROVE InviteInv'
  <2> USE <1>InviteKeeps
  <2>1. /\ phase = "idle" /\ addresses' \in Lists
        /\ completionStates' = [a \in Address |-> IF a \in Invalid /\ Contains(addresses', a)
                                                  THEN "error" ELSE "none"]
        /\ errors' = [a \in Address |-> IF completionStates'[a] = "error" THEN "invalid" ELSE "none"]
        /\ InviteMore(addresses', 1, calls, busy)
        /\ UNCHANGED <<canceled, fatal, prompt, accepted, gaveUp, refused, limits>>
    BY Zenon DEF Invite
  <2>2. addresses' \in Seq(Address)
    BY <2>1, InviterAssumption DEF InviterAssumption
  <2>3. completionStates' \in [Address -> State] /\ errors' \in [Address -> ErrCode]
    BY <2>1 DEF State, ErrCode, Failure
  <2>4. \A a \in Address : errors'[a] # "none" => completionStates'[a] = "error"
    BY <2>1
  <2>5. InvalidMarked'
    <3>1. \A a \in ToSet(addresses') : a \in Address /\ Contains(addresses', a)
      BY <2>2 DEF ToSet, Contains
    <3> QED BY <2>1, <3>1 DEF InvalidMarked
  <2>6. calls \in [Address -> Call] /\ unknowns \subseteq Address /\ \A a \in Address : calls[a].at = "none"
    BY <2>1 DEF InviteInv, Data, Resting
  <2>7. 1 \in 1 .. (Len(addresses') + 1) /\ \A k \in 1 .. (1 - 1) : completionStates'[addresses'[k]] # "none"
    BY <2>2
  <2>8. /\ next' \in Nat /\ phase' \in Phase \ {"idle"}
        /\ deferred' \in Promise /\ unknowns' \subseteq Address /\ calls' \in [Address -> Call]
        /\ Resting' /\ OneAtATime' /\ OnlyUnknowns' /\ InvitedRests' /\ UnknownsFailed' /\ Reached'
    BY <2>1, <2>2, <2>3, <2>4, <2>5, <2>6, <2>7, <1>InviteMoreKeeps
  <2>9. InvitedIsTrue'
    <3>1. gaveUp' = {} /\ \A a \in Address : completionStates'[a] # "invited"
      BY <2>1 DEF InviteInv, InvitedIsTrue
    <3> QED BY <2>8, <3>1 DEF InvitedIsTrue
  <2>10. Booleans'
    BY <2>1, Zenon DEF InviteInv, Booleans, InviteMore
  <2>11. Data'
    BY <2>1, <2>3, <2>8 DEF InviteInv, Data
  <2> QED BY <2>5, <2>8, <2>9, <2>10, <2>11, Zenon DEF InviteInv
(* The second invitations begin: nobody of them is invited already. *)
<1>OnInviteAnywaysKeeps. ASSUME InviteInv, OnInviteAnyways PROVE InviteInv'
  <2> USE <1>OnInviteAnywaysKeeps
  <2>1. /\ phase = "asking" /\ phase' = "anyway"
        /\ calls' = [a \in Address |-> IF a \in unknowns THEN InviteToRoom(TRUE) ELSE calls[a]]
        /\ UNCHANGED <<addresses, fatal, completionStates, errors, deferred, next, unknowns, accepted,
                       gaveUp, limits>>
    BY Zenon DEF OnInviteAnyways
  <2>2. InviteToRoom(TRUE) \in Call
    BY Zenon DEF InviteToRoom, Call
  <2>3. /\ calls' \in [Address -> Call]
        /\ \A a \in Address : calls'[a].at # "none" => a \in unknowns /\ completionStates[a] # "invited"
    BY <2>1, <2>2 DEF InviteInv, Data, Resting, UnknownsFailed
  <2>4. Booleans'
    BY Zenon DEF InviteInv, Booleans, OnInviteAnyways
  <2>5. Data'
    BY <2>1, <2>3 DEF InviteInv, Data, Phase
  <2>6. Resting' /\ OneAtATime' /\ OnlyUnknowns' /\ InvitedRests' /\ UnknownsFailed'
    BY <2>1, <2>3 DEF Resting, OneAtATime, OnlyUnknowns, InvitedRests, UnknownsFailed
  <2>7. InvitedIsTrue' /\ InvalidMarked' /\ Reached'
    BY <2>1 DEF InviteInv, InvitedIsTrue, InvalidMarked, Reached
  <2> QED BY <2>4, <2>5, <2>6, <2>7 DEF InviteInv
(* The dialog is given up: the promise resolves, with the addresses that   *)
(* were asked about left as the code leaves them.                          *)
<1>OnGiveUpKeeps. ASSUME InviteInv, OnGiveUp PROVE InviteInv'
  <2> USE <1>OnGiveUpKeeps
  <2>1. /\ phase = "asking" /\ phase' = "over" /\ gaveUp' = unknowns /\ unknowns' = {}
        /\ completionStates' = [a \in Address |-> IF a \in unknowns THEN "invited" ELSE completionStates[a]]
        /\ deferred' = IF deferred = "pending" THEN "resolved" ELSE deferred
        /\ UNCHANGED <<addresses, fatal, errors, next, calls, accepted, limits>>
    BY Zenon DEF OnGiveUp, Settled
  <2>2. addresses \in Seq(Address)
    BY InviterAssumption, EmptySeq DEF InviterAssumption, InviteInv, Data
  <2>3. Booleans'
    BY Zenon DEF InviteInv, Booleans, OnGiveUp
  <2>4. Data'
    BY <2>1 DEF InviteInv, Data, Phase, State, Promise
  <2>5. Resting' /\ OneAtATime' /\ OnlyUnknowns' /\ InvitedRests' /\ UnknownsFailed'
    BY <2>1 DEF InviteInv, Resting, OneAtATime, OnlyUnknowns, InvitedRests, UnknownsFailed
  <2>6. InvitedIsTrue'
    BY <2>1 DEF InviteInv, Data, InvitedIsTrue
  <2>7. InvalidMarked' /\ Reached'
    <3>1. \A a \in ToSet(addresses) : a \in Address
      BY <2>2 DEF ToSet
    <3> QED BY <2>1, <3>1 DEF InviteInv, Reached, InvalidMarked
  <2> QED BY <2>3, <2>4, <2>5, <2>6, <2>7 DEF InviteInv
(* The dialog is closed with neither answer: nothing else changes. *)
<1>OnBackgroundClickKeeps. ASSUME InviteInv, OnBackgroundClick PROVE InviteInv'
  <2> USE <1>OnBackgroundClickKeeps
  <2>1. /\ phase = "asking" /\ phase' = "closed"
        /\ UNCHANGED <<addresses, fatal, completionStates, errors, deferred, next, unknowns, calls, accepted,
                       gaveUp, limits>>
    BY Zenon DEF OnBackgroundClick
  <2>2. Booleans'
    BY Zenon DEF InviteInv, Booleans, OnBackgroundClick
  <2>3. Data'
    BY <2>1 DEF InviteInv, Data, Phase
  <2>4. Resting' /\ OneAtATime' /\ OnlyUnknowns' /\ InvitedRests' /\ UnknownsFailed'
    BY <2>1 DEF InviteInv, Resting, OneAtATime, OnlyUnknowns, InvitedRests, UnknownsFailed
  <2>5. InvitedIsTrue' /\ InvalidMarked' /\ Reached'
    BY <2>1 DEF InviteInv, InvitedIsTrue, InvalidMarked, Reached
  <2> QED BY <2>2, <2>3, <2>4, <2>5 DEF InviteInv
(* An accepted invitation is recorded, and the series goes on. *)
<1>InviteAcceptedKeeps. ASSUME InviteInv, NEW a \in Address, InviteAccepted(a) PROVE InviteInv'
  <2> USE <1>InviteAcceptedKeeps
  <2>1. /\ calls[a].at = "invite" /\ accepted' = accepted \cup {a}
        /\ UNCHANGED <<addresses, canceled, prompt, gaveUp, refused, limits>>
    BY Zenon DEF InviteAccepted
  <2>2. CASE Ignored(a)
    <3>1. accepted' \subseteq Address /\ accepted \subseteq accepted'
      BY <2>1 DEF InviteInv, Data
    <3> QED BY <2>1, <2>2, <3>1, <1>IgnoredKeeps
  <2>3. CASE ~canceled
    <3>1. /\ completionStates' = [completionStates EXCEPT ![a] = "invited"]
          /\ errors' = [errors EXCEPT ![a] = "none"]
          /\ DoInviteResolved(a, busy) /\ UNCHANGED fatal
      BY <2>3, Zenon DEF InviteAccepted
    <3>2. /\ completionStates' \in [Address -> State] /\ completionStates'[a] = "invited"
          /\ errors' \in [Address -> ErrCode] /\ errors'[a] = "none"
          /\ \A b \in Address : b # a => completionStates'[b] = completionStates[b] /\ errors'[b] = errors[b]
      BY <3>1 DEF InviteInv, Data, State, ErrCode
    <3>3. busy \in BOOLEAN /\ calls[a].at # "none"
      BY <2>1, Zenon DEF InviteInv, Booleans
    <3>4. /\ next' \in Nat /\ busy' \in BOOLEAN /\ phase' \in Phase \ {"idle"}
          /\ deferred' \in Promise /\ unknowns' \subseteq Address /\ calls' \in [Address -> Call]
          /\ Resting' /\ OneAtATime' /\ OnlyUnknowns' /\ InvitedRests' /\ UnknownsFailed'
          /\ InvalidMarked' /\ Reached'
      <4>1. completionStates'[a] # "none" /\ (errors'[a] # "none" => completionStates'[a] = "error")
        BY <3>2
      <4> QED BY <2>1, <3>1, <3>2, <3>3, <4>1, <1>ResolvedKeeps, Zenon
    <3>5. Booleans'
      BY <2>1, <3>1, <3>4, Zenon DEF InviteInv, Booleans
    <3>6. Data'
      BY <2>1, <3>2, <3>4 DEF InviteInv, Data
    <3>7. InvitedIsTrue'
      <4>1. gaveUp' = {}
        BY <2>1 DEF InviteInv, Data, Phase, Resting, InvitedIsTrue
      <4> QED BY <2>1, <3>2, <3>4, <4>1 DEF InviteInv, InvitedIsTrue
    <3> QED BY <3>4, <3>5, <3>6, <3>7, Zenon DEF InviteInv
  <2> QED BY <2>2, <2>3, Zenon DEF InviteAccepted
(* A fatal answer: the series is over, or Promise.all has been rejected. *)
<1>RejectedKeeps.
      ASSUME InviteInv, NEW a \in Address, calls[a].at # "none", addresses' = addresses, fatal' = TRUE,
             completionStates' = [completionStates EXCEPT ![a] = "error"], DoInviteRejected(a)
      PROVE  /\ next' \in Nat /\ phase' \in Phase \ {"idle"} /\ deferred' \in Promise
             /\ unknowns' \subseteq Address /\ calls' \in [Address -> Call]
             /\ Resting' /\ OneAtATime' /\ OnlyUnknowns' /\ InvitedRests' /\ UnknownsFailed'
             /\ InvalidMarked' /\ Reached'
  <2> USE <1>RejectedKeeps
  <2>1. /\ addresses \in Seq(Address) /\ unknowns \subseteq Address /\ next \in Nat
        /\ calls \in [Address -> Call] /\ deferred \in Promise
        /\ completionStates \in [Address -> State]
    BY InviterAssumption, EmptySeq DEF InviterAssumption, InviteInv, Data
  <2>2. /\ calls' = [calls EXCEPT ![a] = NoCall] /\ next' = next
        /\ \/ phase = "inviting" /\ Settled("resolved") /\ phase' = "over" /\ unknowns' = unknowns
           \/ /\ phase = "anyway" /\ phase' = phase /\ deferred' = deferred
              /\ unknowns' = unknowns \ {a}
    BY Zenon DEF DoInviteRejected
  <2>3. /\ calls' \in [Address -> Call]
        /\ \A b \in Address : calls'[b].at = IF b = a THEN "none" ELSE calls[b].at
    BY <2>1, <2>2 DEF NoCall, Call
  <2>4. /\ phase' \in Phase \ {"idle"} /\ deferred' \in Promise /\ unknowns' \subseteq Address
    BY <2>1, <2>2 DEF Settled, Phase, Promise
  <2>5. Resting' /\ OneAtATime'
    BY <2>1, <2>2, <2>3 DEF InviteInv, OneAtATime, Resting
  <2>6. OnlyUnknowns' /\ InvitedRests' /\ UnknownsFailed'
    BY <2>1, <2>2, <2>3 DEF InviteInv, OnlyUnknowns, InvitedRests, UnknownsFailed
  <2>7. \A b \in ToSet(addresses) : b \in Address
    BY <2>1 DEF ToSet
  <2>8. InvalidMarked'
    BY <2>1, <2>7 DEF InviteInv, InvalidMarked
  <2>9. Reached'
    BY <2>1, <2>2, <2>7 DEF InviteInv, Reached
  <2> QED BY <2>1, <2>2, <2>3, <2>4, <2>5, <2>6, <2>8, <2>9
(* A failed invitation is recorded with its error; the series goes on or   *)
(* ends, or Promise.all rejects.                                           *)
<1>InviteFailedKeeps.
      ASSUME InviteInv, NEW a \in Address, NEW err \in Failure, InviteFailed(a, err) PROVE InviteInv'
  <2> USE <1>InviteFailedKeeps
  <2>1. /\ calls[a].at \in {"profile", "invite"} /\ accepted' \in {accepted, accepted \cup {a}}
        /\ UNCHANGED <<addresses, canceled, prompt, gaveUp, limits>>
    BY Zenon DEF InviteFailed
  <2>2. calls[a].at # "none" /\ accepted' \subseteq Address /\ accepted \subseteq accepted'
    BY <2>1 DEF InviteInv, Data
  <2>3. CASE Ignored(a) /\ UNCHANGED refused
    BY <2>1, <2>2, <2>3, <1>IgnoredKeeps
  <2>4. CASE ~canceled
    <3>1. /\ completionStates' = [completionStates EXCEPT ![a] = "error"]
          /\ errors' = [errors EXCEPT ![a] = err] /\ fatal' = (err = "forbidden")
          /\ \/ err = "forbidden" /\ DoInviteRejected(a)
             \/ err # "forbidden" /\ DoInviteResolved(a, TRUE) /\ UNCHANGED refused
      BY <2>4, Zenon DEF InviteFailed
    <3>2. /\ completionStates' \in [Address -> State] /\ completionStates'[a] = "error"
          /\ errors' \in [Address -> ErrCode]
          /\ \A b \in Address : b # a => completionStates'[b] = completionStates[b] /\ errors'[b] = errors[b]
      BY <3>1 DEF InviteInv, Data, State, ErrCode
    <3>3. /\ next' \in Nat /\ phase' \in Phase \ {"idle"} /\ deferred' \in Promise
          /\ unknowns' \subseteq Address /\ calls' \in [Address -> Call]
          /\ Resting' /\ OneAtATime' /\ OnlyUnknowns' /\ InvitedRests' /\ UnknownsFailed'
          /\ InvalidMarked' /\ Reached'
      <4>1. CASE err = "forbidden" /\ DoInviteRejected(a)
        <5>1. fatal' = TRUE
          BY <3>1, <4>1, Zenon
        <5> QED BY <2>1, <2>2, <3>1, <4>1, <5>1, <1>RejectedKeeps, Zenon
      <4>2. CASE DoInviteResolved(a, TRUE)
        <5>1. completionStates'[a] # "none" /\ (errors'[a] # "none" => completionStates'[a] = "error")
          BY <3>2
        <5> QED BY <2>1, <2>2, <3>2, <4>2, <5>1, <1>ResolvedKeeps, Zenon
      <4> QED BY <3>1, <4>1, <4>2, Zenon
    <3>4. Booleans'
      <4>1. busy' \in BOOLEAN /\ refused' \in BOOLEAN
        BY <3>1, Zenon DEF InviteInv, Booleans, DoInviteRejected, DoInviteResolved, InviteMore
      <4> QED BY <2>1, <3>1, <4>1, Zenon DEF InviteInv, Booleans
    <3>5. Data'
      BY <2>1, <2>2, <3>2, <3>3 DEF InviteInv, Data
    <3>6. InvitedIsTrue'
      <4>1. gaveUp' = {} /\ \A b \in Address : completionStates'[b] = "invited" => completionStates[b] = "invited"
        BY <2>1, <3>2 DEF InviteInv, Data, Phase, Resting, InvitedIsTrue
      <4> QED BY <2>1, <2>2, <3>3, <4>1 DEF InviteInv, InvitedIsTrue
    <3> QED BY <3>3, <3>4, <3>5, <3>6, Zenon DEF InviteInv
  <2> QED BY <2>3, <2>4, Zenon DEF InviteFailed
<1>1. Init => InviteInv
  <2> SUFFICES ASSUME Init PROVE InviteInv
    OBVIOUS
  <2>1. Booleans
    BY Zenon DEF Init, Booleans
  <2>2. Data
    BY InviterAssumption DEF InviterAssumption, Init, Data, NoCall, Call, State, ErrCode, Phase, Promise
  <2>3. Resting /\ OneAtATime /\ OnlyUnknowns /\ InvitedRests /\ UnknownsFailed
    BY DEF Init, NoCall, Resting, OneAtATime, OnlyUnknowns, InvitedRests, UnknownsFailed
  <2>4. InvitedIsTrue /\ InvalidMarked /\ Reached
    BY DEF Init, InvitedIsTrue, InvalidMarked, Reached, ToSet
  <2> QED BY <2>1, <2>2, <2>3, <2>4 DEF InviteInv
<1>2. InviteInv /\ [Next]_vars => InviteInv'
  <2> SUFFICES ASSUME InviteInv, [Next]_vars PROVE InviteInv'
    OBVIOUS
  <2>1. CASE Invite
    BY <2>1, <1>InviteKeeps
  <2>2. CASE Cancel
    BY <2>2, <1>CancelKeeps
  <2>3. CASE OnInviteAnyways
    BY <2>3, <1>OnInviteAnywaysKeeps
  <2>4. CASE OnGiveUp
    BY <2>4, <1>OnGiveUpKeeps
  <2>7. CASE OnBackgroundClick
    BY <2>7, <1>OnBackgroundClickKeeps
  <2>5. ASSUME NEW a \in Address, Answered(a) \/ LimitExceeded(a) PROVE InviteInv'
    <3>1. CASE ProfileAnswered(a) \/ InviteWithoutProfile(a) \/ LimitExceeded(a) \/ TriedAgain(a)
      BY <3>1, <1>CallGoesOn
    <3>2. CASE InviteAccepted(a)
      BY <3>2, <1>InviteAcceptedKeeps
    <3>3. ASSUME NEW err \in Failure, InviteFailed(a, err) PROVE InviteInv'
      BY <3>3, <1>InviteFailedKeeps
    <3> QED BY <2>5, <3>1, <3>2, <3>3, Zenon DEF Answered
  <2>6. CASE UNCHANGED vars
    <3>1. Booleans'
      BY <2>6, Zenon DEF vars, InviteInv, Booleans
    <3>2. /\ calls' = calls /\ canceled' = canceled /\ accepted' = accepted /\ deferred' = deferred
          /\ limits' = limits /\ UNCHANGED <<addresses, busy, fatal, completionStates, errors, phase, next,
                                            unknowns, prompt, gaveUp, refused>>
      BY <2>6, Zenon DEF vars
    <3>3. /\ calls' \in [Address -> Call] /\ accepted' \subseteq Address /\ accepted \subseteq accepted'
          /\ limits' \in 0 .. MaxLimits /\ \A a \in Address : calls[a].at = "none" => calls'[a].at = "none"
      BY <3>2 DEF InviteInv, Data
    <3>4. canceled' \in BOOLEAN /\ deferred' \in {deferred, "rejected"}
      BY <3>1, <3>2, Zenon DEF Booleans
    <3> QED BY <3>2, <3>3, <3>4, <1>StaysSo, Zenon
  <2> QED BY <2>1, <2>2, <2>3, <2>4, <2>5, <2>6, <2>7, Zenon DEF Next
<1> QED BY <1>1, <1>2, PTL DEF Spec

(* Every variable of the model keeps its type. *)
THEOREM InviterTypeCorrect == Spec => []TypeOK
<1>1. InviteInv => TypeOK
  BY Zenon DEF InviteInv, Booleans, Data, TypeOK, State, Promise, Phase, Call
<1> QED BY <1>1, InviteInvariant, PTL

(* The promise that invite returns resolves to states that are true: the   *)
(* invitations of the series and of Promise.all are all answered then.     *)
THEOREM ToldTheTruth == Spec => []ResolvedIsTrue
<1>1. InviteInv => ResolvedIsTrue
  <2>1. ASSUME InviteInv, deferred = "resolved" PROVE ResolvedIsTrue
    <3>1. phase = "over"
      BY <2>1 DEF InviteInv, Reached
    <3>2. \A a \in Address : completionStates[a] = "invited" => a \in accepted \cup gaveUp
      BY <2>1 DEF InviteInv, InvitedIsTrue
    <3>3. \A a \in Address : calls[a].at = "none"
      BY <2>1, <3>1 DEF InviteInv, Resting
    <3>4. fatal \/ \A a \in ToSet(addresses) : completionStates[a] # "none"
      BY <2>1, <3>1 DEF InviteInv, Reached
    <3> QED BY <3>2, <3>3, <3>4, Zenon DEF ResolvedIsTrue
  <2> QED BY <2>1 DEF ResolvedIsTrue
<1> QED BY <1>1, InviteInvariant, PTL

(* Nobody whose invitation was answered positively is asked again: who is  *)
(* shown as invited stays so, and InvitedRests holds before and after.     *)
THEOREM NobodyInvitedTwice == Spec => InvitedOnce
<1> DEFINE Rests == \A a \in Address : completionStates[a] = "invited" => calls[a].at = "none" /\ calls'[a].at = "none"
<1>1. ASSUME InviteInv, InviteInv', [Next]_vars PROVE [Rests]_vars
  <2>1. ASSUME NEW a \in Address, completionStates[a] = "invited" PROVE completionStates'[a] = "invited"
    <3>1. /\ completionStates \in [Address -> State] /\ calls[a].at = "none" /\ phase # "idle"
      BY <1>1, <2>1 DEF InviteInv, Data, InvitedRests, InvitedIsTrue
    <3>2. \/ completionStates' = completionStates
          \/ completionStates' = [b \in Address |-> IF b \in unknowns THEN "invited" ELSE completionStates[b]]
          \/ \E b \in Address : calls[b].at # "none" /\ completionStates' = [completionStates EXCEPT ![b] = "invited"]
          \/ \E b \in Address : calls[b].at # "none" /\ completionStates' = [completionStates EXCEPT ![b] = "error"]
      <4>1. CASE Invite
        BY <3>1, <4>1 DEF Invite
      <4>2. CASE Cancel \/ OnInviteAnyways \/ OnGiveUp \/ OnBackgroundClick \/ UNCHANGED vars
        BY <4>2, Zenon DEF Cancel, OnInviteAnyways, OnGiveUp, OnBackgroundClick, vars
      <4>3. ASSUME NEW b \in Address, Answered(b) \/ LimitExceeded(b)
            PROVE  \/ completionStates' = completionStates
                   \/ /\ calls[b].at \in {"profile", "invite"}
                      /\ \/ completionStates' = [completionStates EXCEPT ![b] = "invited"]
                         \/ completionStates' = [completionStates EXCEPT ![b] = "error"]
        BY <4>3, Zenon DEF Answered, LimitExceeded, ProfileAnswered, InviteAccepted, InviteFailed,
                           InviteWithoutProfile, TriedAgain, Ignored
      <4> QED BY <1>1, <4>1, <4>2, <4>3 DEF Next
    <3> QED BY <3>1, <3>2, <2>1
  <2> QED BY <1>1, <2>1 DEF InviteInv, InvitedRests
<1> QED BY <1>1, InviteInvariant, PTL DEF Spec, InvitedOnce

----------------------------------------------------------------------------
(* ROOM NAVIGATION *)

(* A payload that a handler may meet: a view of a room by its identifier,   *)
(* by its alias, or by both, which then belong together.                   *)
Fit ==
    {p \in Payloads :
        /\ p.room # None /\ p.alias # None => p.room = RoomOf[p.alias]
        /\ p.action = "view_room" => p.room # None \/ p.alias # None}
Unresolved == {p \in Fit : p.action = "view_room" /\ p.room = None /\ p.alias # None}
Resolved == {p \in Fit : p.action = "view_room" /\ p.room # None}

Names == Room \cup {None}
States == [roomId : Names, roomAlias : Alias \cup {None}, roomLoading : BOOLEAN, joining : BOOLEAN,
           subscribingRoomId : Names, replyingTo : Names]
Joins == [address : Names, roomId : Names, asked : Names]

(* Every payload is fit for what waits for it, and the alias that is shown *)
(* is one of the room that is shown.                                       *)
Payloaded ==
    /\ queue \in Seq(Fit) /\ lookups \in Seq(Unresolved) /\ subscribing \in Seq(Resolved)
    /\ state.roomId # None /\ state.roomAlias # None => state.roomId = RoomOf[state.roomAlias]

(* Where tasks do not pile up, a request to join is about the room shown.  *)
OneTask ==
    viewScenario.prompt =>
        /\ Len(queue) <= 1
        /\ queue # <<>> /\ Head(queue).action = "join_room" =>
              Head(queue).room # None /\ Head(queue).room = state.roomId

(* The room subscriptions follow subscribingRoomId, which the room that is *)
(* shown never leaves.                                                     *)
Subscribed ==
    viewScenario.sliding => /\ subscriptions = {state.subscribingRoomId} \ {None}
                            /\ state.roomId \in {None, state.subscribingRoomId}

(* AboutThisRoom in two parts. *)
Replying ==
    state.roomId # None /\ ~state.roomLoading => state.replyingTo \in {None, state.roomId}
Joining ==
    state.roomId # None /\ ~state.roomLoading /\ state.joining =>
        \/ state.roomId \in joined
        \/ \E k \in DOMAIN joins : joins[k].address = state.roomId
        \/ \E k \in DOMAIN queue : queue[k].action = "join_room_error"
Honest ==
    viewScenario.prompt => \A k \in DOMAIN joins : joins[k].address = joins[k].asked

(* The inductive invariant. *)
ViewInv == ViewTypeOK /\ Payloaded /\ OneTask /\ Subscribed /\ Replying /\ Joining /\ Honest

----------------------------------------------------------------------------
(* What is left of a sequence when one element is removed. *)
LEMMA Removed ==
    ASSUME NEW S, NEW s \in Seq(S), NEW i \in DOMAIN s
    PROVE  /\ s[i] \in S /\ RemoveAt(s, i) \in Seq(S) /\ Len(RemoveAt(s, i)) = Len(s) - 1
           /\ \A j \in DOMAIN RemoveAt(s, i) : \E k \in DOMAIN s : RemoveAt(s, i)[j] = s[k]
           /\ \A k \in DOMAIN s : k = i \/ \E j \in DOMAIN RemoveAt(s, i) : RemoveAt(s, i)[j] = s[k]
<1> DEFINE l == SubSeq(s, 1, i - 1)
           r == SubSeq(s, i + 1, Len(s))
<1>1. /\ l \in Seq(S) /\ Len(l) = i - 1 /\ \A j \in 1 .. (i - 1) : l[j] = s[j]
      /\ r \in Seq(S) /\ Len(r) = Len(s) - i /\ \A j \in 1 .. (Len(s) - i) : r[j] = s[i + j]
  OBVIOUS
<1> HIDE DEF l, r
<1>2. /\ RemoveAt(s, i) = l \o r
  BY DEF RemoveAt, l, r
<1>3. /\ l \o r \in Seq(S) /\ Len(l \o r) = Len(s) - 1
      /\ \A j \in 1 .. (Len(s) - 1) : (l \o r)[j] = IF j < i THEN s[j] ELSE s[j + 1]
  BY <1>1
<1> HIDE DEF l, r
<1>4. PICK c \in Seq(S) : c = RemoveAt(s, i)
  BY <1>2, <1>3
<1>5. /\ Len(c) = Len(s) - 1 /\ i \in 1 .. Len(s) /\ Len(s) \in Nat
      /\ DOMAIN c = 1 .. (Len(s) - 1) /\ DOMAIN s = 1 .. Len(s)
  BY <1>2, <1>3, <1>4
<1>6. \A j \in 1 .. (Len(s) - 1) : c[j] = IF j < i THEN s[j] ELSE s[j + 1]
  BY <1>2, <1>3, <1>4
<1>7. ASSUME NEW k \in DOMAIN s, k # i
      PROVE  \E j \in DOMAIN c : c[j] = s[k]
  <2>1. k \in 1 .. Len(s) /\ i \in 1 .. Len(s) /\ Len(s) \in Nat
    BY <1>5
  <2>2. CASE k < i
    <3>1. k \in 1 .. (Len(s) - 1) /\ c[k] = s[k]
      BY <1>6, <2>1, <2>2
    <3> QED BY <1>5, <3>1
  <2>3. CASE k > i
    <3>1. k - 1 \in 1 .. (Len(s) - 1) /\ ~(k - 1 < i) /\ k - 1 + 1 = k
      BY <2>1, <2>3
    <3>2. c[k - 1] = s[k]
      BY <1>6, <3>1
    <3> QED BY <1>5, <3>1, <3>2
  <2> QED BY <1>7, <2>1, <2>2, <2>3
<1>8. ASSUME NEW j \in DOMAIN c
      PROVE  \E k \in DOMAIN s : c[j] = s[k]
  <2>1. /\ j \in 1 .. (Len(s) - 1) /\ j \in 1 .. Len(s) /\ j + 1 \in 1 .. Len(s)
        /\ c[j] = s[j] \/ c[j] = s[j + 1]
    BY <1>5, <1>6
  <2> QED BY <1>5, <2>1
<1>9. s[i] \in S
  BY <1>5
<1>10. RemoveAt(s, i) = c
  BY <1>4
<1> QED BY <1>5, <1>7, <1>8, <1>9, <1>10

(* What the head of a queue leaves behind. *)
LEMMA Moved ==
    ASSUME NEW S, NEW s \in Seq(S), s # <<>>
    PROVE  /\ Head(s) \in S /\ Head(s) = s[1] /\ Tail(s) \in Seq(S) /\ Len(Tail(s)) = Len(s) - 1
           /\ Len(s) <= 1 => Tail(s) = <<>>
           /\ \A k \in DOMAIN s : k = 1 \/ (k - 1 \in DOMAIN Tail(s) /\ Tail(s)[k - 1] = s[k])
  OBVIOUS

(* What is added to one. *)
LEMMA Added ==
    ASSUME NEW S, NEW s \in Seq(S), NEW e \in S
    PROVE  /\ Append(s, e) \in Seq(S) /\ s \o <<e>> = Append(s, e) /\ s \o <<>> = s
           /\ Len(Append(s, e)) = Len(s) + 1 /\ Append(s, e)[Len(s) + 1] = e
           /\ s = <<>> => Head(Append(s, e)) = e
           /\ \A k \in DOMAIN s : k \in DOMAIN Append(s, e) /\ Append(s, e)[k] = s[k]
  OBVIOUS

(* The payloads that are dispatched are fit. *)
LEMMA Made ==
    /\ \A r \in Room, j \in BOOLEAN : \E p \in Fit :
          p = [Payload("view_room", r) EXCEPT !.autoJoin = j] /\ p.action = "view_room" /\ p.room = r
    /\ \A al \in Alias : \E p \in Fit :
          /\ p = [Payload("view_room", None) EXCEPT !.alias = al]
          /\ p.action = "view_room" /\ p.room = None /\ p.alias = al
    /\ \E p \in Fit : p = Payload("view_home_page", None) /\ p.action = "view_home_page"
    /\ \A r \in Names : \E p \in Fit :
          p = Payload("join_room", r) /\ p.action = "join_room" /\ p.room = r
    /\ \A r \in Names : \E p \in Fit :
          p = Payload("join_room_error", r) /\ p.action = "join_room_error"
    /\ \E p \in Fit : p = Payload("reply_to_event", None) /\ p.action = "reply_to_event" /\ p.reply = None
    /\ \A r \in Room : \E p \in Fit :
          /\ p = [Payload("reply_to_event", None) EXCEPT !.reply = r]
          /\ p.action = "reply_to_event" /\ p.reply = r
    /\ \A r \in Room : \E p \in Fit :
          p = [Payload("view_room", r) EXCEPT !.reply = r] /\ p.action = "view_room" /\ p.room = r
    /\ \A u \in Unresolved : \E p \in Fit :
          /\ p = [u EXCEPT !.room = RoomOf[u.alias]]
          /\ p.action = "view_room" /\ p.room = RoomOf[u.alias] /\ p.room # None
    /\ \A u \in Unresolved : \E p \in Fit :
          p = [u EXCEPT !.action = "view_room_error"] /\ p.action = "view_room_error"
<1> USE RoomViewAssumption DEF Names
<1>1. ASSUME NEW r \in Room, NEW j \in BOOLEAN
      PROVE  /\ [Payload("view_room", r) EXCEPT !.autoJoin = j] \in Fit
             /\ [Payload("view_room", r) EXCEPT !.autoJoin = j].action = "view_room"
             /\ [Payload("view_room", r) EXCEPT !.autoJoin = j].room = r
  BY DEF Payload, Fit, Payloads, Action
<1>2. ASSUME NEW al \in Alias
      PROVE  /\ [Payload("view_room", None) EXCEPT !.alias = al] \in Fit
             /\ [Payload("view_room", None) EXCEPT !.alias = al].action = "view_room"
             /\ [Payload("view_room", None) EXCEPT !.alias = al].room = None
             /\ [Payload("view_room", None) EXCEPT !.alias = al].alias = al
  BY DEF Payload, Fit, Payloads, Action
<1>3. Payload("view_home_page", None) \in Fit /\ Payload("view_home_page", None).action = "view_home_page"
  BY DEF Payload, Fit, Payloads, Action
<1>4. ASSUME NEW r \in Names
      PROVE  /\ Payload("join_room", r) \in Fit /\ Payload("join_room_error", r) \in Fit
             /\ Payload("join_room", r).action = "join_room" /\ Payload("join_room", r).room = r
             /\ Payload("join_room_error", r).action = "join_room_error"
  BY DEF Payload, Fit, Payloads, Action
<1>5. ASSUME NEW r \in Room
      PROVE  /\ [Payload("reply_to_event", None) EXCEPT !.reply = r] \in Fit
             /\ [Payload("reply_to_event", None) EXCEPT !.reply = r].action = "reply_to_event"
             /\ [Payload("reply_to_event", None) EXCEPT !.reply = r].reply = r
  BY DEF Payload, Fit, Payloads, Action
<1>6. ASSUME NEW r \in Room
      PROVE  /\ [Payload("view_room", r) EXCEPT !.reply = r] \in Fit
             /\ [Payload("view_room", r) EXCEPT !.reply = r].action = "view_room"
             /\ [Payload("view_room", r) EXCEPT !.reply = r].room = r
  BY DEF Payload, Fit, Payloads, Action
<1>7. ASSUME NEW u \in Unresolved
      PROVE  /\ [u EXCEPT !.room = RoomOf[u.alias]] \in Fit
             /\ [u EXCEPT !.room = RoomOf[u.alias]].action = "view_room"
             /\ [u EXCEPT !.room = RoomOf[u.alias]].room = RoomOf[u.alias]
             /\ RoomOf[u.alias] # None
  BY DEF Unresolved, Fit, Payloads
<1>8. ASSUME NEW u \in Unresolved
      PROVE  /\ [u EXCEPT !.action = "view_room_error"] \in Fit
             /\ [u EXCEPT !.action = "view_room_error"].action = "view_room_error"
  BY DEF Unresolved, Fit, Payloads, Action
<1>9. \A r \in Room, j \in BOOLEAN : \E p \in Fit :
        p = [Payload("view_room", r) EXCEPT !.autoJoin = j] /\ p.action = "view_room" /\ p.room = r
  BY <1>1
<1>10. \A al \in Alias : \E p \in Fit :
        /\ p = [Payload("view_room", None) EXCEPT !.alias = al]
        /\ p.action = "view_room" /\ p.room = None /\ p.alias = al
  BY <1>2
<1>11. \E p \in Fit : p = Payload("view_home_page", None) /\ p.action = "view_home_page"
  BY <1>3
<1>12. \A r \in Names : \E p \in Fit :
        p = Payload("join_room", r) /\ p.action = "join_room" /\ p.room = r
  BY <1>4
<1>13. \A r \in Names : \E p \in Fit :
        p = Payload("join_room_error", r) /\ p.action = "join_room_error"
  BY <1>4
<1>14. \A r \in Room : \E p \in Fit :
        /\ p = [Payload("reply_to_event", None) EXCEPT !.reply = r]
        /\ p.action = "reply_to_event" /\ p.reply = r
  BY <1>5
<1>15. \A r \in Room : \E p \in Fit :
        p = [Payload("view_room", r) EXCEPT !.reply = r] /\ p.action = "view_room" /\ p.room = r
  BY <1>6
<1>16. \A u \in Unresolved : \E p \in Fit :
        /\ p = [u EXCEPT !.room = RoomOf[u.alias]]
        /\ p.action = "view_room" /\ p.room = RoomOf[u.alias] /\ p.room # None
  BY <1>7
<1>17. \A u \in Unresolved : \E p \in Fit :
        p = [u EXCEPT !.action = "view_room_error"] /\ p.action = "view_room_error"
  BY <1>8
<1>18. \E p \in Fit : p = Payload("reply_to_event", None) /\ p.action = "reply_to_event" /\ p.reply = None
  <2>1. /\ Payload("reply_to_event", None) \in Fit
        /\ Payload("reply_to_event", None).action = "reply_to_event"
        /\ Payload("reply_to_event", None).reply = None
    BY DEF Payload, Fit, Payloads, Action
  <2> QED BY <2>1
<1> QED BY <1>9, <1>10, <1>11, <1>12, <1>13, <1>14, <1>15, <1>16, <1>17, <1>18

----------------------------------------------------------------------------
(* The payloads that wait are fit for what waits for them, an alias that   *)
(* is shown is one of the room that is shown, sliding sync is subscribed   *)
(* to one room, and joins and replies are about the room that is shown: in *)
(* every interleaving of the user, the event queue and the answers.        *)
THEOREM ViewInvariance == ViewSpec => []ViewInv
<1>1. ViewInit => ViewInv
  <2> SUFFICES ASSUME ViewInit PROVE ViewInv
    OBVIOUS
  <2> USE DEF ViewInit, InitialState
  <2>1. ViewTypeOK
    BY RoomViewAssumption DEF ViewTypeOK
  <2>2. Payloaded /\ OneTask /\ Subscribed
    BY DEF Payloaded, OneTask, Subscribed
  <2>3. Replying /\ Joining /\ Honest
    BY DEF Replying, Joining, Honest
  <2> QED BY <2>1, <2>2, <2>3 DEF ViewInv
<1>2. \A T \in SUBSET Payloads : \A s \in Seq(T) : s \in Seq(Payloads)
  OBVIOUS
<1>3. Fit \subseteq Payloads /\ Unresolved \subseteq Fit /\ Resolved \subseteq Fit
  BY DEF Fit, Unresolved, Resolved
<1>Types. ASSUME Payloaded', state' \in States, joins' \in Seq(Joins), cache' \subseteq Alias,
                 subscriptions' \subseteq Room, joined' \subseteq Room, asked' \in Names,
                 viewCount' \in [Counted -> Nat], viewScenario' \in ViewScenarios
          PROVE  ViewTypeOK'
  BY <1>2, <1>3, <1>Types DEF Payloaded, ViewTypeOK, States, Joins, Names
<1>Once. ASSUME ViewInv, NEW what \in Counted, Once(what)
         PROVE  viewCount' \in [Counted -> Nat]
  BY <1>Once DEF ViewInv, ViewTypeOK, Once
(* A payload is dispatched. *)
<1>Queued. ASSUME ViewInv, Prompt, NEW p \in Fit, Dispatch(p), state' = state, viewScenario' = viewScenario,
                  p.action = "join_room" => p.room # None /\ p.room = state.roomId
           PROVE  /\ queue' \in Seq(Fit) /\ OneTask'
                  /\ \A k \in DOMAIN queue : k \in DOMAIN queue' /\ queue'[k] = queue[k]
  <2>1. queue \in Seq(Fit) /\ queue' = Append(queue, p)
    BY <1>Queued DEF ViewInv, Payloaded, Dispatch
  <2>2. /\ queue' \in Seq(Fit) /\ Len(queue') = Len(queue) + 1
        /\ queue = <<>> => Head(queue') = p
        /\ \A k \in DOMAIN queue : k \in DOMAIN queue' /\ queue'[k] = queue[k]
    BY <2>1, Added
  <2>3. OneTask'
    BY <1>Queued, <2>1, <2>2 DEF OneTask, Prompt
  <2> QED BY <2>2, <2>3
(* The payload at the head of the queue is handled. *)
<1>Handled. ASSUME ViewInv, queue # <<>>, viewScenario' = viewScenario,
                   \/ queue' = Tail(queue)
                   \/ \E p \in Fit :
                         /\ queue' = Append(Tail(queue), p)
                         /\ p.action = "join_room" => p.room # None /\ p.room = state'.roomId
            PROVE  /\ Head(queue) \in Fit /\ queue' \in Seq(Fit) /\ OneTask'
                   /\ \A k \in DOMAIN queue : k = 1 \/ \E j \in DOMAIN queue' : queue'[j] = queue[k]
                   /\ Head(queue) = queue[1]
  <2>1. PICK t \in Seq(Fit) : t = Tail(queue)
    BY <1>Handled, Moved DEF ViewInv, Payloaded
  <2>2. /\ Head(queue) \in Fit /\ Head(queue) = queue[1]
        /\ Len(queue) <= 1 => t = <<>>
        /\ \A k \in DOMAIN queue : k = 1 \/ (k - 1 \in DOMAIN t /\ t[k - 1] = queue[k])
    BY <1>Handled, <2>1, Moved DEF ViewInv, Payloaded
  <2>3. CASE queue' = t
    <3>1. OneTask'
      BY <1>Handled, <2>2, <2>3 DEF ViewInv, OneTask
    <3> QED BY <2>1, <2>2, <2>3, <3>1
  <2>4. ASSUME NEW p \in Fit, queue' = Append(t, p),
               p.action = "join_room" => p.room # None /\ p.room = state'.roomId
        PROVE  /\ queue' \in Seq(Fit) /\ OneTask'
               /\ \A k \in DOMAIN queue : k = 1 \/ \E j \in DOMAIN queue' : queue'[j] = queue[k]
    <3>1. /\ queue' \in Seq(Fit)
          /\ t = <<>> => Head(queue') = p /\ Len(queue') = 1
          /\ \A k \in DOMAIN t : k \in DOMAIN queue' /\ queue'[k] = t[k]
      BY <2>4, Added
    <3>2. OneTask'
      BY <1>Handled, <2>2, <2>4, <3>1 DEF ViewInv, OneTask
    <3> QED BY <2>2, <3>1, <3>2
  <2> QED BY <1>Handled, <2>1, <2>2, <2>3, <2>4
(* The user goes somewhere, and what the user does. *)
<1>Rest. ASSUME ViewInv, UNCHANGED <<state, joins, subscriptions, joined, viewScenario>>,
                \A k \in DOMAIN queue : \E j \in DOMAIN queue' : queue'[j] = queue[k]
         PROVE  Subscribed' /\ Replying' /\ Joining' /\ Honest'
  <2>1. Subscribed' /\ Replying' /\ Honest'
    BY <1>Rest DEF ViewInv, Subscribed, Replying, Honest
  <2>2. Joining'
    BY <1>Rest DEF ViewInv, Joining
  <2> QED BY <2>1, <2>2
<1>Clicked. ASSUME ViewInv, NEW p \in Fit, Dispatch(p), NEW what \in Counted, Once(what), MayAct,
                   asked' \in Names, UNCHANGED <<state, async, joined, viewScenario>>,
                   p.action = "join_room" => p.room # None /\ p.room = state.roomId
            PROVE  ViewInv'
  <2>1. /\ Prompt /\ UNCHANGED <<cache, lookups, subscribing, subscriptions, joins>>
        /\ viewCount' \in [Counted -> Nat]
    BY <1>Clicked, <1>Once DEF MayAct, async
  <2>2. /\ queue' \in Seq(Fit) /\ OneTask'
        /\ \A k \in DOMAIN queue : \E j \in DOMAIN queue' : queue'[j] = queue[k]
    BY <1>Clicked, <2>1, <1>Queued
  <2>3. Subscribed' /\ Replying' /\ Joining' /\ Honest'
    BY <1>Clicked, <2>1, <2>2, <1>Rest
  <2>4. Payloaded'
    BY <1>Clicked, <2>1, <2>2 DEF ViewInv, Payloaded
  <2>5. ViewTypeOK'
    BY <1>Clicked, <2>1, <2>4, <1>Types DEF ViewInv, ViewTypeOK, States, Joins, Names
  <2> QED BY <2>2, <2>3, <2>4, <2>5 DEF ViewInv
<1>ClickRoom. ASSUME ViewInv, NEW r \in Room, ClickRoom(r) PROVE ViewInv'
  <2>1. PICK j \in BOOLEAN : Goes(r, [Payload("view_room", r) EXCEPT !.autoJoin = j])
    BY <1>ClickRoom DEF ClickRoom
  <2>2. PICK p \in Fit : p = [Payload("view_room", r) EXCEPT !.autoJoin = j] /\ p.action = "view_room"
    BY Made
  <2> QED BY <1>ClickRoom, <2>1, <2>2, <1>Clicked DEF ClickRoom, Goes, Counted, Names
<1>ClickAlias. ASSUME ViewInv, NEW al \in Alias, ClickAlias(al) PROVE ViewInv'
  <2>1. PICK p \in Fit : p = [Payload("view_room", None) EXCEPT !.alias = al] /\ p.action = "view_room"
    BY Made
  <2>2. RoomOf[al] \in Room
    BY RoomViewAssumption
  <2> QED BY <1>ClickAlias, <2>1, <2>2, <1>Clicked DEF ClickAlias, Goes, Counted, Names
<1>ClickHome. ASSUME ViewInv, ClickHome PROVE ViewInv'
  <2>1. PICK p \in Fit : p = Payload("view_home_page", None) /\ p.action = "view_home_page"
    BY Made
  <2> QED BY <1>ClickHome, <2>1, <1>Clicked DEF ClickHome, Goes, Counted, Names
<1>ClickJoin. ASSUME ViewInv, ClickJoin PROVE ViewInv'
  <2>1. state.roomId \in Names /\ asked \in Names /\ state.roomId # None
    BY <1>ClickJoin DEF ViewInv, ViewTypeOK, Names, ClickJoin
  <2>2. PICK p \in Fit : p = Payload("join_room", state.roomId) /\ p.room = state.roomId
    BY <2>1, Made
  <2> QED BY <1>ClickJoin, <2>1, <2>2, <1>Clicked DEF ClickJoin, Counted
<1>ClickReply. ASSUME ViewInv, NEW r \in Room, ClickReply(r) PROVE ViewInv'
  <2>1. PICK p \in Fit : p = [Payload("reply_to_event", None) EXCEPT !.reply = r] /\ p.action = "reply_to_event"
    BY Made
  <2> QED BY <1>ClickReply, <2>1, <1>Clicked DEF ClickReply, Counted, Names
<1>EndReply. ASSUME ViewInv, EndReply PROVE ViewInv'
  <2>1. PICK p \in Fit : p = Payload("reply_to_event", None) /\ p.action = "reply_to_event"
    BY Made
  <2>2. asked' \in Names
    BY <1>EndReply DEF EndReply, ViewInv, ViewTypeOK, Names
  <2> QED BY <1>EndReply, <2>1, <2>2, <1>Clicked DEF EndReply, Counted
(* The handlers of the store. *)
<1>5. ASSUME ViewInv PROVE /\ state \in States /\ joins \in Seq(Joins) /\ cache \subseteq Alias
                        /\ subscriptions \subseteq Room /\ joined \subseteq Room /\ asked \in Names
                        /\ viewCount \in [Counted -> Nat] /\ viewScenario \in ViewScenarios
                        /\ queue \in Seq(Fit) /\ lookups \in Seq(Unresolved)
                        /\ subscribing \in Seq(Resolved)
  BY <1>5 DEF ViewInv, ViewTypeOK, States, Joins, Names, Payloaded
<1>6. ASSUME NEW p \in Fit, p.action = "view_room", p.room # None
      PROVE  /\ p \in Resolved /\ p.room \in Room /\ p.alias \in Alias \cup {None}
             /\ p.alias # None => p.room = RoomOf[p.alias]
  BY <1>6 DEF Fit, Resolved, Payloads
<1>Subscribe. ASSUME ViewInv, Subscribe PROVE ViewInv'
  <2> DEFINE p == Head(queue)
  <2> USE <1>Subscribe
  <2>1. /\ queue # <<>> /\ p.action = "view_room" /\ p.room # None
        /\ viewScenario.sliding
        /\ subscriptions' = Resubscribed(state.subscribingRoomId, p.room)
        /\ state' = [state EXCEPT !.subscribingRoomId = p.room, !.roomId = p.room,
                                  !.roomAlias = None, !.roomLoading = TRUE]
        /\ subscribing' = Append(subscribing, p)
        /\ queue' = Tail(queue)
        /\ UNCHANGED <<cache, lookups, joins, joined, asked, viewCount, viewScenario>>
    BY DEF Subscribe, Dispatching, Keep
  <2>2. /\ p \in Fit /\ queue' \in Seq(Fit) /\ OneTask'
    BY <2>1, <1>Handled
  <2>3. p \in Resolved /\ p.room \in Room
    BY <2>1, <2>2, <1>6
  <2> HIDE DEF p
  <2>4. subscribing' \in Seq(Resolved)
    BY <2>1, <2>3, <1>5, Added
  <2>5. /\ state' \in States /\ state'.roomId = p.room /\ state'.roomAlias = None
        /\ state'.roomLoading /\ state'.subscribingRoomId = p.room
    BY <2>1, <2>3, <1>5 DEF States, Names
  <2>6. subscriptions' = {p.room}
    BY <2>1, <1>5 DEF ViewInv, Subscribed, Resubscribed, States
  <2>7. Payloaded'
    BY <2>1, <2>2, <2>4, <2>5, <1>5 DEF Payloaded
  <2>8. ViewTypeOK'
    BY <2>1, <2>3, <2>5, <2>6, <2>7, <1>5, <1>Types
  <2>9. Subscribed' /\ Replying' /\ Joining'
    BY <2>3, <2>5, <2>6, RoomViewAssumption DEF Subscribed, Replying, Joining
  <2>10. Honest'
    BY <2>1 DEF ViewInv, Honest
  <2> QED BY <2>2, <2>7, <2>8, <2>9, <2>10 DEF ViewInv
<1>ViewRoom. ASSUME ViewInv, ViewRoom PROVE ViewInv'
  <2> DEFINE p == Head(queue)
  <2> USE <1>ViewRoom
  <2>1. /\ queue # <<>> /\ p.action = "view_room" /\ p.room # None
        /\ viewScenario.sliding => state.roomId = p.room
        /\ state' = [state EXCEPT !.roomId = p.room, !.roomAlias = p.alias, !.roomLoading = FALSE,
                                  !.joining = FALSE, !.replyingTo = ReplyIn(p)]
        /\ queue' = Tail(queue) \o (IF p.autoJoin THEN << Payload("join_room", p.room) >> ELSE <<>>)
        /\ UNCHANGED <<cache, lookups, subscribing, subscriptions, joins>>
        /\ UNCHANGED <<joined, asked, viewCount, viewScenario>>
    BY DEF ViewRoom, Dispatching, Keep, async
  <2>2. /\ p \in Fit /\ Tail(queue) \in Seq(Fit)
    BY <2>1, <1>5, Moved
  <2>3. /\ p.room \in Room /\ p.alias \in Alias \cup {None}
        /\ p.alias # None => p.room = RoomOf[p.alias]
    BY <2>1, <2>2, <1>6
  <2>4. ReplyIn(p) \in {None, p.room}
    BY <2>3, <1>5 DEF ReplyIn, States
  <2>5. /\ state' \in States /\ state'.roomId = p.room /\ state'.roomAlias = p.alias
        /\ ~state'.joining /\ state'.subscribingRoomId = state.subscribingRoomId
        /\ state'.replyingTo = ReplyIn(p)
    <3> HIDE DEF p
    <3> QED BY <2>1, <2>3, <2>4, <1>5 DEF States, Names
  <2>6. /\ Payload("join_room", p.room) \in Fit /\ Payload("join_room", p.room).room = p.room
    BY <2>3, Made DEF Names
  <2>7. \/ queue' = Tail(queue)
        \/ queue' = Append(Tail(queue), Payload("join_room", p.room))
    BY <2>1, <2>2, <2>6, Added
  <2>8. queue' \in Seq(Fit) /\ OneTask'
    BY <2>1, <2>3, <2>5, <2>6, <2>7, <1>Handled, RoomViewAssumption
  <2> HIDE DEF p
  <2>9. Payloaded'
    BY <2>1, <2>3, <2>5, <2>8, <1>5 DEF Payloaded
  <2>10. ViewTypeOK'
    BY <2>1, <2>5, <2>9, <1>5, <1>Types
  <2>11. Subscribed'
    BY <2>1, <2>5 DEF ViewInv, Subscribed
  <2>12. Replying' /\ Joining'
    BY <2>4, <2>5 DEF Replying, Joining
  <2>13. Honest'
    BY <2>1 DEF ViewInv, Honest
  <2> QED BY <2>8, <2>9, <2>10, <2>11, <2>12, <2>13 DEF ViewInv
<1>ViewAlias. ASSUME ViewInv, ViewAlias PROVE ViewInv'
  <2> DEFINE p == Head(queue)
  <2> USE <1>ViewAlias
  <2>1. /\ queue # <<>> /\ p.action = "view_room" /\ p.room = None
        /\ UNCHANGED <<cache, subscribing, subscriptions, joins, joined, asked, viewCount, viewScenario>>
        /\ \/ /\ queue' = Append(Tail(queue), [p EXCEPT !.room = RoomOf[p.alias]])
              /\ UNCHANGED <<state, lookups>>
           \/ /\ state' = [state EXCEPT !.roomId = None, !.roomAlias = p.alias, !.roomLoading = TRUE]
              /\ lookups' = Append(lookups, p) /\ queue' = Tail(queue)
    BY DEF ViewAlias, Dispatching, Keep
  <2>2. /\ p \in Fit /\ p = queue[1]
    BY <2>1, <1>5, Moved
  <2>3. /\ p \in Unresolved /\ p.alias \in Alias /\ RoomOf[p.alias] \in Room
    BY <2>1, <2>2, RoomViewAssumption DEF Fit, Unresolved, Payloads
  <2>4. [p EXCEPT !.room = RoomOf[p.alias]] \in Fit /\ [p EXCEPT !.room = RoomOf[p.alias]].action = "view_room"
    <3> HIDE DEF p
    <3> QED BY <2>1, <2>3, <1>3, RoomViewAssumption DEF Unresolved, Fit, Payloads
  <2>5. /\ queue' \in Seq(Fit) /\ OneTask'
        /\ \A k \in DOMAIN queue : k = 1 \/ \E j \in DOMAIN queue' : queue'[j] = queue[k]
    BY <2>1, <2>4, <1>Handled
  <2> HIDE DEF p
  <2>6. lookups' \in Seq(Unresolved)
    <3>1. lookups \in Seq(Unresolved) /\ Append(lookups, p) \in Seq(Unresolved)
      BY <2>3, <1>5, Added
    <3>2. lookups' = lookups \/ lookups' = Append(lookups, p)
      BY <2>1
    <3> QED BY <3>1, <3>2
  <2>7. CASE UNCHANGED state
    <3>1. Payloaded'
      BY <2>1, <2>5, <2>6, <2>7, <1>5 DEF ViewInv, Payloaded
    <3>2. ViewTypeOK'
      BY <2>1, <2>7, <3>1, <1>5, <1>Types
    <3>3. Subscribed' /\ Replying' /\ Honest'
      BY <2>1, <2>7 DEF ViewInv, Subscribed, Replying, Honest
    <3>4. Joining'
      BY <2>1, <2>2, <2>5, <2>7 DEF ViewInv, Joining
    <3> QED BY <2>5, <3>1, <3>2, <3>3, <3>4 DEF ViewInv
  <2>8. CASE state' = [state EXCEPT !.roomId = None, !.roomAlias = p.alias, !.roomLoading = TRUE]
    <3>1. /\ state' \in States /\ state'.roomId = None
          /\ state'.subscribingRoomId = state.subscribingRoomId
      BY <2>3, <2>8, <1>5 DEF States, Names
    <3>2. Payloaded'
      BY <2>1, <2>5, <2>6, <3>1, <1>5 DEF Payloaded
    <3>3. ViewTypeOK'
      BY <2>1, <3>1, <3>2, <1>5, <1>Types
    <3>4. Subscribed' /\ Replying' /\ Joining' /\ Honest'
      BY <2>1, <3>1 DEF ViewInv, Subscribed, Replying, Joining, Honest
    <3> QED BY <2>5, <3>2, <3>3, <3>4 DEF ViewInv
  <2> QED BY <2>1, <2>7, <2>8
(* A handler that leaves the room that is shown, or changes only what is   *)
(* said about it.                                                          *)
<1>Elsewhere. ASSUME ViewInv, queue # <<>>, queue' = Tail(queue), UNCHANGED async, Keep,
                     state' \in States, state'.subscribingRoomId = state.subscribingRoomId,
                     \/ state'.roomId = None
                     \/ /\ state'.roomId = state.roomId /\ state'.roomAlias = state.roomAlias
                        /\ state'.roomLoading = state.roomLoading /\ ~state'.joining
                        /\ state'.replyingTo = state.replyingTo
                     \/ /\ state'.roomId = state.roomId /\ state'.roomAlias = state.roomAlias
                        /\ state'.roomLoading = state.roomLoading /\ state'.joining = state.joining
                        /\ state'.replyingTo \in {None, state.roomId}
                        /\ Head(queue).action # "join_room_error"
              PROVE  ViewInv'
  <2>1. /\ UNCHANGED <<cache, lookups, subscribing, subscriptions, joins>>
        /\ UNCHANGED <<joined, asked, viewCount, viewScenario>>
    BY <1>Elsewhere DEF async, Keep
  <2>2. /\ Head(queue) = queue[1] /\ queue' \in Seq(Fit) /\ OneTask'
        /\ \A k \in DOMAIN queue : k = 1 \/ \E j \in DOMAIN queue' : queue'[j] = queue[k]
    BY <1>Elsewhere, <2>1, <1>Handled
  <2>3. Payloaded'
    BY <1>Elsewhere, <2>1, <2>2 DEF ViewInv, Payloaded
  <2>4. ViewTypeOK'
    BY <1>Elsewhere, <2>1, <2>3, <1>5, <1>Types
  <2>5. Subscribed' /\ Replying' /\ Honest'
    BY <1>Elsewhere, <2>1 DEF ViewInv, Subscribed, Replying, Honest
  <2>6. Joining'
    <3>1. CASE state'.roomId = None \/ ~state'.joining
      BY <3>1 DEF Joining
    <3>2. CASE state'.roomId = state.roomId /\ state'.roomLoading = state.roomLoading
               /\ state'.joining = state.joining /\ Head(queue).action # "join_room_error"
      BY <1>Elsewhere, <2>1, <2>2, <3>2 DEF ViewInv, Joining
    <3> QED BY <1>Elsewhere, <3>1, <3>2
  <2> QED BY <2>2, <2>3, <2>4, <2>5, <2>6 DEF ViewInv
<1>ViewRoomError. ASSUME ViewInv, ViewRoomError PROVE ViewInv'
  <2>1. /\ queue # <<>> /\ queue' = Tail(queue) /\ UNCHANGED async /\ Keep
        /\ state' = [state EXCEPT !.roomId = None, !.roomAlias = Head(queue).alias, !.roomLoading = FALSE]
    BY <1>ViewRoomError DEF ViewRoomError, Dispatching
  <2>2. Head(queue).alias \in Alias \cup {None}
    <3>1. Head(queue) \in Fit
      BY <1>ViewRoomError, <2>1, <1>5, Moved
    <3> QED BY <3>1 DEF Fit, Payloads
  <2>3. state' \in States /\ state'.roomId = None /\ state'.subscribingRoomId = state.subscribingRoomId
    BY <1>ViewRoomError, <2>1, <2>2, <1>5 DEF States, Names
  <2> QED BY <1>ViewRoomError, <2>1, <2>3, <1>Elsewhere
<1>ViewHomePage. ASSUME ViewInv, ViewHomePage PROVE ViewInv'
  <2>1. /\ queue # <<>> /\ queue' = Tail(queue) /\ UNCHANGED async /\ Keep
        /\ state' = [state EXCEPT !.roomId = None, !.roomAlias = None]
    BY <1>ViewHomePage DEF ViewHomePage, Dispatching
  <2>2. state' \in States /\ state'.roomId = None /\ state'.subscribingRoomId = state.subscribingRoomId
    BY <1>ViewHomePage, <2>1, <1>5 DEF States, Names
  <2> QED BY <1>ViewHomePage, <2>1, <2>2, <1>Elsewhere
<1>JoinRoomError. ASSUME ViewInv, JoinRoomError PROVE ViewInv'
  <2>1. /\ queue # <<>> /\ queue' = Tail(queue) /\ UNCHANGED async /\ Keep
        /\ state' = [state EXCEPT !.joining = FALSE]
    BY <1>JoinRoomError DEF JoinRoomError, Dispatching
  <2>2. /\ state' \in States /\ ~state'.joining /\ state'.subscribingRoomId = state.subscribingRoomId
        /\ state'.roomId = state.roomId /\ state'.roomAlias = state.roomAlias
        /\ state'.roomLoading = state.roomLoading /\ state'.replyingTo = state.replyingTo
    BY <1>JoinRoomError, <2>1, <1>5 DEF States, Names
  <2> QED BY <1>JoinRoomError, <2>1, <2>2, <1>Elsewhere
<1>ReplyToEvent. ASSUME ViewInv, ReplyToEvent PROVE ViewInv'
  <2>1. /\ queue # <<>> /\ Head(queue).action = "reply_to_event" /\ UNCHANGED async /\ Keep
        /\ \/ /\ queue' = Append(Tail(queue), [Payload("view_room", Head(queue).reply)
                                                 EXCEPT !.reply = Head(queue).reply])
              /\ UNCHANGED state /\ Head(queue).reply # None
           \/ /\ state' = [state EXCEPT !.replyingTo = Head(queue).reply] /\ queue' = Tail(queue)
              /\ Head(queue).reply \in {None, state.roomId}
    BY <1>ReplyToEvent DEF ReplyToEvent, Dispatching
  <2>2. Head(queue).reply \in Names
    <3>1. Head(queue) \in Fit
      BY <1>ReplyToEvent, <2>1, <1>5, Moved
    <3> QED BY <2>1, <3>1 DEF Fit, Payloads, Names
  <2>3. CASE /\ UNCHANGED state /\ Head(queue).reply # None
             /\ queue' = Append(Tail(queue), [Payload("view_room", Head(queue).reply)
                                                EXCEPT !.reply = Head(queue).reply])
    <3>1. PICK p \in Fit : queue' = Append(Tail(queue), p) /\ p.action = "view_room"
      BY <2>2, <2>3, Made DEF Names
    <3>2. /\ UNCHANGED <<cache, lookups, subscribing, subscriptions, joins>>
          /\ UNCHANGED <<joined, asked, viewCount, viewScenario>>
      BY <2>1 DEF async, Keep
    <3>3. /\ queue' \in Seq(Fit) /\ OneTask' /\ Head(queue) = queue[1]
          /\ \A k \in DOMAIN queue : k = 1 \/ \E j \in DOMAIN queue' : queue'[j] = queue[k]
      BY <1>ReplyToEvent, <2>1, <3>1, <3>2, <1>Handled
    <3>4. Payloaded'
      BY <1>ReplyToEvent, <2>3, <3>2, <3>3 DEF ViewInv, Payloaded
    <3>5. ViewTypeOK'
      BY <1>ReplyToEvent, <2>3, <3>2, <3>4, <1>5, <1>Types
    <3>6. Subscribed' /\ Replying' /\ Honest'
      BY <1>ReplyToEvent, <2>3, <3>2 DEF ViewInv, Subscribed, Replying, Honest
    <3>7. \A k \in DOMAIN queue : queue[k].action = "join_room_error" =>
             \E j \in DOMAIN queue' : queue'[j].action = "join_room_error"
      <4> SUFFICES ASSUME NEW k \in DOMAIN queue, queue[k].action = "join_room_error"
                   PROVE  \E j \in DOMAIN queue' : queue'[j].action = "join_room_error"
        OBVIOUS
      <4>1. k # 1
        BY <2>1, <3>3
      <4>2. PICK j \in DOMAIN queue' : queue'[j] = queue[k]
        BY <3>3, <4>1
      <4> QED BY <4>2
    <3>8. Joining'
      BY <1>ReplyToEvent, <2>3, <3>2, <3>7 DEF ViewInv, Joining
    <3> QED BY <3>3, <3>4, <3>5, <3>6, <3>8 DEF ViewInv
  <2>4. CASE state' = [state EXCEPT !.replyingTo = Head(queue).reply] /\ queue' = Tail(queue)
             /\ Head(queue).reply \in {None, state.roomId}
    <3>1. /\ state' \in States /\ state'.joining = state.joining
          /\ state'.subscribingRoomId = state.subscribingRoomId
          /\ state'.roomId = state.roomId /\ state'.roomAlias = state.roomAlias
          /\ state'.roomLoading = state.roomLoading /\ state'.replyingTo \in {None, state.roomId}
      BY <1>ReplyToEvent, <2>2, <2>4, <1>5 DEF States, Names
    <3> QED BY <1>ReplyToEvent, <2>1, <2>4, <3>1, <1>Elsewhere
  <2> QED BY <2>1, <2>3, <2>4
<1>JoinRoom. ASSUME ViewInv, JoinRoom PROVE ViewInv'
  <2> USE <1>JoinRoom
  <2> DEFINE j == [address |-> JoinTarget, roomId |-> state.roomId, asked |-> Head(queue).room]
  <2>1. /\ queue # <<>> /\ Head(queue).action = "join_room" /\ queue' = Tail(queue)
        /\ state' = [state EXCEPT !.joining = TRUE] /\ joins' = Append(joins, j)
        /\ UNCHANGED <<cache, lookups, subscribing, subscriptions, joined, asked, viewCount, viewScenario>>
    BY DEF JoinRoom, Dispatching, Keep
  <2>2. /\ Head(queue) = queue[1] /\ Head(queue) \in Fit
    BY <2>1, <1>5, Moved
  <2>3. Head(queue).room \in Names
    BY <2>2 DEF Fit, Payloads, Names
  <2>4. /\ state' \in States /\ state'.subscribingRoomId = state.subscribingRoomId
        /\ state'.roomId = state.roomId /\ state'.roomAlias = state.roomAlias
        /\ state'.roomLoading = state.roomLoading /\ state'.replyingTo = state.replyingTo
    BY <2>1, <1>5 DEF States, Names
  <2>5. JoinTarget \in Names /\ (state.roomId # None => JoinTarget = state.roomId)
    BY <1>5, RoomViewAssumption DEF JoinTarget, ViewInv, Payloaded, States, Names
  <2>6. j \in Joins /\ j.address = JoinTarget /\ j.asked = Head(queue).room
    BY <2>3, <2>5, <1>5 DEF Joins, States
  <2> HIDE DEF j
  <2>7. /\ joins' \in Seq(Joins) /\ Len(joins') = Len(joins) + 1 /\ joins'[Len(joins) + 1] = j
        /\ \A k \in DOMAIN joins : k \in DOMAIN joins' /\ joins'[k] = joins[k]
        /\ DOMAIN joins' = 1 .. (Len(joins) + 1) /\ DOMAIN joins = 1 .. Len(joins)
        /\ Len(joins) \in Nat
    BY <2>1, <2>6, <1>5, Added
  <2>8. queue' \in Seq(Fit) /\ OneTask'
    BY <2>1, <1>Handled
  <2>9. Payloaded'
    BY <2>1, <2>4, <2>8, <1>5 DEF ViewInv, Payloaded
  <2>10. ViewTypeOK'
    BY <2>1, <2>4, <2>7, <2>9, <1>5, <1>Types
  <2>11. Subscribed' /\ Replying'
    BY <2>1, <2>4 DEF ViewInv, Subscribed, Replying
  <2>12. Joining'
    <3>1. Len(joins) + 1 \in DOMAIN joins' /\ joins'[Len(joins) + 1].address = JoinTarget
      BY <2>6, <2>7
    <3> QED BY <2>4, <2>5, <3>1 DEF Joining
  <2>13. Honest'
    <3>1. viewScenario.prompt => j.address = j.asked
      BY <2>1, <2>5, <2>6 DEF ViewInv, OneTask
    <3>2. \A k \in DOMAIN joins' : joins'[k] = j \/ (k \in DOMAIN joins /\ joins'[k] = joins[k])
      BY <2>7
    <3> QED BY <2>1, <3>1, <3>2 DEF ViewInv, Honest
  <2> QED BY <2>8, <2>9, <2>10, <2>11, <2>12, <2>13 DEF ViewInv
(* The answers. *)
<1>RoomVisible. ASSUME ViewInv, NEW i \in DOMAIN subscribing, RoomVisible(i) PROVE ViewInv'
  <2> USE <1>RoomVisible
  <2>1. /\ Prompt /\ subscribing' = RemoveAt(subscribing, i)
        /\ \/ Dispatch(subscribing[i]) /\ UNCHANGED subscriptions
           \/ /\ ~SubscribedTo(subscribing[i]) /\ subscriptions' = subscriptions \ {subscribing[i].room}
              /\ UNCHANGED queue
        /\ UNCHANGED <<state, cache, lookups, joins>>
        /\ UNCHANGED <<joined, asked, viewCount, viewScenario>>
    BY DEF RoomVisible, Keep
  <2>2. subscribing[i] \in Resolved /\ subscribing' \in Seq(Resolved)
    BY <2>1, <1>5, Removed
  <2>3. subscribing[i] \in Fit /\ subscribing[i].action # "join_room"
    BY <2>2 DEF Resolved
  <2>4. /\ queue' \in Seq(Fit) /\ OneTask'
        /\ \A k \in DOMAIN queue : \E j \in DOMAIN queue' : queue'[j] = queue[k]
    <3>1. CASE Dispatch(subscribing[i])
      BY <2>1, <2>3, <3>1, <1>Queued
    <3>2. CASE UNCHANGED queue
      BY <2>1, <3>2, <1>5 DEF ViewInv, OneTask
    <3> QED BY <2>1, <3>1, <3>2
  <2>5. Payloaded'
    BY <2>1, <2>2, <2>4, <1>5 DEF ViewInv, Payloaded
  <2>6. viewScenario.sliding => subscriptions' = subscriptions
    BY <2>1 DEF ViewInv, Subscribed, SubscribedTo
  <2>7. ViewTypeOK'
    BY <2>1, <2>5, <1>5, <1>Types
  <2>8. Subscribed' /\ Replying' /\ Honest'
    BY <2>1, <2>6 DEF ViewInv, Subscribed, Replying, Honest
  <2>9. Joining'
    BY <2>1, <2>4 DEF ViewInv, Joining
  <2> QED BY <2>4, <2>5, <2>7, <2>8, <2>9 DEF ViewInv
<1>LookedUp. ASSUME ViewInv, NEW i \in DOMAIN lookups, Prompt, lookups' = RemoveAt(lookups, i), NEW p \in Fit,
                    Dispatch(p), p.action # "join_room", cache' \subseteq Alias,
                    viewCount' \in [Counted -> Nat],
                    UNCHANGED <<state, subscribing, subscriptions, joins, joined, asked, viewScenario>>
             PROVE  ViewInv'
  <2> USE <1>LookedUp
  <2>1. lookups' \in Seq(Unresolved)
    BY <1>5, Removed
  <2>2. /\ queue' \in Seq(Fit) /\ OneTask'
        /\ \A k \in DOMAIN queue : \E j \in DOMAIN queue' : queue'[j] = queue[k]
    BY <1>Queued
  <2>3. Payloaded'
    BY <2>1, <2>2, <1>5 DEF ViewInv, Payloaded
  <2>4. ViewTypeOK'
    BY <2>3, <1>5, <1>Types
  <2>5. Subscribed' /\ Replying' /\ Joining' /\ Honest'
    BY <2>2, <1>Rest
  <2> QED BY <2>2, <2>3, <2>4, <2>5 DEF ViewInv
<1>RoomIdForAlias. ASSUME ViewInv, NEW i \in DOMAIN lookups, RoomIdForAlias(i) PROVE ViewInv'
  <2>1. lookups[i] \in Unresolved
    BY <1>RoomIdForAlias, <1>5, Removed
  <2>2. PICK p \in Fit : /\ p = [lookups[i] EXCEPT !.room = RoomOf[lookups[i].alias]]
                         /\ p.action = "view_room" /\ lookups[i].alias \in Alias
    <3>1. lookups[i].alias \in Alias
      BY <2>1 DEF Unresolved, Fit, Payloads
    <3> QED BY <2>1, <3>1, Made
  <2>3. /\ Prompt /\ cache' = cache \cup {lookups[i].alias} /\ lookups' = RemoveAt(lookups, i)
        /\ Dispatch([lookups[i] EXCEPT !.room = RoomOf[lookups[i].alias]])
        /\ UNCHANGED <<state, subscribing, subscriptions, joins, joined, asked, viewScenario, viewCount>>
    BY <1>RoomIdForAlias DEF RoomIdForAlias, Keep
  <2>4. cache' \subseteq Alias /\ viewCount' \in [Counted -> Nat]
    BY <1>RoomIdForAlias, <2>2, <2>3, <1>5
  <2> QED BY <1>RoomIdForAlias, <2>2, <2>3, <2>4, <1>LookedUp
<1>AliasNotFound. ASSUME ViewInv, NEW i \in DOMAIN lookups, AliasNotFound(i) PROVE ViewInv'
  <2>1. lookups[i] \in Unresolved
    BY <1>AliasNotFound, <1>5, Removed
  <2>2. PICK p \in Fit : /\ p = [lookups[i] EXCEPT !.action = "view_room_error"]
                         /\ p.action = "view_room_error"
    BY <2>1, Made
  <2>3. /\ Prompt /\ Once("faults") /\ lookups' = RemoveAt(lookups, i)
        /\ Dispatch([lookups[i] EXCEPT !.action = "view_room_error"])
        /\ UNCHANGED <<state, cache, subscribing, subscriptions, joins, joined, asked, viewScenario>>
    BY <1>AliasNotFound DEF AliasNotFound
  <2>4. cache' \subseteq Alias /\ viewCount' \in [Counted -> Nat]
    BY <1>AliasNotFound, <2>3, <1>5, <1>Once DEF Counted
  <2> QED BY <1>AliasNotFound, <2>2, <2>3, <2>4, <1>LookedUp
<1>JoinAnswered. ASSUME ViewInv, NEW i \in DOMAIN joins, JoinAnswered(i) PROVE ViewInv'
  <2> USE <1>JoinAnswered
  <2>1. /\ Prompt /\ joins' = RemoveAt(joins, i)
        /\ UNCHANGED <<state, cache, lookups, subscribing, subscriptions, asked, viewScenario>>
        /\ \/ /\ joins[i].address # None /\ joined' = joined \cup {joins[i].address}
              /\ UNCHANGED <<queue, viewCount>>
           \/ /\ Once("faults") /\ Dispatch(Payload("join_room_error", joins[i].roomId))
              /\ UNCHANGED joined
    BY DEF JoinAnswered
  <2>2. /\ joins[i] \in Joins /\ joins' \in Seq(Joins)
        /\ \A j \in DOMAIN joins' : \E k \in DOMAIN joins : joins'[j] = joins[k]
        /\ \A k \in DOMAIN joins : k = i \/ \E j \in DOMAIN joins' : joins'[j] = joins[k]
    BY <2>1, <1>5, Removed
  <2>3. joins[i].address \in Names /\ joins[i].roomId \in Names
    BY <2>2 DEF Joins
  <2>4. PICK p \in Fit : p = Payload("join_room_error", joins[i].roomId) /\ p.action = "join_room_error"
    BY <2>3, Made
  <2>5. /\ queue' \in Seq(Fit) /\ OneTask'
        /\ \A k \in DOMAIN queue : \E j \in DOMAIN queue' : queue'[j] = queue[k]
    <3>1. CASE UNCHANGED queue
      BY <2>1, <3>1, <1>5 DEF ViewInv, OneTask
    <3>2. CASE Dispatch(p)
      BY <2>1, <2>4, <3>2, <1>Queued
    <3> QED BY <2>1, <2>4, <3>1, <3>2
  <2>6. joined \subseteq joined' /\ joined' \subseteq Room
    BY <2>1, <2>3, <1>5 DEF Names
  <2>7. viewCount' \in [Counted -> Nat]
    BY <2>1, <1>5, <1>Once DEF Counted
  <2>8. Payloaded'
    BY <2>1, <2>5, <1>5 DEF ViewInv, Payloaded
  <2>9. ViewTypeOK'
    BY <2>1, <2>2, <2>6, <2>7, <2>8, <1>5, <1>Types
  <2>10. Subscribed' /\ Replying'
    BY <2>1 DEF ViewInv, Subscribed, Replying
  <2>11. Honest'
    BY <2>1, <2>2 DEF ViewInv, Honest
  <2>12. \/ joins[i].address \in joined'
         \/ \E j \in DOMAIN queue' : queue'[j].action = "join_room_error"
    <3>1. CASE joined' = joined \cup {joins[i].address}
      BY <3>1
    <3>2. CASE Dispatch(p)
      <4>1. queue' = Append(queue, p) /\ queue \in Seq(Fit)
        BY <3>2, <1>5 DEF Dispatch
      <4>2. Len(queue) + 1 \in DOMAIN queue' /\ queue'[Len(queue) + 1] = p
        BY <4>1
      <4> QED BY <2>4, <4>2
    <3> QED BY <2>1, <2>4, <3>1, <3>2
  <2>13. Joining'
    <3> SUFFICES ASSUME state.roomId # None, ~state.roomLoading, state.joining
                 PROVE  \/ state.roomId \in joined'
                        \/ \E k \in DOMAIN joins' : joins'[k].address = state.roomId
                        \/ \E k \in DOMAIN queue' : queue'[k].action = "join_room_error"
      BY <2>1 DEF Joining
    <3>1. CASE state.roomId \in joined
      BY <2>6, <3>1
    <3>2. ASSUME NEW k \in DOMAIN joins, joins[k].address = state.roomId
          PROVE  \/ state.roomId \in joined'
                 \/ \E j \in DOMAIN joins' : joins'[j].address = state.roomId
                 \/ \E j \in DOMAIN queue' : queue'[j].action = "join_room_error"
      <4>1. CASE k = i
        BY <2>12, <3>2, <4>1
      <4>2. CASE k # i
        BY <2>2, <3>2, <4>2
      <4> QED BY <4>1, <4>2
    <3>3. ASSUME NEW k \in DOMAIN queue, queue[k].action = "join_room_error"
          PROVE  \E j \in DOMAIN queue' : queue'[j].action = "join_room_error"
      <4>1. PICK j \in DOMAIN queue' : queue'[j] = queue[k]
        BY <2>5
      <4> QED BY <3>3, <4>1
    <3> QED BY <3>1, <3>2, <3>3 DEF ViewInv, Joining
  <2> QED BY <2>5, <2>8, <2>9, <2>10, <2>11, <2>13 DEF ViewInv
<1>8. ASSUME ViewInv, UNCHANGED viewVars PROVE ViewInv'
  BY <1>8 DEF ViewInv, viewVars, async, ViewTypeOK, Payloaded, OneTask, Subscribed, Replying, Joining, Honest
<1>9. ViewInv /\ [ViewNext]_viewVars => ViewInv'
  <2> SUFFICES ASSUME ViewInv, ViewNext PROVE ViewInv'
    BY <1>8
  <2> QED BY <1>ClickRoom, <1>ClickReply, <1>EndReply, <1>ClickAlias, <1>ClickHome, <1>ClickJoin, <1>Subscribe,
             <1>ViewRoom, <1>ViewAlias, <1>ViewRoomError, <1>ViewHomePage, <1>JoinRoom, <1>JoinRoomError,
             <1>ReplyToEvent, <1>RoomVisible, <1>RoomIdForAlias, <1>AliasNotFound, <1>JoinAnswered
             DEF ViewNext, OnDispatch
<1> QED BY <1>1, <1>9, PTL DEF ViewSpec

----------------------------------------------------------------------------
(* Every variable keeps its type. *)
THEOREM NavigationTypeCorrect == ViewSpec => []ViewTypeOK
<1>1. ViewInv => ViewTypeOK
  BY DEF ViewInv
<1> QED BY <1>1, ViewInvariance, PTL

(* With sliding sync the room that is shown is subscribed to and no other, *)
(* in fact at any time, not only when everything has been answered.        *)
THEOREM SubscribedToOne == ViewSpec => []OneSubscription
<1>1. ViewInv => OneSubscription
  BY DEF ViewInv, Subscribed, OneSubscription
<1> QED BY <1>1, ViewInvariance, PTL

(* Joins and replies are about the room that is shown. *)
THEOREM AboutTheRoom == ViewSpec => []AboutThisRoom
<1>1. ViewInv => AboutThisRoom
  <2> SUFFICES ASSUME ViewInv PROVE AboutThisRoom
    OBVIOUS
  <2>1. /\ \A k \in DOMAIN joins : joins[k] \in ToSet(joins)
        /\ \A j \in ToSet(joins) : \E k \in DOMAIN joins : j = joins[k]
    BY DEF ToSet
  <2>2. ASSUME state.roomId # None, ~state.roomLoading, state.joining
        PROVE  \/ state.roomId \in joined \cup {j.address : j \in ToSet(joins)}
               \/ \E i \in DOMAIN queue : queue[i].action = "join_room_error"
    BY <2>1, <2>2 DEF ViewInv, Joining
  <2> QED BY <2>1, <2>2 DEF ViewInv, AboutThisRoom, Replying, Honest
<1> QED BY <1>1, ViewInvariance, PTL

----------------------------------------------------------------------------
(* What LastViewWins assumes of the user and of the requests. *)
Attentive ==
    /\ viewScenario.prompt /\ viewScenario.patient /\ viewCount["faults"] = 0
    /\ ~viewScenario.sliding \/ viewCount["homes"] = 0

(* The room that a payload leads to. *)
Target(p) ==
    IF p.action = "reply_to_event" THEN p.reply
    ELSE IF p.action = "view_home_page" THEN None
    ELSE IF p.room = None THEN RoomOf[p.alias] ELSE p.room

(* A payload that leads nowhere. *)
Stays(p) == p.action = "join_room" \/ (p.action = "reply_to_event" /\ p.reply = None)

(* The room that the user asked for is what the one lookup under way leads *)
(* to, or else the payload in the queue, or else it is shown.  While an    *)
(* alias is looked up an older view may be fired again by its subscription. *)
Leads ==
    /\ queue # <<>> =>
          /\ Head(queue).action \notin {"view_room_error", "join_room_error"}
          /\ viewScenario.sliding => Head(queue).action # "view_home_page"
    /\ ~viewScenario.sliding => subscribing = <<>>
    /\ lookups # <<>> =>
          /\ Len(lookups) = 1 /\ RoomOf[lookups[1].alias] = asked
          /\ queue # <<>> => \/ Head(queue).action = "view_room" /\ Head(queue).room # None
                             \/ Stays(Head(queue))
    /\ lookups = <<>> /\ queue # <<>> /\ ~Stays(Head(queue)) =>
          Target(Head(queue)) = asked
    /\ lookups = <<>> /\ (queue = <<>> \/ Stays(Head(queue))) =>
          /\ state.roomId = asked
          /\ viewScenario.sliding => state.subscribingRoomId = asked

(* Under that assumption there is always one thing that leads to the room  *)
(* that the user asked for last.                                           *)
THEOREM LeadsThere == ViewSpec => [](Attentive => Leads)
<1>1. ViewInit => Leads
  BY DEF ViewInit, InitialState, Leads
<1>2. ASSUME ViewInv, viewCount' \in [Counted -> Nat], Attentive', viewScenario' = viewScenario,
             \A k \in Counted : viewCount[k] <= viewCount'[k]
      PROVE  Attentive
  BY <1>2 DEF Attentive, Counted, ViewInv, ViewTypeOK
<1>3. ASSUME ViewInv, NEW what \in Counted, Once(what)
      PROVE  /\ viewCount' \in [Counted -> Nat] /\ viewCount'[what] # 0
             /\ \A k \in Counted : viewCount[k] <= viewCount'[k]
  BY <1>3 DEF Counted, ViewInv, ViewTypeOK, Once
<1>4. ASSUME ViewInv
      PROVE  /\ queue \in Seq(Fit) /\ lookups \in Seq(Unresolved) /\ subscribing \in Seq(Resolved)
             /\ state \in States /\ asked \in Names
             /\ queue # <<>> => Head(queue) \in Fit
             /\ viewScenario.prompt => Tail(queue) = <<>> \/ queue = <<>>
  <2>1. queue \in Seq(Fit) /\ lookups \in Seq(Unresolved) /\ subscribing \in Seq(Resolved)
    BY <1>4 DEF ViewInv, Payloaded
  <2>2. state \in States /\ asked \in Names
    BY <1>4 DEF ViewInv, ViewTypeOK, States, Names
  <2>3. queue # <<>> => Head(queue) \in Fit /\ (Len(queue) <= 1 => Tail(queue) = <<>>)
    BY <2>1, Moved
  <2> QED BY <1>4, <2>1, <2>2, <2>3 DEF ViewInv, OneTask
<1>5. ASSUME NEW S, NEW p \in S
      PROVE  Append(<<>>, p) # <<>> /\ Head(Append(<<>>, p)) = p
  OBVIOUS
<1>6. ASSUME NEW S, NEW s \in Seq(S), Len(s) = 1, NEW i \in DOMAIN s
      PROVE  i = 1 /\ RemoveAt(s, i) = <<>>
  <2>1. i = 1
    BY <1>6
  <2>2. RemoveAt(s, i) \in Seq(S) /\ Len(RemoveAt(s, i)) = 0
    BY <1>6, Removed
  <2> QED BY <2>1, <2>2
(* The user acts. *)
<1>Acts. ASSUME ViewInv, Leads, Attentive, MayAct, NEW p \in Fit, Dispatch(p),
                UNCHANGED <<state, async, viewScenario>>,
                \/ p.action \in {"view_room", "view_home_page", "reply_to_event"} /\ ~Stays(p) /\ Target(p) = asked'
                \/ Stays(p) /\ asked' = asked,
                viewScenario.sliding => p.action # "view_home_page"
         PROVE  Leads'
  <2>1. queue = <<>> /\ lookups = <<>> /\ UNCHANGED <<lookups, subscribing>>
    BY <1>Acts DEF Attentive, MayAct, Prompt, async
  <2>2. queue' # <<>> /\ Head(queue') = p
    BY <1>Acts, <2>1, <1>5 DEF Dispatch
  <2>4. CASE Stays(p) /\ asked' = asked
    BY <1>Acts, <2>1, <2>2, <2>4 DEF Leads, Stays
  <2>5. CASE /\ p.action \in {"view_room", "view_home_page", "reply_to_event"}
             /\ ~Stays(p) /\ Target(p) = asked'
    <3>1. Target(Head(queue')) = asked'
      BY <2>2, <2>5
    <3> QED BY <1>Acts, <2>1, <2>2, <2>5, <3>1 DEF Leads
  <2> QED BY <1>Acts, <2>4, <2>5
<1>ClickRoom. ASSUME ViewInv, Leads, Attentive, NEW r \in Room, ClickRoom(r) PROVE Leads'
  <2>1. PICK j \in BOOLEAN : Goes(r, [Payload("view_room", r) EXCEPT !.autoJoin = j])
    BY <1>ClickRoom DEF ClickRoom
  <2>2. PICK p \in Fit : /\ p = [Payload("view_room", r) EXCEPT !.autoJoin = j]
                         /\ p.action = "view_room" /\ p.room = r
    BY Made
  <2>3. Target(p) = r /\ ~Stays(p)
    BY <2>2, RoomViewAssumption DEF Target, Stays
  <2> QED BY <1>ClickRoom, <2>1, <2>2, <2>3, <1>Acts DEF Goes
<1>ClickAlias. ASSUME ViewInv, Leads, Attentive, NEW al \in Alias, ClickAlias(al) PROVE Leads'
  <2>1. PICK p \in Fit : /\ p = [Payload("view_room", None) EXCEPT !.alias = al]
                         /\ p.action = "view_room" /\ p.room = None /\ p.alias = al
    BY Made
  <2>2. Target(p) = RoomOf[al] /\ ~Stays(p)
    BY <2>1 DEF Target, Stays
  <2> QED BY <1>ClickAlias, <2>1, <2>2, <1>Acts DEF ClickAlias, Goes
<1>ClickHome. ASSUME ViewInv, Leads, Attentive, Attentive', ClickHome PROVE Leads'
  <2>1. PICK p \in Fit : p = Payload("view_home_page", None) /\ p.action = "view_home_page"
    BY Made
  <2>2. Target(p) = None /\ ~Stays(p)
    BY <2>1 DEF Target, Stays
  <2>3. viewCount'["homes"] # 0
    BY <1>ClickHome, <1>3 DEF ClickHome, Counted
  <2>4. ~viewScenario.sliding
    BY <1>ClickHome, <2>3 DEF Attentive, ClickHome, Goes
  <2> QED BY <1>ClickHome, <2>1, <2>2, <2>4, <1>Acts DEF ClickHome, Goes
<1>EndReply. ASSUME ViewInv, Leads, Attentive, EndReply PROVE Leads'
  <2>1. PICK p \in Fit : p = Payload("reply_to_event", None) /\ p.action = "reply_to_event" /\ p.reply = None
    BY Made
  <2> QED BY <1>EndReply, <2>1, <1>Acts DEF EndReply, Stays
<1>ClickJoin. ASSUME ViewInv, Leads, Attentive, ClickJoin PROVE Leads'
  <2>1. PICK p \in Fit : p = Payload("join_room", state.roomId) /\ p.action = "join_room"
    BY <1>ClickJoin, <1>4, Made DEF States
  <2> QED BY <1>ClickJoin, <2>1, <1>Acts DEF ClickJoin, Stays
<1>ClickReply. ASSUME ViewInv, Leads, Attentive, NEW r \in Room, ClickReply(r) PROVE Leads'
  <2>1. PICK p \in Fit : /\ p = [Payload("reply_to_event", None) EXCEPT !.reply = r]
                         /\ p.action = "reply_to_event" /\ p.reply = r
    BY Made
  <2>2. Target(p) = r /\ ~Stays(p)
    BY <2>1, RoomViewAssumption DEF Target, Stays
  <2> QED BY <1>ClickReply, <2>1, <2>2, <1>Acts DEF ClickReply
(* The payload at the head of the queue, the only one, is handled. *)
<1>7. ASSUME ViewInv, Attentive, queue # <<>>
      PROVE  Tail(queue) = <<>> /\ Head(queue) \in Fit
  BY <1>7, <1>4 DEF Attentive
<1>Subscribe. ASSUME ViewInv, Leads, Attentive, Subscribe PROVE Leads'
  <2>1. PICK p \in Fit : p = Head(queue) /\ p.action = "view_room" /\ p.room # None
    BY <1>Subscribe, <1>7 DEF Subscribe, Dispatching
  <2>2. /\ queue' = <<>> /\ queue # <<>> /\ viewScenario.sliding
        /\ state' = [state EXCEPT !.subscribingRoomId = p.room, !.roomId = p.room,
                                  !.roomAlias = None, !.roomLoading = TRUE]
        /\ UNCHANGED <<lookups, asked, viewScenario>>
    BY <1>Subscribe, <1>7, <2>1 DEF Subscribe, Dispatching, Keep
  <2>3. state'.roomId = p.room /\ state'.subscribingRoomId = p.room
    BY <1>Subscribe, <1>4, <2>2 DEF States
  <2>4. lookups = <<>> => p.room = asked
    BY <1>Subscribe, <2>1, <2>2 DEF Leads, Target, Stays
  <2> QED BY <1>Subscribe, <2>2, <2>3, <2>4 DEF Leads
<1>ViewRoom. ASSUME ViewInv, Leads, Attentive, ViewRoom PROVE Leads'
  <2>1. PICK p \in Fit : p = Head(queue) /\ p.action = "view_room" /\ p.room # None
    BY <1>ViewRoom, <1>7 DEF ViewRoom, Dispatching
  <2>2. PICK q \in Fit : q = Payload("join_room", p.room) /\ q.action = "join_room"
    <3>1. p.room \in Names
      BY DEF Fit, Payloads, Names
    <3> QED BY <3>1, Made
  <2>3. /\ queue # <<>>
        /\ queue' = <<>> \/ (queue' # <<>> /\ Head(queue') = q)
    <3>1. /\ queue # <<>> /\ Tail(queue) = <<>>
          /\ queue' = Tail(queue) \o (IF p.autoJoin THEN <<q>> ELSE <<>>)
      BY <1>ViewRoom, <1>7, <2>1, <2>2 DEF ViewRoom, Dispatching
    <3>2. <<>> \o <<q>> = Append(<<>>, q) /\ <<>> \o <<>> = <<>>
      OBVIOUS
    <3> QED BY <3>1, <3>2, <1>5
  <2>4. /\ viewScenario.sliding => state.roomId = p.room
        /\ state' = [state EXCEPT !.roomId = p.room, !.roomAlias = p.alias, !.roomLoading = FALSE,
                                  !.joining = FALSE, !.replyingTo = ReplyIn(p)]
        /\ UNCHANGED <<lookups, subscribing, asked, viewScenario>>
    BY <1>ViewRoom, <2>1 DEF ViewRoom, Keep, async
  <2>5. state'.roomId = p.room /\ state'.subscribingRoomId = state.subscribingRoomId
    BY <1>ViewRoom, <1>4, <2>4 DEF States
  <2>6. viewScenario.sliding => state.subscribingRoomId = p.room
    BY <1>ViewRoom, <2>1, <2>4 DEF ViewInv, Subscribed
  <2>7. lookups = <<>> => p.room = asked
    BY <1>ViewRoom, <2>1, <2>3 DEF Leads, Target, Stays
  <2>8. queue' = <<>> \/ Head(queue').action = "join_room"
    BY <2>2, <2>3
  <2> QED BY <1>ViewRoom, <2>4, <2>5, <2>6, <2>7, <2>8 DEF Leads, Stays
<1>ViewAlias. ASSUME ViewInv, Leads, Attentive, ViewAlias PROVE Leads'
  <2>1. PICK p \in Fit : p = Head(queue) /\ p.action = "view_room" /\ p.room = None /\ p.alias \in Alias
    <3>1. Head(queue) \in Fit /\ Head(queue).action = "view_room" /\ Head(queue).room = None
      BY <1>ViewAlias, <1>7 DEF ViewAlias, Dispatching
    <3> QED BY <3>1 DEF Fit, Payloads
  <2>2. /\ queue # <<>> /\ lookups = <<>> /\ RoomOf[p.alias] = asked
    BY <1>ViewAlias, <2>1 DEF ViewAlias, Dispatching, Leads, Target, Stays
  <2>3. PICK q \in Fit : /\ q = [p EXCEPT !.room = RoomOf[p.alias]]
                         /\ q.action = "view_room" /\ q.room = asked /\ q.room # None
    <3>1. p \in Unresolved
      BY <2>1, RoomViewAssumption DEF Unresolved
    <3> QED BY <2>2, <3>1, Made
  <2>4. UNCHANGED <<subscribing, asked, viewScenario>>
    BY <1>ViewAlias DEF ViewAlias, Keep
  <2>5. CASE queue' = Append(Tail(queue), [p EXCEPT !.room = RoomOf[p.alias]]) /\ UNCHANGED <<state, lookups>>
    <3>1. queue' # <<>> /\ Head(queue') = q
      BY <1>ViewAlias, <1>7, <2>2, <2>3, <2>5, <1>5
    <3>2. Target(q) = asked
      BY <2>3 DEF Target
    <3> QED BY <1>ViewAlias, <2>2, <2>3, <2>4, <2>5, <3>1, <3>2 DEF Leads, Stays
  <2>6. CASE lookups' = Append(lookups, p) /\ queue' = Tail(queue)
    <3>1. lookups' # <<>> /\ Len(lookups') = 1 /\ lookups'[1] = p
      BY <2>2, <2>6
    <3>2. queue' = <<>>
      BY <1>ViewAlias, <1>7, <2>2, <2>6
    <3> QED BY <1>ViewAlias, <2>2, <2>4, <3>1, <3>2 DEF Leads
  <2> QED BY <1>ViewAlias, <2>1, <2>5, <2>6 DEF ViewAlias
<1>Errors. ASSUME Leads, ViewRoomError \/ JoinRoomError PROVE Leads'
  BY <1>Errors DEF ViewRoomError, JoinRoomError, Dispatching, Leads
<1>ViewHomePage. ASSUME ViewInv, Leads, Attentive, ViewHomePage PROVE Leads'
  <2>1. /\ queue # <<>> /\ Head(queue).action = "view_home_page" /\ queue' = <<>>
        /\ state' = [state EXCEPT !.roomId = None, !.roomAlias = None]
        /\ UNCHANGED <<lookups, subscribing, asked, viewScenario>>
    BY <1>ViewHomePage, <1>7 DEF ViewHomePage, Dispatching, Keep, async
  <2>2. state'.roomId = None
    BY <1>ViewHomePage, <1>4, <2>1 DEF States
  <2>3. asked = None /\ ~viewScenario.sliding /\ lookups = <<>>
    BY <1>ViewHomePage, <2>1 DEF Leads, Target, Stays
  <2> QED BY <1>ViewHomePage, <2>1, <2>2, <2>3 DEF Leads
<1>JoinRoom. ASSUME ViewInv, Leads, Attentive, JoinRoom PROVE Leads'
  <2>1. /\ queue # <<>> /\ Head(queue).action = "join_room" /\ queue' = <<>>
        /\ state' = [state EXCEPT !.joining = TRUE]
        /\ UNCHANGED <<lookups, subscribing, asked, viewScenario>>
    BY <1>JoinRoom, <1>7 DEF JoinRoom, Dispatching, Keep
  <2>2. state'.roomId = state.roomId /\ state'.subscribingRoomId = state.subscribingRoomId
    BY <1>JoinRoom, <1>4, <2>1 DEF States
  <2> QED BY <1>JoinRoom, <2>1, <2>2 DEF Leads, Stays
<1>ReplyToEvent. ASSUME ViewInv, Leads, Attentive, ReplyToEvent PROVE Leads'
  <2>1. PICK p \in Fit : p = Head(queue) /\ p.action = "reply_to_event" /\ p.reply \in Names
    <3>1. Head(queue) \in Fit /\ Head(queue).action = "reply_to_event"
      BY <1>ReplyToEvent, <1>7 DEF ReplyToEvent, Dispatching
    <3> QED BY <3>1 DEF Fit, Payloads, Names
  <2>2. /\ queue # <<>> /\ UNCHANGED <<lookups, subscribing, asked, viewScenario>>
    BY <1>ReplyToEvent DEF ReplyToEvent, Dispatching, Keep, async
  <2>3. lookups = <<>> /\ p.reply # None => p.reply = asked
    BY <1>ReplyToEvent, <2>1, <2>2 DEF Leads, Target, Stays
  <2>4. p.reply # None => lookups = <<>>
    BY <1>ReplyToEvent, <2>1, <2>2 DEF Leads, Stays
  <2>5. CASE /\ queue' = Append(Tail(queue), [Payload("view_room", p.reply) EXCEPT !.reply = p.reply])
             /\ UNCHANGED state /\ p.reply # None
    <3>1. PICK q \in Fit : /\ q = [Payload("view_room", p.reply) EXCEPT !.reply = p.reply]
                           /\ q.action = "view_room" /\ q.room = p.reply
      BY <2>1, <2>5, Made DEF Names
    <3>2. queue' # <<>> /\ Head(queue') = q
      BY <1>ReplyToEvent, <1>7, <2>2, <2>5, <3>1, <1>5
    <3>3. Target(q) = asked /\ ~Stays(q) /\ lookups = <<>>
      BY <2>1, <2>3, <2>4, <2>5, <3>1, RoomViewAssumption DEF Target, Stays
    <3> QED BY <1>ReplyToEvent, <2>2, <3>1, <3>2, <3>3 DEF Leads
  <2>6. CASE /\ state' = [state EXCEPT !.replyingTo = p.reply] /\ queue' = Tail(queue)
             /\ p.reply \in {None, state.roomId}
    <3>1. state'.roomId = state.roomId /\ state'.subscribingRoomId = state.subscribingRoomId
      BY <1>ReplyToEvent, <1>4, <2>6 DEF States
    <3>2. queue' = <<>>
      BY <1>ReplyToEvent, <1>7, <2>2, <2>6
    <3>3. lookups = <<>> => state.roomId = asked
      BY <1>ReplyToEvent, <2>1, <2>2, <2>3, <2>6 DEF Leads, Stays
    <3>4. lookups = <<>> /\ viewScenario.sliding => state.subscribingRoomId = asked
      <4>1. CASE p.reply = None
        BY <1>ReplyToEvent, <2>1, <2>2, <4>1 DEF Leads, Stays
      <4>2. CASE p.reply # None
        BY <1>ReplyToEvent, <2>1, <2>6, <3>3, <4>2 DEF ViewInv, Subscribed
      <4> QED BY <4>1, <4>2
    <3> QED BY <1>ReplyToEvent, <2>2, <3>1, <3>2, <3>3, <3>4 DEF Leads
  <2> QED BY <1>ReplyToEvent, <2>1, <2>5, <2>6 DEF ReplyToEvent
(* The answers. *)
<1>RoomVisible. ASSUME ViewInv, Leads, Attentive, NEW i \in DOMAIN subscribing, RoomVisible(i) PROVE Leads'
  <2>1. PICK p \in Resolved : p = subscribing[i]
    BY <1>RoomVisible, <1>4, Removed
  <2>2. p \in Fit /\ p.action = "view_room" /\ p.room # None /\ p.room \in Names
    BY <2>1 DEF Resolved, Fit, Payloads, Names
  <2>3. /\ queue = <<>> /\ viewScenario.sliding /\ UNCHANGED <<state, lookups, asked, viewScenario>>
    BY <1>RoomVisible DEF RoomVisible, Prompt, Attentive, Leads, Keep
  <2>4. CASE UNCHANGED queue
    BY <1>RoomVisible, <2>3, <2>4 DEF Leads
  <2>5. CASE Dispatch(p) /\ SubscribedTo(p)
    <3>1. queue' # <<>> /\ Head(queue') = p
      BY <2>3, <2>5, <1>5 DEF Dispatch
    <3>2. lookups = <<>> => Target(p) = asked
      BY <1>RoomVisible, <2>2, <2>3, <2>5 DEF Leads, SubscribedTo, Target
    <3> QED BY <1>RoomVisible, <2>2, <2>3, <3>1, <3>2 DEF Leads
  <2> QED BY <1>RoomVisible, <2>1, <2>4, <2>5 DEF RoomVisible
<1>RoomIdForAlias. ASSUME ViewInv, Leads, Attentive, NEW i \in DOMAIN lookups, RoomIdForAlias(i) PROVE Leads'
  <2>1. /\ queue = <<>> /\ UNCHANGED <<state, subscribing, asked, viewScenario>>
        /\ lookups' = RemoveAt(lookups, i)
        /\ queue' = Append(queue, [lookups[i] EXCEPT !.room = RoomOf[lookups[i].alias]])
    BY <1>RoomIdForAlias DEF RoomIdForAlias, Prompt, Attentive, Keep, Dispatch
  <2>2. lookups # <<>> /\ lookups[i] \in Unresolved
    BY <1>RoomIdForAlias, <1>4, Removed
  <2>3. Len(lookups) = 1 /\ RoomOf[lookups[1].alias] = asked
    BY <1>RoomIdForAlias, <2>2 DEF Leads
  <2>4. lookups' = <<>> /\ i = 1
    BY <1>RoomIdForAlias, <2>1, <2>3, <1>4, <1>6
  <2>5. PICK p \in Unresolved : p = lookups[i]
    BY <2>2
  <2>6. PICK q \in Fit : /\ q = [p EXCEPT !.room = RoomOf[p.alias]]
                         /\ q.action = "view_room" /\ q.room = RoomOf[p.alias] /\ q.room # None
    BY Made
  <2>7. queue' # <<>> /\ Head(queue') = q
    BY <2>1, <2>5, <2>6, <1>5
  <2>8. Target(q) = asked
    BY <2>3, <2>4, <2>5, <2>6 DEF Target
  <2> QED BY <1>RoomIdForAlias, <2>1, <2>4, <2>6, <2>7, <2>8 DEF Leads, Stays
<1>AliasNotFound. ASSUME ViewInv, Attentive', NEW i \in DOMAIN lookups, AliasNotFound(i) PROVE Leads'
  BY <1>AliasNotFound, <1>3 DEF AliasNotFound, Attentive, Counted
<1>JoinAnswered. ASSUME ViewInv, Leads, Attentive', NEW i \in DOMAIN joins, JoinAnswered(i) PROVE Leads'
  <2>1. ~Once("faults")
    BY <1>JoinAnswered, <1>3 DEF Attentive, Counted
  <2>2. UNCHANGED <<state, queue, lookups, subscribing, asked, viewScenario>>
    BY <1>JoinAnswered, <2>1 DEF JoinAnswered
  <2> QED BY <1>JoinAnswered, <2>2 DEF Leads
<1>Counts. ASSUME ViewInv, ViewNext
           PROVE  /\ viewScenario' = viewScenario /\ viewCount' \in [Counted -> Nat]
                  /\ \A k \in Counted : viewCount[k] <= viewCount'[k]
  <2>1. viewScenario' = viewScenario
    BY <1>Counts DEF ViewNext, OnDispatch, ClickRoom, ClickAlias, ClickHome, ClickJoin, ClickReply, EndReply, Goes,
           Subscribe, ViewRoom, ViewAlias, ViewRoomError, ViewHomePage, JoinRoom, JoinRoomError,
           ReplyToEvent, RoomVisible, RoomIdForAlias, AliasNotFound, JoinAnswered, Keep
  <2>2. UNCHANGED viewCount \/ \E what \in Counted : Once(what)
    BY <1>Counts DEF ViewNext, OnDispatch, ClickRoom, ClickAlias, ClickHome, ClickJoin, ClickReply, EndReply, Counted,
           Subscribe, ViewRoom, ViewAlias, ViewRoomError, ViewHomePage, JoinRoom, JoinRoomError,
           ReplyToEvent, RoomVisible, RoomIdForAlias, AliasNotFound, JoinAnswered, Keep
  <2>3. viewCount \in [Counted -> Nat]
    BY <1>Counts DEF ViewInv, ViewTypeOK
  <2>4. CASE UNCHANGED viewCount
    BY <2>1, <2>3, <2>4
  <2> QED BY <1>Counts, <2>1, <2>2, <2>4, <1>3
<1>8. ViewInv /\ (Attentive => Leads) /\ [ViewNext]_viewVars => (Attentive' => Leads')
  <2> SUFFICES ASSUME ViewInv, Attentive => Leads, [ViewNext]_viewVars, Attentive' PROVE Leads'
    OBVIOUS
  <2>1. CASE UNCHANGED viewVars
    BY <2>1 DEF viewVars, async, Attentive, Leads
  <2>2. CASE ViewNext
    <3>1. Attentive /\ Leads
      BY <2>2, <1>Counts, <1>2
    <3> QED BY <2>2, <3>1, <1>ClickRoom, <1>ClickReply, <1>EndReply, <1>ClickAlias, <1>ClickHome, <1>ClickJoin,
               <1>Subscribe, <1>ViewRoom, <1>ViewAlias, <1>Errors, <1>ViewHomePage, <1>JoinRoom,
               <1>ReplyToEvent, <1>RoomVisible, <1>RoomIdForAlias, <1>AliasNotFound, <1>JoinAnswered
               DEF ViewNext, OnDispatch
  <2> QED BY <2>1, <2>2
<1> QED BY <1>1, <1>8, ViewInvariance, PTL DEF ViewSpec

(* Once everything has been answered the room is shown that the user asked *)
(* for last.                                                               *)
THEOREM ViewsFollowTheUser == ViewSpec => []LastViewWins
<1>1. (Attentive => Leads) => LastViewWins
  BY DEF Attentive, Leads, LastViewWins, ViewSettled
<1> QED BY <1>1, LeadsThere, PTL
=============================================================================
