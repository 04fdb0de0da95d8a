---------------------------- MODULE MultiInviter ----------------------------
(***************************************************************************)
(* Inviting several users to a room: src/utils/MultiInviter.ts with the    *)
(* homeserver's answers, its rate limit, and the dialog that asks whether  *)
(* to invite users without a profile.  The addresses are user ids.         *)
(***************************************************************************)
EXTENDS Naturals, Sequences, SequencesExt

CONSTANTS
    Address,
    Invalid,     \* the addresses that getAddressType does not recognise
    Lists,       \* bound: the lists of addresses given to invite
    MaxLimits    \* bound: M_LIMIT_EXCEEDED answers

ASSUME InviterAssumption ==
    /\ Invalid \subseteq Address /\ Lists \subseteq Seq(Address) /\ MaxLimits \in Nat

VARIABLES
    addresses, canceled, busy, fatal,
    completionStates, errors,
    deferred,      \* the promise that invite returned
    phase, next,   \* where inviteMore is
    unknowns,      \* unknownProfileUsers whose second invitation is not done
    calls,         \* doInvite of each address
    prompt,        \* the setting promptBeforeInviteUnknownUsers
    accepted,      \* invitations the server accepted (history)
    gaveUp,        \* addresses the user gave up (history)
    refused,       \* a fatal answer to an invitation without the profile check
    limits

vars == <<addresses, canceled, busy, fatal, completionStates, errors, deferred, phase, next,
          unknowns, calls, prompt, accepted, gaveUp, refused, limits>>

NoCall == [at |-> "none", ignore |-> FALSE]
Failure == {"unknown", "noProfile", "forbidden", "other"}
ErrCode == Failure \cup {"none", "invalid"}

UnknownProfileErrors == {"unknown", "noProfile"}

Init ==
    /\ addresses = <<>> /\ canceled = FALSE /\ busy = FALSE /\ fatal = FALSE
    /\ completionStates = [a \in Address |-> "none"] /\ errors = [a \in Address |-> "none"]
    /\ deferred = "none" /\ phase = "idle" /\ next = 0 /\ unknowns = {}
    /\ calls = [a \in Address |-> NoCall]
    /\ prompt \in BOOLEAN /\ accepted = {} /\ gaveUp = {} /\ refused = FALSE /\ limits = 0

----------------------------------------------------------------------------
(* inviteToRoom asks for the profile first, if the setting says so. *)
InviteToRoom(ignoreProfile) ==
    [at |-> IF prompt /\ ~ignoreProfile THEN "profile" ELSE "invite", ignore |-> ignoreProfile]

(* Mutant: who has been invited is invited again. *)
NextToInviteAgain(list, i, states) ==
    LET todo == {j \in i .. Len(list) : list[j] \notin Invalid}
    IN IF todo = {} THEN Len(list) + 1 ELSE CHOOSE j \in todo : \A k \in todo : j <= k

(* The first address from i on that has to be invited. *)
NextToInvite(list, i, states) ==
    LET todo == {j \in i .. Len(list) : list[j] \notin Invalid /\ states[list[j]] # "invited"}
    IN IF todo = {} THEN Len(list) + 1 ELSE CHOOSE j \in todo : \A k \in todo : j <= k

UnknownProfileUsers(errs) == {a \in Address : errs[a] \in UnknownProfileErrors}

Settled(how) == deferred' = IF deferred = "pending" THEN how ELSE deferred

(* inviteMore(i): the next address of the list, or what follows the last   *)
(* one.  done is calls without the one that has just been answered.        *)
InviteMore(list, i, done, nowBusy) ==
    LET j == NextToInvite(list, i, completionStates')
        unknown == UnknownProfileUsers(errors')
    IN /\ next' = j
       /\ \/ /\ j <= Len(list)
             /\ phase' = "inviting" /\ busy' = nowBusy /\ deferred' = "pending"
             /\ calls' = [done EXCEPT ![list[j]] = InviteToRoom(FALSE)]
             /\ UNCHANGED unknowns
          \/ /\ j > Len(list) /\ unknown # {}
             /\ phase' = (IF prompt THEN "asking" ELSE "anyway") /\ busy' = FALSE
             /\ deferred' = "pending" /\ unknowns' = unknown
             /\ calls' = IF prompt THEN done
                         ELSE [a \in Address |-> IF a \in unknown THEN InviteToRoom(TRUE) ELSE done[a]]
          \/ /\ j > Len(list) /\ unknown = {}
             /\ phase' = "over" /\ busy' = FALSE /\ deferred' = "resolved" /\ calls' = done
             /\ UNCHANGED unknowns

Invite ==
    /\ phase = "idle"
    /\ addresses' \in Lists
    /\ completionStates' = [a \in Address |-> IF a \in Invalid /\ Contains(addresses', a)
                                              THEN "error" ELSE "none"]
    /\ errors' = [a \in Address |-> IF completionStates'[a] = "error" THEN "invalid" ELSE "none"]
    /\ InviteMore(addresses', 1, calls, busy)
    /\ UNCHANGED <<canceled, fatal, prompt, accepted, gaveUp, refused, limits>>

Cancel ==
    /\ busy /\ ~canceled
    /\ canceled' = TRUE /\ Settled("rejected")
    /\ UNCHANGED <<addresses, busy, fatal, completionStates, errors, phase, next, unknowns,
                   calls, prompt, accepted, gaveUp, refused, limits>>

----------------------------------------------------------------------------
(* Mutant: the first one that is done ends the series. *)
AllDoneAtOnce(rest) == TRUE

AllDone(rest) == rest = {}

(* What the settled doInvite(a) leads to: the next address of the series,  *)
(* or one invitation less that Promise.all waits for.                      *)
DoInviteResolved(a, nowBusy) ==
    \/ phase = "inviting" /\ InviteMore(addresses, next + 1, [calls EXCEPT ![a] = NoCall], nowBusy)
    \/ /\ phase = "anyway"
       /\ calls' = [calls EXCEPT ![a] = NoCall]
       /\ unknowns' = unknowns \ {a}
       /\ busy' = nowBusy
       /\ IF AllDone(unknowns') /\ ~refused THEN phase' = "over" /\ Settled("resolved")
                                        ELSE UNCHANGED <<phase, deferred>>
       /\ UNCHANGED next

(* A fatal error ends the series; of the invitations without the profile   *)
(* check it rejects Promise.all, and nobody is told.                       *)
DoInviteRejected(a) ==
    /\ calls' = [calls EXCEPT ![a] = NoCall] /\ busy' = FALSE
    /\ \/ phase = "inviting" /\ Settled("resolved") /\ phase' = "over" /\ UNCHANGED <<refused, unknowns>>
       \/ phase = "anyway" /\ refused' = TRUE /\ unknowns' = unknowns \ {a} /\ UNCHANGED <<phase, deferred>>
    /\ UNCHANGED next

(* After cancel an answer is ignored. *)
Ignored(a) ==
    /\ calls' = [calls EXCEPT ![a] = NoCall]
    /\ UNCHANGED <<busy, fatal, completionStates, errors, deferred, phase, next, unknowns>>

ProfileAnswered(a) ==
    /\ calls[a].at = "profile"
    /\ calls' = [calls EXCEPT ![a].at = "invite"]
    /\ UNCHANGED <<addresses, canceled, busy, fatal, completionStates, errors, deferred, phase,
                   next, unknowns, prompt, accepted, gaveUp, refused, limits>>

InviteAccepted(a) ==
    /\ calls[a].at = "invite"
    /\ accepted' = accepted \cup {a}
    /\ \/ canceled /\ Ignored(a)
       \/ /\ ~canceled
          /\ completionStates' = [completionStates EXCEPT ![a] = "invited"]
          /\ errors' = [errors EXCEPT ![a] = "none"]
          /\ DoInviteResolved(a, busy)
          /\ UNCHANGED fatal
    /\ UNCHANGED <<addresses, canceled, prompt, gaveUp, refused, limits>>

(* An answer that is recorded as the address's error.  "other" may also be *)
(* the failure of a call that the server has accepted.                     *)
InviteFailed(a, err) ==
    /\ calls[a].at \in {"profile", "invite"}
    /\ err = "forbidden" => calls[a].at = "invite"    \* of a profile it is "unknown"
    /\ canceled \/ err # "noProfile" \/ calls[a].ignore
    /\ \/ UNCHANGED accepted
       \/ err = "other" /\ calls[a].at = "invite" /\ accepted' = accepted \cup {a}
    /\ \/ canceled /\ Ignored(a) /\ UNCHANGED refused
       \/ /\ ~canceled
          /\ completionStates' = [completionStates EXCEPT ![a] = "error"]
          /\ errors' = [errors EXCEPT ![a] = err]
          /\ fatal' = (err = "forbidden")
          /\ \/ err = "forbidden" /\ DoInviteRejected(a)
             \/ err # "forbidden" /\ DoInviteResolved(a, TRUE) /\ UNCHANGED refused
    /\ UNCHANGED <<addresses, canceled, prompt, gaveUp, limits>>

(* M_PROFILE_NOT_FOUND: invited at once without the profile check. *)
InviteWithoutProfile(a) ==
    /\ calls[a].at \in {"profile", "invite"} /\ ~calls[a].ignore /\ ~canceled
    /\ calls' = [calls EXCEPT ![a] = InviteToRoom(TRUE)]
    /\ UNCHANGED <<addresses, canceled, busy, fatal, completionStates, errors, deferred, phase,
                   next, unknowns, prompt, accepted, gaveUp, refused, limits>>

(* M_LIMIT_EXCEEDED: tried again after a while, canceled or not. *)
LimitExceeded(a) ==
    /\ calls[a].at \in {"profile", "invite"} /\ limits < MaxLimits /\ ~canceled
    /\ calls' = [calls EXCEPT ![a].at = "waiting"] /\ limits' = limits + 1
    /\ UNCHANGED <<addresses, canceled, busy, fatal, completionStates, errors, deferred, phase,
                   next, unknowns, prompt, accepted, gaveUp, refused>>

TriedAgain(a) ==
    /\ calls[a].at = "waiting"
    /\ calls' = [calls EXCEPT ![a] = InviteToRoom(calls[a].ignore)]
    /\ UNCHANGED <<addresses, canceled, busy, fatal, completionStates, errors, deferred, phase,
                   next, unknowns, prompt, accepted, gaveUp, refused, limits>>

----------------------------------------------------------------------------
(* AskInviteAnywayDialog. *)
OnInviteAnyways ==
    /\ phase = "asking"
    /\ phase' = "anyway"
    /\ calls' = [a \in Address |-> IF a \in unknowns THEN InviteToRoom(TRUE) ELSE calls[a]]
    /\ prompt' \in {prompt, FALSE}
    /\ UNCHANGED <<addresses, canceled, busy, fatal, completionStates, errors, deferred, next,
                   unknowns, accepted, gaveUp, refused, limits>>

(* Mutant: the promise is not resolved. *)
OnGiveUpSilent ==
    /\ phase = "asking"
    /\ phase' = "over"
    /\ completionStates' = [a \in Address |-> IF a \in unknowns THEN "invited" ELSE completionStates[a]]
    /\ gaveUp' = unknowns /\ unknowns' = {}
    /\ UNCHANGED <<addresses, canceled, busy, fatal, errors, deferred, next, calls, prompt, accepted,
                   refused, limits>>

OnGiveUp ==
    /\ phase = "asking"
    /\ phase' = "over"
    /\ completionStates' = [a \in Address |-> IF a \in unknowns THEN "invited" ELSE completionStates[a]]
    /\ gaveUp' = unknowns /\ unknowns' = {}
    /\ Settled("resolved")
    /\ UNCHANGED <<addresses, canceled, busy, fatal, errors, next, calls, prompt, accepted,
                   refused, limits>>

(* A click next to the dialog closes it with neither answer (Modal), and    *)
(* nobody listens for that.                                                *)
OnBackgroundClick ==
    /\ phase = "asking" /\ phase' = "closed"
    /\ UNCHANGED <<addresses, canceled, busy, fatal, completionStates, errors, deferred, next, unknowns,
                   calls, prompt, accepted, gaveUp, refused, limits>>

Answered(a) ==
    \/ ProfileAnswered(a) \/ InviteAccepted(a) \/ InviteWithoutProfile(a) \/ TriedAgain(a)
    \/ \E err \in Failure : InviteFailed(a, err)

Next ==
    \/ Invite \/ Cancel \/ OnInviteAnyways \/ OnGiveUp \/ OnBackgroundClick
    \/ \E a \in Address : Answered(a) \/ LimitExceeded(a)

Spec == Init /\ [][Next]_vars
----------------------------------------------------------------------------
(* SAFETY *)

TypeOK ==
    /\ addresses \in Lists \cup {<<>>} /\ canceled \in BOOLEAN /\ busy \in BOOLEAN /\ fatal \in BOOLEAN
    /\ completionStates \in [Address -> {"none", "invited", "error"}]
    /\ errors \in [Address -> ErrCode]
    /\ deferred \in {"none", "pending", "resolved", "rejected"}
    /\ phase \in {"idle", "inviting", "asking", "anyway", "closed", "over"}
    /\ next \in Nat /\ unknowns \subseteq Address
    /\ calls \in [Address -> [at : {"none", "profile", "invite", "waiting"}, ignore : BOOLEAN]]
    /\ prompt \in BOOLEAN /\ accepted \subseteq Address /\ gaveUp \subseteq Address
    /\ refused \in BOOLEAN /\ limits \in 0 .. MaxLimits

(* The states that the promise resolves to tell what happened: who is      *)
(* "invited" was accepted by the server or given up by the user, nothing   *)
(* is under way any more, and unless the series was cut short by a fatal   *)
(* error nobody was left out.                                              *)
ResolvedIsTrue ==
    deferred = "resolved" =>
        /\ \A a \in Address : completionStates[a] = "invited" => a \in accepted \cup gaveUp
        /\ \A a \in Address : calls[a].at = "none"
        /\ fatal \/ \A a \in ToSet(addresses) : completionStates[a] # "none"

(* Nobody whose invitation was answered positively is asked a second time, *)
(* whatever the list repeats and whatever is tried again.                  *)
InvitedOnce ==
    [][\A a \in Address :
           completionStates[a] = "invited" => calls[a].at = "none" /\ calls'[a].at = "none"]_vars

----------------------------------------------------------------------------
(* LIVENESS: requests are answered, timers fire, the user closes the dialog. *)
Progress == OnGiveUp \/ OnInviteAnyways \/ OnBackgroundClick \/ \E a \in Address : Answered(a)

FairSpec == Spec /\ WF_vars(Progress)

(* The promise that invite returns settles, unless an invitation without   *)
(* the profile check is refused, or the dialog is closed with neither      *)
(* answer: then the caller waits for ever.                                 *)
InviteSettles == (deferred = "pending") ~> (deferred # "pending" \/ refused \/ phase = "closed")
=============================================================================
