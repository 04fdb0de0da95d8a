---------------------------- MODULE SessionLogout ----------------------------
(***************************************************************************)
(* The session lock together with the paths of Lifecycle.ts that empty     *)
(* localStorage, where the items of the lock live too: logout, whose       *)
(* request may still be under way when the lock is stolen, and login.      *)
(* window.localStorage.clear() queues one storage event without a key in   *)
(* the other tabs, which none of the lock's listeners reacts to.           *)
(***************************************************************************)
EXTENDS SessionLock

(* A tab sends its /logout request while it runs, and nothing but the      *)
(* answer shows: the request may be under way in every page that has run.  *)
MayLogOut(t) == pc[t] \in {"running", "stopping", "wedged", "stopped"}

(* clearStorage; what follows its first await does not touch the lock.     *)
ClearStorage ==
    /\ claimant' = None /\ owner' = None /\ ping' = None
    /\ UNCHANGED <<pc, servicer, since, sleep, inbox, frozen>>

(* onLoggedOut, once the request is answered: nothing asks whether the tab *)
(* has the lock any more.                                                  *)
OnLoggedOut(t) == Awake(t) /\ MayLogOut(t) /\ ClearStorage

(* doSetLoggedIn with clearStorageEnabled: checkSessionLock, which fails   *)
(* only once onNewInstance has set its flag, then clear.                   *)
DoSetLoggedIn(t) == Active(t) /\ ClearStorage

LogoutNext == Next \/ \E t \in Tab : OnLoggedOut(t) \/ DoSetLoggedIn(t)

LogoutSpec == Init /\ [][LogoutNext]_vars
=============================================================================
