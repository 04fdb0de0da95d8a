------------------------------- MODULE TabLock -------------------------------
(***************************************************************************)
(* What src/utils/SessionLock.ts promises, without storage items, events   *)
(* or clocks: at most one tab runs the application, a tab only starts when *)
(* none runs, and the tab that starts is the one that asked last.          *)
(***************************************************************************)
CONSTANTS Tab, None

VARIABLES
    newest,        \* the tab that asked for the lock last
    running        \* the tabs that run the application

Init == newest = None /\ running = {}

(* A tab asks for the lock; it may find it free and start at once. *)
Arrive(t) ==
    /\ newest' = t
    /\ \/ running' = running
       \/ running = {} /\ running' = {t}

(* The newest tab starts once nobody else runs. *)
Take ==
    /\ running = {} /\ newest # None
    /\ running' = {newest}
    /\ UNCHANGED newest

(* A tab has shut down, was closed or died. *)
Leave(t) ==
    /\ t \in running
    /\ running' = running \ {t}
    /\ UNCHANGED newest

Next == Take \/ \E t \in Tab : Arrive(t) \/ Leave(t)

Spec == Init /\ [][Next]_<<newest, running>>
=============================================================================
