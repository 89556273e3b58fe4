---------------------------- MODULE ChangeRequests ----------------------------
(***************************************************************************)
(* What a watch scheduler promises, without timers, flags and reruns:      *)
(* changed paths are requested, a pass takes everything requested so far,  *)
(* passes do not overlap, and every request is taken until the scheduler   *)
(* is closed.  WatchScheduler implements this.                             *)
(***************************************************************************)
CONSTANT Paths          \* paths a notification can name

VARIABLES
    wanted,     \* requested, taken by no pass yet
    serving,    \* what the running pass was given
    busy,       \* a pass is running
    closed      \* no pass starts any more

vars == <<wanted, serving, busy, closed>>

Init == wanted = {} /\ serving = {} /\ busy = FALSE /\ closed = FALSE

Request(P) ==
    /\ ~closed /\ P # {}
    /\ wanted' = wanted \cup P
    /\ UNCHANGED <<serving, busy, closed>>

\* A pass starts with everything that is wanted.
Serve ==
    /\ ~closed /\ ~busy /\ wanted # {}
    /\ serving' = wanted /\ wanted' = {} /\ busy' = TRUE
    /\ UNCHANGED closed

Finish ==
    /\ busy
    /\ serving' = {} /\ busy' = FALSE
    /\ UNCHANGED <<wanted, closed>>

Shut == closed' = TRUE /\ UNCHANGED <<wanted, serving, busy>>

Next == (\E P \in SUBSET Paths : Request(P)) \/ Serve \/ Finish \/ Shut

Spec == Init /\ [][Next]_vars /\ WF_vars(Serve)
=============================================================================
