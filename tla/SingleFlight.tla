------------------------------ MODULE SingleFlight ------------------------------
(***************************************************************************)
(* What a single-flight registry promises: for each key at most one task   *)
(* is the leader, the others may wait for it, and when the leader ends,    *)
(* however it ends, every task that waits for it is released.              *)
(*                                                                         *)
(* The response cache (rdap-cache) and the bootstrap cache                 *)
(* (rdap-bootstrap) each implement it their own way.                       *)
(***************************************************************************)
CONSTANTS Keys, Tasks, NoTask

VARIABLES
    leader,    \* leader[k]: the task that works on k, or NoTask
    waiting    \* waiting[k]: the tasks that wait for it

Init ==
    /\ leader = [k \in Keys |-> NoTask]
    /\ waiting = [k \in Keys |-> {}]

Claim(k, t) ==
    /\ leader[k] = NoTask
    /\ t \notin waiting[k]
    /\ leader' = [leader EXCEPT ![k] = t]
    /\ UNCHANGED waiting

Join(k, t) ==
    /\ leader[k] \notin {NoTask, t}
    /\ waiting' = [waiting EXCEPT ![k] = @ \cup {t}]
    /\ UNCHANGED leader

(* A waiting task is dropped by its caller. *)
GiveUp(k, t) ==
    /\ t \in waiting[k]
    /\ waiting' = [waiting EXCEPT ![k] = @ \ {t}]
    /\ UNCHANGED leader

Release(k) ==
    /\ leader[k] # NoTask
    /\ leader' = [leader EXCEPT ![k] = NoTask]
    /\ waiting' = [waiting EXCEPT ![k] = {}]

Next ==
    \E k \in Keys :
        \/ \E t \in Tasks : Claim(k, t) \/ Join(k, t) \/ GiveUp(k, t)
        \/ Release(k)

vars == <<leader, waiting>>
Spec == Init /\ [][Next]_vars

-----------------------------------------------------------------------------
TypeOK ==
    /\ leader \in [Keys -> Tasks \cup {NoTask}]
    /\ waiting \in [Keys -> SUBSET Tasks]

(* Nobody waits for a key that has no leader, and no leader waits for itself: *)
(* there is always somebody whose end releases the waiters.                   *)
WaitersHaveLeader ==
    \A k \in Keys : waiting[k] # {} => leader[k] \notin waiting[k] \cup {NoTask}
=============================================================================
