------------------------------ MODULE TaskPool ------------------------------
(***************************************************************************)
(* What the dispatcher promises to the rest of the core, without its lock, *)
(* its semaphore and its heap: a pool of tasks from which a worker always  *)
(* takes one of the most urgent tasks, each exactly once.                  *)
(***************************************************************************)
EXTENDS Integers

CONSTANTS Tasks,    (* what can be queued: an armed descriptor, a timer, a query *)
          Workers,  (* the worker threads                                        *)
          Prio,     (* the priority each task is queued with                     *)
          NoTask    (* a worker that has nothing to run                          *)

VARIABLES pool,     (* the tasks queued and not yet taken *)
          hand      (* the task each worker runs          *)

vars == <<pool, hand>>

(* The tasks of S no other task of S precedes. *)
Urgent(S) == { t \in S : \A u \in S : Prio[u] <= Prio[t] }

Init == /\ pool = {}
        /\ hand = [w \in Workers |-> NoTask]

Submit(t) == /\ t \notin pool
             /\ pool' = pool \union {t}
             /\ UNCHANGED hand

Take(w) == /\ hand[w] = NoTask
           /\ \E t \in Urgent(pool) :
                 /\ pool' = pool \ {t}
                 /\ hand' = [hand EXCEPT ![w] = t]

Finish(w) == /\ hand[w] # NoTask
             /\ hand' = [hand EXCEPT ![w] = NoTask]
             /\ UNCHANGED pool

Next == \/ \E t \in Tasks : Submit(t)
        \/ \E w \in Workers : Take(w) \/ Finish(w)

Spec == Init /\ [][Next]_vars
=============================================================================
