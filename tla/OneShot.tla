------------------------------- MODULE OneShot -------------------------------
(***************************************************************************)
(* What the core counts on a reactor for: a descriptor that was submitted  *)
(* gives one task, and none before it is submitted again.                  *)
(***************************************************************************)
CONSTANT Fds

VARIABLE status  (* per descriptor: a handler has it, it is watched, its task is queued *)

Init == status = [f \in Fds |-> "owned"]

Move(f, from, to) == status[f] = from /\ status' = [status EXCEPT ![f] = to]

Submit(f)  == Move(f, "owned", "armed")
Trigger(f) == Move(f, "armed", "queued")
Run(f)     == Move(f, "queued", "owned")

Next == \E f \in Fds : Submit(f) \/ Trigger(f) \/ Run(f)

Spec == Init /\ [][Next]_status
=============================================================================
