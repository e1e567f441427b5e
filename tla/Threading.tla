------------------------------- MODULE Threading -------------------------------
(***************************************************************************)
(* src/core/threading.c, with the start and the shutdown of main.c: the    *)
(* attendant makes the threads and their table tt, waits for a signal,     *)
(* cancels the threads and takes everything down.  A thread may end, or    *)
(* crash and, when core dumps wait for the shutdown (rt_coredump = 0), be  *)
(* kept in its signal handler.                                             *)
(*                                                                         *)
(* tt is in shared memory, which has one lock.  Everything a thread does   *)
(* that matters here is that it takes that lock; its cancellation is       *)
(* asynchronous and may come anywhere.  The attendant itself does not      *)
(* crash but where the code makes it.                                      *)
(***************************************************************************)
EXTENDS Naturals

CONSTANTS N    (* the threads main makes: workers, reactors, timer, db *)

ASSUME NAssumption == N \in Nat \ {0}

Threads == 1 .. N
Garbage == N + 1
Faults == {"SIGSEGV", "SIGBUS"}

VARIABLES rt_coredump,
          pc,        (* of the attendant *)
          turn,      (* its place in a loop over the threads *)
          counter,   (* threads_counter, without the attendant's own entry *)
          tt,        (* id (0, the thread, or Garbage) and core_dump *)
          moved,     (* the copy shm_realloc has made of tt *)
          state,     (* of the threads *)
          fault,     (* the signal a thread crashed with *)
          cancelled, \* pthread_cancel was called
          mem_lock,  (* the thread that holds it, 0 for none *)
          sigterm    (* pending for the process *)

threadVars == <<rt_coredump, pc, turn, counter, tt, moved, state, fault, cancelled, mem_lock, sigterm>>

Over == pc \in {"exited", "killed"}
Gone == {"ended", "cancelled"}

Empty == [id |-> 0, core_dump |-> "none"]

Init ==
  /\ rt_coredump \in BOOLEAN
  /\ pc = "create" /\ turn = 1 /\ counter = 0
  /\ tt = [t \in Threads |-> Empty] /\ moved = tt
  /\ state = [t \in Threads |-> "none"] /\ fault = [t \in Threads |-> "none"]
  /\ cancelled = {} /\ mem_lock = 0 /\ sigterm = FALSE

-----------------------------------------------------------------------------
(* The attendant: pt_create_thread *)

(* shm_realloc has copied the table and freed the old one; tt is not set.  *)
Realloc ==
  /\ pc = "create" /\ counter < N /\ mem_lock = 0
  /\ moved' = tt
  /\ pc' = "moved"
  /\ UNCHANGED <<rt_coredump, turn, counter, tt, state, fault, cancelled, mem_lock, sigterm>>

NewTable ==
  /\ pc = "moved"
  /\ tt' = moved
  /\ pc' = "new"
  /\ UNCHANGED <<rt_coredump, turn, counter, moved, state, fault, cancelled, mem_lock, sigterm>>

(* pthread_create returns a positive number when it fails and the test is  *)
(* for less than 0: an id that was never set is taken for a thread.        *)
Create ==
  /\ pc = "new"
  /\ state' = [state EXCEPT ![counter + 1] = "starting"]
  /\ pc' = "created"
  /\ UNCHANGED <<rt_coredump, turn, counter, tt, moved, fault, cancelled, mem_lock, sigterm>>

CreateFails ==
  /\ pc = "new"
  /\ tt' = [tt EXCEPT ![counter + 1].id = Garbage]
  /\ counter' = counter + 1
  /\ pc' = "create"
  /\ UNCHANGED <<rt_coredump, turn, moved, state, fault, cancelled, mem_lock, sigterm>>

Counted ==
  /\ pc = "created"
  /\ tt' = [tt EXCEPT ![counter + 1].id = counter + 1]
  /\ counter' = counter + 1
  /\ pc' = "create"
  /\ UNCHANGED <<rt_coredump, turn, moved, state, fault, cancelled, mem_lock, sigterm>>

Started ==
  /\ pc = "create" /\ counter = N
  /\ pc' = "wait"
  /\ UNCHANGED <<rt_coredump, turn, counter, tt, moved, state, fault, cancelled, mem_lock, sigterm>>

pt_create_thread == Realloc \/ NewTable \/ Create \/ CreateFails \/ Counted \/ Started

-----------------------------------------------------------------------------
(* The attendant: pt_wait_signals and terminate_all_threads *)

(* All signals but the synchronous ones are blocked and wait here.         *)
SigWait ==
  /\ pc = "wait" /\ sigterm
  /\ sigterm' = FALSE
  /\ pc' = "cancel"
  /\ UNCHANGED <<rt_coredump, turn, counter, tt, moved, state, fault, cancelled, mem_lock>>

(* The thread is waited for whatever it does. *)
Joined_bug(t) == tt[t].id # 0

(* Neither a thread that has ended nor one that waits to dump its core.    *)
Joined(t) == tt[t].id # 0 /\ tt[t].core_dump = "none"

NextTurn(next) == IF turn = counter THEN turn' = 1 /\ pc' = next ELSE turn' = turn + 1 /\ UNCHANGED pc

(* Of an id that is not a thread's nothing good comes; a thread that has   *)
(* ended is found or not found.                                            *)
Cancel ==
  /\ pc = "cancel"
  /\ LET t == turn
         Tried == tt[t].id # 0 /\ tt[t].core_dump = "none"
     IN \/ /\ ~ Tried
           /\ NextTurn("join") /\ UNCHANGED <<tt, cancelled>>
        \/ /\ Tried /\ tt[t].id = t
           /\ cancelled' = cancelled \union {t}
           /\ NextTurn("join") /\ UNCHANGED tt
        \/ /\ Tried /\ tt[t].id = t /\ state[t] = "ended"
           /\ tt' = [tt EXCEPT ![t].id = 0]
           /\ NextTurn("join") /\ UNCHANGED cancelled
        \/ /\ Tried /\ tt[t].id = Garbage
           /\ pc' = "killed" /\ UNCHANGED <<turn, tt, cancelled>>
  /\ UNCHANGED <<rt_coredump, counter, moved, state, fault, mem_lock, sigterm>>

Join_bug ==
  /\ pc = "join"
  /\ NextTurn("shutdown")
  /\ UNCHANGED <<rt_coredump, counter, tt, moved, state, fault, cancelled, mem_lock, sigterm>>

Join ==
  /\ pc = "join"
  /\ Joined(turn) => state[turn] \in Gone
  /\ NextTurn("shutdown")
  /\ UNCHANGED <<rt_coredump, counter, tt, moved, state, fault, cancelled, mem_lock, sigterm>>

(* Everything is freed, which takes the lock of the memory. *)
do_shutdown ==
  /\ pc = "shutdown" /\ mem_lock = 0
  /\ pc' = "resume"
  /\ UNCHANGED <<rt_coredump, turn, counter, tt, moved, state, fault, cancelled, mem_lock, sigterm>>

(* Each is given a moment: the process may be gone before it has dumped.   *)
resume_threads_coredumping ==
  /\ pc = "resume"
  /\ tt' = [t \in Threads |-> IF tt[t].core_dump = "waiting" THEN [tt[t] EXCEPT !.core_dump = "allowed"]
                              ELSE tt[t]]
  /\ pc' = "exit"
  /\ UNCHANGED <<rt_coredump, turn, counter, moved, state, fault, cancelled, mem_lock, sigterm>>

Exit ==
  /\ pc = "exit"
  /\ pc' = "exited"
  /\ UNCHANGED <<rt_coredump, turn, counter, tt, moved, state, fault, cancelled, mem_lock, sigterm>>

pt_wait_signals == SigWait \/ Cancel \/ Join \/ do_shutdown \/ resume_threads_coredumping \/ Exit

-----------------------------------------------------------------------------
(* A thread *)

Crash(t, sig) ==
  /\ state' = [state EXCEPT ![t] = "crashed"]
  /\ fault' = [fault EXCEPT ![t] = sig]

(* thread_startup: the routine is read from tt, and from the memory that   *)
(* was freed when the table is being moved.                                *)
Startup(t) ==
  /\ state[t] = "starting" /\ ~ Over
  /\ \/ state' = [state EXCEPT ![t] = "running"] /\ UNCHANGED fault
     \/ pc = "moved" /\ Crash(t, "SIGSEGV")
  /\ UNCHANGED <<rt_coredump, pc, turn, counter, tt, moved, cancelled, mem_lock, sigterm>>

Lock(t) ==
  /\ state[t] = "running" /\ mem_lock = 0 /\ ~ Over
  /\ mem_lock' = t
  /\ UNCHANGED <<rt_coredump, pc, turn, counter, tt, moved, state, fault, cancelled, sigterm>>

Unlock(t) ==
  /\ state[t] = "running" /\ mem_lock = t /\ ~ Over
  /\ mem_lock' = 0
  /\ UNCHANGED <<rt_coredump, pc, turn, counter, tt, moved, state, fault, cancelled, sigterm>>

(* What is written to the old table is lost. *)
Routine(t) ==
  /\ state[t] = "running" /\ mem_lock # t /\ ~ Over
  /\ state' = [state EXCEPT ![t] = "returned"]
  /\ tt' = [tt EXCEPT ![t].id = 0]
  /\ UNCHANGED <<rt_coredump, pc, turn, counter, moved, fault, cancelled, mem_lock, sigterm>>

(* The thread ends and nobody is told. *)
Trigger_bug(t) ==
  /\ state[t] = "returned" /\ ~ Over
  /\ state' = [state EXCEPT ![t] = "ended"]
  /\ UNCHANGED <<rt_coredump, pc, turn, counter, tt, moved, fault, cancelled, mem_lock, sigterm>>

Trigger(t) ==
  /\ state[t] = "returned" /\ ~ Over
  /\ state' = [state EXCEPT ![t] = "ended"]
  /\ sigterm' = TRUE
  /\ UNCHANGED <<rt_coredump, pc, turn, counter, tt, moved, fault, cancelled, mem_lock>>

Fault(t) ==
  /\ state[t] = "running" /\ ~ Over
  /\ \E sig \in Faults : Crash(t, sig)
  /\ UNCHANGED <<rt_coredump, pc, turn, counter, tt, moved, cancelled, mem_lock, sigterm>>

(* The handler puts back the old action of SIGSEGV only: the instruction   *)
(* is run again and another signal comes again.                            *)
Again(t) ==
  IF fault[t] = "SIGSEGV" THEN pc' = "killed" /\ UNCHANGED state
  ELSE state' = [state EXCEPT ![t] = "crashed"] /\ UNCHANGED pc

sig_handler(t) ==
  /\ state[t] = "crashed" /\ ~ Over
  /\ IF rt_coredump THEN Again(t) /\ UNCHANGED <<tt, sigterm>>
     ELSE /\ tt' = [tt EXCEPT ![t].core_dump = "waiting"]
          /\ sigterm' = TRUE
          /\ state' = [state EXCEPT ![t] = "waiting"]
          /\ UNCHANGED pc
  /\ UNCHANGED <<rt_coredump, turn, counter, moved, fault, cancelled, mem_lock>>

Dump(t) ==
  /\ state[t] = "waiting" /\ tt[t].core_dump = "allowed" /\ ~ Over
  /\ Again(t)
  /\ UNCHANGED <<rt_coredump, turn, counter, tt, moved, fault, cancelled, mem_lock, sigterm>>

(* Asynchronous: at any place, with the lock or without.                   *)
Die(t) ==
  /\ t \in cancelled /\ state[t] \notin {"none"} \union Gone /\ ~ Over
  /\ state' = [state EXCEPT ![t] = "cancelled"]
  /\ UNCHANGED <<rt_coredump, pc, turn, counter, tt, moved, fault, cancelled, mem_lock, sigterm>>

(* From outside, or mi_kill. *)
Signal ==
  /\ ~ sigterm /\ ~ Over
  /\ sigterm' = TRUE
  /\ UNCHANGED <<rt_coredump, pc, turn, counter, tt, moved, state, fault, cancelled, mem_lock>>

Attendant == pt_create_thread \/ pt_wait_signals
Handled(t) == Startup(t) \/ Unlock(t) \/ Trigger(t) \/ sig_handler(t) \/ Dump(t)
Thread(t) == Handled(t) \/ Die(t) \/ Lock(t) \/ Routine(t) \/ Fault(t)

Next == Attendant \/ Signal \/ \E t \in Threads : Thread(t)

(* A lock that is free again and again is got; what is begun goes on, and  *)
(* a cancelled thread dies.                                                *)
Fairness ==
  /\ WF_threadVars(Attendant) /\ SF_threadVars(Realloc)
  /\ \A t \in Threads : WF_threadVars(Handled(t)) /\ WF_threadVars(Die(t))

Spec == Init /\ [][Next]_threadVars /\ Fairness

-----------------------------------------------------------------------------
(* Properties *)

(* main.c:238: all threads are stopped when everything is destroyed, for   *)
(* good or until their core may be dumped, and whatever crashed or ended   *)
(* while they were cancelled.                                              *)
AllStopped ==
  pc \in {"shutdown", "resume"} =>
    \A t \in Threads : state[t] \in Gone \union {"none", "returned"} \/ tt[t].core_dump # "none"

(* A thread that was stopped with the lock of the memory keeps it.         *)
LockLost == mem_lock # 0 /\ state[mem_lock] # "running"

(* A thread that ends, or crashes in a way that the handler knows of, or a *)
(* signal, even while the others are being started, brings the process     *)
(* down, unless the lock of the memory is lost.                            *)
Fatal == sigterm \/ \E t \in Threads : state[t] = "returned" \/ (state[t] = "crashed" /\ fault[t] = "SIGSEGV")
ShutdownEnds == Fatal ~> Over \/ LockLost
=============================================================================
