----------------------------- MODULE Dispatcher -----------------------------
(***************************************************************************)
(* src/core/dispatcher/dispatcher.c: the queue between the threads that    *)
(* find work (the reactor, timer and DB threads, and workers whose handler *)
(* queues more work) and the worker threads of main.c that run it.  It is  *)
(* a binary heap in a fixed array, a spin lock around the heap and a       *)
(* semaphore that counts the queued tasks.                                 *)
(*                                                                         *)
(* Every turn of the sift loops is a step of its own, so that the heap is  *)
(* seen in the states the code really leaves it in.                        *)
(***************************************************************************)
EXTENDS Integers, FiniteSets

CONSTANTS Producers,  (* reactor, timer and DB threads: they only put tasks   *)
          Workers,    (* worker threads: they get tasks, run them, may put    *)
          Tasks,      (* the tasks that can be in flight                      *)
          Prio,       (* fd_map.priority of each task                         *)
          MaxTasks,   (* MAX_TASKS, the length of the array nodes             *)
          NoTask,     (* an array slot never written, or a thread without one *)
          NoThread    (* the lock is free                                     *)

Threads == Producers \union Workers

ASSUME ThreadsAssumption ==
  /\ IsFiniteSet(Producers)
  /\ IsFiniteSet(Workers)
  /\ Producers \intersect Workers = {}
  /\ NoThread \notin Threads

ASSUME TasksAssumption ==
  /\ IsFiniteSet(Tasks)
  /\ NoTask \notin Tasks
  /\ Prio \in [Tasks -> Int]
  /\ MaxTasks \in Nat \ {0}

VARIABLES nodes,  (* d->nodes                                        *)
          size,   (* d->size                                         *)
          lock,   (* d->lock: the thread that holds it               *)
          sem,    (* d->sem                                          *)
          pc,     (* where each thread is                            *)
          arg,    (* the task a thread is putting (n of put_task)    *)
          hand,   (* the task a worker has taken (n of get_task)      *)
          cur     (* cur of the sift loop, meaningful under the lock *)

vars == <<nodes, size, lock, sem, pc, arg, hand, cur>>

Slots == 0 .. MaxTasks - 1

(* Steps of a thread.  "idle" is a producer between two tasks, "run" a      *)
(* worker in the callback of its task, "wild" a thread that wrote past the  *)
(* end of nodes: what its process does from there on is not modelled.       *)
Steps == {"idle", "put_lock", "put_sift", "put_post",
          "get_wait", "get_lock", "get_sift", "run", "wild"}

Parent(i) == (i - 1) \div 2
Kids(i)   == {2 * i + 1, 2 * i + 2}

Queued   == { nodes[i] : i \in 0 .. size - 1 }
InFlight == Queued \union { arg[p] : p \in { q \in Threads : pc[q] \in {"put_lock", "wild"} } }

Init ==
  /\ nodes = [i \in Slots |-> NoTask]
  /\ size = 0
  /\ lock = NoThread
  /\ sem = 0
  /\ pc = [p \in Threads |-> IF p \in Workers THEN "get_wait" ELSE "idle"]
  /\ arg = [p \in Threads |-> NoTask]
  /\ hand = [w \in Workers |-> NoTask]
  /\ cur = 0

Goto(p, step) == pc' = [pc EXCEPT ![p] = step]

Swap_bug(i, j) == nodes' = [nodes EXCEPT ![j] = nodes[i]]  \* no tmp

Swap(i, j) == nodes' = [nodes EXCEPT ![i] = nodes[j], ![j] = nodes[i]]

-----------------------------------------------------------------------------
(* put_task.  Definitions whose name ends in _bug are wrong variants of the *)
(* one they precede: the properties are shown to tell them apart from it.   *)

(* A thread calls put_task.  A descriptor is one-shot and a query or a      *)
(* context has one owner, so nobody else has the same task in flight; the   *)
(* handler that took it may still be running (it re-arms its descriptor).   *)
PutCall(p, t) ==
  /\ pc[p] \in {"idle", "run"}
  /\ t \notin InFlight
  /\ arg' = [arg EXCEPT ![p] = t]
  /\ Goto(p, "put_lock")
  /\ UNCHANGED <<nodes, size, lock, sem, hand, cur>>

(* lock_get, nodes[size] = n, size++. *)
PutEnter(p) ==
  /\ pc[p] = "put_lock"
  /\ lock = NoThread
  /\ size < MaxTasks
  /\ lock' = p
  /\ nodes' = [nodes EXCEPT ![size] = arg[p]]
  /\ size' = size + 1
  /\ cur' = size
  /\ Goto(p, "put_sift")
  /\ UNCHANGED <<sem, arg, hand>>

(* The last slot is never used. *)
PutOverrun_bug(p) ==
  /\ pc[p] = "put_lock"
  /\ lock = NoThread
  /\ size >= MaxTasks - 1
  /\ lock' = p
  /\ Goto(p, "wild")
  /\ UNCHANGED <<nodes, size, sem, arg, hand, cur>>

(* The same with a full array: put_task does not look at MAX_TASKS. *)
PutOverrun(p) ==
  /\ pc[p] = "put_lock"
  /\ lock = NoThread
  /\ size >= MaxTasks
  /\ lock' = p
  /\ Goto(p, "wild")
  /\ UNCHANGED <<nodes, size, sem, arg, hand, cur>>

AboveParent(i) == i > 0 /\ Prio[nodes[i]] > Prio[nodes[Parent(i)]]

PutSift(p) ==
  /\ pc[p] = "put_sift"
  /\ AboveParent(cur)
  /\ Swap(cur, Parent(cur))
  /\ cur' = Parent(cur)
  /\ UNCHANGED <<size, lock, sem, pc, arg, hand>>

PutRelease(p) ==
  /\ pc[p] = "put_sift"
  /\ ~ AboveParent(cur)
  /\ lock' = NoThread
  /\ Goto(p, "put_post")
  /\ UNCHANGED <<nodes, size, sem, arg, hand, cur>>

(* The post is forgotten. *)
PutPost_bug(p) ==
  /\ pc[p] = "put_post"
  /\ arg' = [arg EXCEPT ![p] = NoTask]
  /\ Goto(p, IF p \in Workers THEN "run" ELSE "idle")
  /\ UNCHANGED <<nodes, size, lock, sem, hand, cur>>

(* sem_post, after the lock was released; put_task returns. *)
PutPost(p) ==
  /\ pc[p] = "put_post"
  /\ sem' = sem + 1
  /\ arg' = [arg EXCEPT ![p] = NoTask]
  /\ Goto(p, IF p \in Workers THEN "run" ELSE "idle")
  /\ UNCHANGED <<nodes, size, lock, hand, cur>>

-----------------------------------------------------------------------------
(* get_task *)

(* The semaphore is used as a flag. *)
GetWait_bug(w) ==
  /\ pc[w] = "get_wait"
  /\ sem > 0
  /\ Goto(w, "get_lock")
  /\ UNCHANGED <<nodes, size, lock, sem, arg, hand, cur>>

GetWait(w) ==
  /\ pc[w] = "get_wait"
  /\ sem > 0
  /\ sem' = sem - 1
  /\ Goto(w, "get_lock")
  /\ UNCHANGED <<nodes, size, lock, arg, hand, cur>>

(* The task put last is taken instead of the root. *)
GetEnter_bug(w) ==
  /\ pc[w] = "get_lock"
  /\ lock = NoThread
  /\ lock' = w
  /\ hand' = [hand EXCEPT ![w] = nodes[size - 1]]
  /\ size' = size - 1
  /\ cur' = 0
  /\ Goto(w, "get_sift")
  /\ UNCHANGED <<nodes, sem, arg>>

(* lock_get, *n = nodes[0], nodes[0] = nodes[size - 1], size--. *)
GetEnter(w) ==
  /\ pc[w] = "get_lock"
  /\ lock = NoThread
  /\ lock' = w
  /\ hand' = [hand EXCEPT ![w] = nodes[0]]
  /\ nodes' = [nodes EXCEPT ![0] = nodes[size - 1]]
  /\ size' = size - 1
  /\ cur' = 0
  /\ Goto(w, "get_sift")
  /\ UNCHANGED <<sem, arg>>

(* The second son is never looked at. *)
Heaviest_bug(i) ==
  IF Prio[nodes[2 * i + 1]] > Prio[nodes[i]] THEN 2 * i + 1 ELSE i

(* The son the loop of get_task sinks nodes[i] to, or i itself: the first  *)
(* of the most urgent of the three, among those below size.                *)
Heaviest(i) ==
  LET family == {i} \union { k \in Kids(i) : k < size }
      best   == { k \in family : \A j \in family : Prio[nodes[j]] <= Prio[nodes[k]] }
  IN  CHOOSE k \in best : \A j \in best : k <= j

GetSift(w) ==
  /\ pc[w] = "get_sift"
  /\ 2 * cur + 1 < size
  /\ Heaviest(cur) # cur
  /\ Swap(cur, Heaviest(cur))
  /\ cur' = Heaviest(cur)
  /\ UNCHANGED <<size, lock, sem, pc, arg, hand>>

(* The loop ends one level too early. *)
GetRelease_bug(w) ==
  /\ pc[w] = "get_sift"
  /\ (4 * cur + 1 < size => Heaviest(cur) = cur)
  /\ lock' = NoThread
  /\ Goto(w, "run")
  /\ UNCHANGED <<nodes, size, sem, arg, hand, cur>>

GetRelease(w) ==
  /\ pc[w] = "get_sift"
  /\ (2 * cur + 1 < size => Heaviest(cur) = cur)
  /\ lock' = NoThread
  /\ Goto(w, "run")
  /\ UNCHANGED <<nodes, size, sem, arg, hand, cur>>

(* worker_thread: the callback returns and the loop calls get_task again. *)
Finish(w) ==
  /\ pc[w] = "run"
  /\ hand' = [hand EXCEPT ![w] = NoTask]
  /\ Goto(w, "get_wait")
  /\ UNCHANGED <<nodes, size, lock, sem, arg, cur>>

-----------------------------------------------------------------------------
Put(p)  == PutEnter(p) \/ PutOverrun(p) \/ PutSift(p) \/ PutRelease(p) \/ PutPost(p)
Get(w)  == GetWait(w) \/ GetEnter(w) \/ GetSift(w) \/ GetRelease(w)

Next ==
  \/ \E p \in Threads : (\E t \in Tasks : PutCall(p, t)) \/ Put(p)
  \/ \E w \in Workers : Get(w) \/ Finish(w)

Spec == Init /\ [][Next]_vars

(* A thread that has entered put_task or get_task goes on, and a callback   *)
(* returns.  The spin lock is unfair, so weak fairness is all a thread that *)
(* waits for it may count on.                                               *)
FairSpec ==
  /\ Spec
  /\ \A p \in Threads : WF_vars(Put(p))
  /\ \A w \in Workers : WF_vars(Get(w)) /\ WF_vars(Finish(w))

-----------------------------------------------------------------------------
(* Properties *)

TypeOK ==
  /\ nodes \in [Slots -> Tasks \union {NoTask}]
  /\ size \in 0 .. MaxTasks
  /\ lock \in Threads \union {NoThread}
  /\ sem \in Nat
  /\ pc \in [Threads -> Steps]
  /\ arg \in [Threads -> Tasks \union {NoTask}]
  /\ hand \in [Workers -> Tasks \union {NoTask}]
  /\ cur \in Slots

(* Whenever nobody holds the lock, put_task and get_task have left a heap:  *)
(* no task is more urgent than the one above it.                            *)
HeapOrder ==
  lock = NoThread => \A i \in 1 .. size - 1 : ~ AboveParent(i)

(* put_task never loses a task or stores it twice, whatever the sift loops  *)
(* swap and whatever get_task moves to the root: the array holds as many    *)
(* different tasks as size says, and none that a thread is still to put.    *)
Before(p) == pc[p] \in {"put_lock", "wild"}  (* called put_task, nothing stored *)

NoTaskTwice ==
  /\ \A i, j \in 0 .. size - 1 : nodes[i] = nodes[j] => i = j
  /\ Queued \subseteq Tasks
  /\ \A p \in Threads : Before(p) => arg[p] \notin Queued
  /\ \A p, q \in Threads : Before(p) /\ Before(q) /\ arg[p] = arg[q] => p = q

(* The semaphore, posted outside the lock, never gets ahead of the heap:    *)
(* tokens, tokens already taken by a get_task that waits for the lock and   *)
(* tokens a put_task has yet to post add up to the tasks in the array, so   *)
(* get_task never takes the root of an empty heap and no queued task is     *)
(* left without the token that wakes a worker for it.                       *)
Takers  == { w \in Workers : pc[w] = "get_lock" }
Posters == { p \in Threads : pc[p] \in {"put_sift", "put_post"} }

SemMatchesHeap == size = sem + Cardinality(Takers) + Cardinality(Posters)

(* get_task finds a task behind every token, whichever thread got the lock  *)
(* first: it never reads nodes[0] or nodes[size - 1] of an empty heap.      *)
TokenHasTask == \A w \in Workers : pc[w] = "get_lock" => size > 0

(* put_task writes past the end of nodes only when more than MAX_TASKS      *)
(* tasks are in flight: the heap itself wastes no slot.                     *)
OverrunOnlyWhenFull ==
  (\E p \in Threads : pc[p] = "wild") => Cardinality(InFlight) > MaxTasks

(* put_task and get_task keep the promise of TaskPool: a task enters the    *)
(* pool when it is stored, and a worker takes one of the most urgent ones.  *)
Pool == INSTANCE TaskPool WITH pool <- Queued

PoolSpec == Pool!Spec

(* The inductive invariant behind all of these.  The heap is one but for    *)
(* the slot the thread in a sift loop works on: below put_task's cur and    *)
(* around get_task's cur the order is only broken by cur itself.            *)
ThreadsOK ==
  /\ \A p \in Threads :
       /\ lock = p <=> pc[p] \in {"put_sift", "get_sift", "wild"}
       /\ pc[p] = "idle" => p \in Producers
       /\ pc[p] \in {"get_wait", "get_lock", "get_sift", "run"} => p \in Workers
       /\ pc[p] \in {"put_lock", "put_sift", "put_post", "wild"} => arg[p] \in Tasks
       /\ pc[p] = "put_sift" => cur < size
       /\ pc[p] = "get_sift" => cur <= size
  /\ \A w \in Workers : hand[w] = NoTask <=> pc[w] \in {"get_wait", "get_lock"}

Ordered(S) == \A i \in S : ~ AboveParent(i)

KidsBelowGrandparent ==
  \A i \in 1 .. size - 1 :
    Parent(i) = cur /\ cur > 0 => Prio[nodes[i]] <= Prio[nodes[Parent(cur)]]

HeapInv ==
  /\ HeapOrder
  /\ \A p \in Threads : pc[p] = "put_sift" =>
       /\ Ordered({ i \in 1 .. size - 1 : i # cur })
       /\ KidsBelowGrandparent
  /\ \A w \in Workers : pc[w] = "get_sift" =>
       /\ Ordered({ i \in 1 .. size - 1 : Parent(i) # cur })
       /\ KidsBelowGrandparent

OverrunInv == (\E p \in Threads : pc[p] = "wild") => size >= MaxTasks

Inv ==
  /\ TypeOK
  /\ ThreadsOK
  /\ SemMatchesHeap
  /\ NoTaskTwice
  /\ HeapInv
  /\ OverrunInv

(* When threads stop putting tasks the workers run all that was queued,     *)
(* however unfair the spin lock is, and all of them go back to wait.        *)
Putting == \E p \in Threads : pc[p] \in {"put_lock", "put_sift", "put_post", "wild"}

Drained == size = 0 /\ \A w \in Workers : pc[w] = "get_wait"

QueueDrains == <>[](~ Putting) => <>[]Drained

-----------------------------------------------------------------------------
(* The priorities of the runs are those of the code: 1 for a descriptor to  *)
(* read, 2 for a context to resume, 100 for a timer.  Two tasks share the   *)
(* lowest one, as two sockets do.                                           *)
UsualPrio == [t \in Tasks |-> <<1, 1, 2, 100>>[t]]
=============================================================================
