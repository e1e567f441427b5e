------------------------------- MODULE DbCore -------------------------------
(***************************************************************************)
(* src/core/db: a pool of connections to one database, the queries sent to *)
(* it, the DB threads that send the blocking ones, and the dispatcher that *)
(* runs continue_query and unpack_result.                                  *)
(*                                                                         *)
(* A section under w_lock is one step.  pool->lock is held over several    *)
(* (the section of db_submit_active_query) and is a variable.              *)
(***************************************************************************)
EXTENDS Integers, Sequences, FiniteSets

CONSTANTS Queries,    (* the queries sent in the run                          *)
          Reads,      (* those of type OP_QUERY or OP_RAW, which give results *)
          Blocking,   (* those the DB threads send: all if the driver has no  *)
                      (* socket, else those with a prepared statement         *)
          Items,      (* the connections of the pool                          *)
          DbWorkers,  (* the threads of db_threads                            *)
          Events,     (* what happens in the run, out of AllEvents            *)
          Nobody      (* no thread, no query, no connection                   *)

(* Sending on a socket fails; the memory of a freed query is used again. *)
AllEvents == {"fail", "reuse"}

ASSUME DbAssumption ==
  /\ IsFiniteSet(Queries) /\ IsFiniteSet(Items) /\ IsFiniteSet(DbWorkers)
  /\ Reads \subseteq Queries /\ Blocking \subseteq Queries
  /\ Events \subseteq AllEvents
  /\ Nobody \notin Queries \union Items \union DbWorkers

(* Threads: for each query its caller, the dispatcher's worker that runs its *)
(* task, and the user of its result; and the DB threads.                     *)
Call(q) == <<"call", q>>
Task(q) == <<"task", q>>
User(q) == <<"user", q>>
Db(w)   == <<"db", w>>
NoThread == <<"none", Nobody>>

Givers == ({"task", "user"} \X Queries) \union ({"db"} \X DbWorkers)
Procs  == Givers \union ({"call"} \X Queries)

VARIABLES items,    (* pool->items: the free connections         *)
          queries,  (* pool->queries: the queries without one    *)
          lock,     (* pool->lock                                *)
          pairing,  (* the query of db_submit_active_query       *)
          waiting,  (* the queries for the DB threads            *)
          sem,      (* w_sem                                     *)
          item,     (* q->item                                   *)
          result,   (* q->res is not NULL                        *)
          pc,       (* where each thread is                      *)
          cur,      (* q of each DB thread                       *)
          told,     (* how often each query's callback was called *)
          back      (* history: how often its connection was given back *)

vars == <<items, queries, lock, pairing, waiting, sem, item, result, pc, cur, told, back>>
pool == <<items, queries, back>>

(* The connections in the order db_init opened them. *)
AllItems == CHOOSE s \in [1 .. Cardinality(Items) -> Items] :
               \A i \in Items : \E k \in DOMAIN s : s[k] = i

Init ==
  /\ items = AllItems
  /\ queries = <<>>
  /\ lock = NoThread
  /\ pairing = Nobody
  /\ waiting = <<>>
  /\ sem = 0
  /\ item = [q \in Queries |-> Nobody]
  /\ result = [q \in Queries |-> FALSE]
  /\ pc = [p \in Procs |-> IF p[1] = "db" THEN "wait" ELSE IF p[1] = "call" THEN "start" ELSE "off"]
  /\ cur = [w \in DbWorkers |-> Nobody]
  /\ told = [q \in Queries |-> 0]
  /\ back = [q \in Queries |-> 0]

Goto(p, step) == pc' = [pc EXCEPT ![p] = step]
Push(x, list) == <<x>> \o list
QueryOf(p) == IF p[1] = "db" THEN cur[p[2]] ELSE p[2]

(* What follows the call of db_submit_item: the callback, in a task. *)
Back(p) == IF p[1] = "task" THEN "answer" ELSE IF p[1] = "db" THEN "wait" ELSE "off"

Release(p) == lock' = NoThread /\ pairing' = Nobody /\ Goto(p, Back(p))

-----------------------------------------------------------------------------
(* db_submit_query and db_submit_item up to the call of                     *)
(* db_submit_active_query, under the lock they took.                        *)

Pair(p, q, i) ==
  /\ lock' = p
  /\ pairing' = q
  /\ item' = [item EXCEPT ![q] = i]
  /\ Goto(p, "active")

SubmitPaired(q) ==
  /\ pc[Call(q)] = "start" /\ lock = NoThread
  /\ items # <<>>
  /\ items' = Tail(items)
  /\ Pair(Call(q), q, Head(items))
  /\ UNCHANGED <<queries, waiting, sem, result, cur, told, back>>

SubmitPending(q) ==
  /\ pc[Call(q)] = "start" /\ lock = NoThread
  /\ items = <<>>
  /\ queries' = Push(q, queries)
  /\ Goto(Call(q), "off")
  /\ UNCHANGED <<items, lock, pairing, waiting, sem, item, result, cur, told, back>>

(* The pending queries are forgotten. *)
GivePaired_bug(p) == FALSE

GivePaired(p) ==
  /\ pc[p] = "give" /\ lock = NoThread
  /\ queries # <<>>
  /\ queries' = Tail(queries)
  /\ back' = [back EXCEPT ![QueryOf(p)] = @ + 1]
  /\ Pair(p, Head(queries), item[QueryOf(p)])
  /\ UNCHANGED <<items, waiting, sem, result, cur, told>>

(* The connection is kept free although a query is pending. *)
GiveFree_bug(p) ==
  /\ pc[p] = "give" /\ lock = NoThread
  /\ items' = Push(item[QueryOf(p)], items)
  /\ back' = [back EXCEPT ![QueryOf(p)] = @ + 1]
  /\ Goto(p, Back(p))
  /\ UNCHANGED <<queries, lock, pairing, waiting, sem, item, result, cur, told>>

GiveFree(p) ==
  /\ pc[p] = "give" /\ lock = NoThread
  /\ queries = <<>>
  /\ items' = Push(item[QueryOf(p)], items)
  /\ back' = [back EXCEPT ![QueryOf(p)] = @ + 1]
  /\ Goto(p, Back(p))
  /\ UNCHANGED <<queries, lock, pairing, waiting, sem, item, result, cur, told>>

-----------------------------------------------------------------------------
(* db_submit_active_query, and the release of the lock after it. *)

StartBlocking(p) ==
  /\ pc[p] = "active" /\ pairing \in Blocking
  /\ waiting' = Push(pairing, waiting)
  /\ Goto(p, "post")
  /\ UNCHANGED <<pool, lock, pairing, sem, item, result, cur, told>>

(* Only the first query of the list wakes a thread. *)
Post_bug(p) ==
  /\ pc[p] = "post"
  /\ sem' = IF Len(waiting) = 1 THEN sem + 1 ELSE sem
  /\ Release(p)
  /\ UNCHANGED <<pool, waiting, item, result, cur, told>>

Post(p) ==
  /\ pc[p] = "post"
  /\ sem' = sem + 1
  /\ Release(p)
  /\ UNCHANGED <<pool, waiting, item, result, cur, told>>

(* send_query and submit_task. *)
StartOnSocket(p) ==
  /\ pc[p] = "active" /\ pairing \notin Blocking
  /\ lock' = NoThread /\ pairing' = Nobody
  /\ pc' = [pc EXCEPT ![p] = Back(p), ![Task(pairing)] = "armed"]
  /\ UNCHANGED <<pool, waiting, sem, item, result, cur, told>>

(* send_query fails: "TODO error checking". *)
StartFails(p) ==
  /\ "fail" \in Events
  /\ pc[p] = "active" /\ pairing \notin Blocking
  /\ Release(p)
  /\ UNCHANGED <<pool, waiting, sem, item, result, cur, told>>

-----------------------------------------------------------------------------
(* The dispatcher's tasks of a query. *)

(* unpack_result gives the connection of a result on in the callback. *)
Unpacked_bug(q, res) == IF q \in Reads THEN "give" ELSE "answer"

(* unpack_result: a query without a result gives its connection back first, *)
(* one with a result leaves that to its user.                               *)
Unpacked(q, res) == IF q \in Reads /\ ~ res THEN "give" ELSE "answer"

(* What the driver may leave in q->res: a write has no rows, and a failed or *)
(* raw query need not have any.                                             *)
Results(q) == IF q \in Reads THEN BOOLEAN ELSE {FALSE}

(* continue_query when the driver has the whole answer; before that it puts *)
(* the socket in the reactor again, and nothing else changes.               *)
ContinueQuery(q) ==
  /\ pc[Task(q)] = "armed"
  /\ \E res \in Results(q) :
        /\ result' = [result EXCEPT ![q] = res]
        /\ Goto(Task(q), IF q \in Reads THEN Unpacked(q, res) ELSE "give")
  /\ UNCHANGED <<pool, lock, pairing, waiting, sem, item, cur, told>>

(* The callback, and shm_free(q).  The user of a result calls               *)
(* db_finalize_fetch in the callback or at any time after it.               *)
Answer(q) ==
  /\ pc[Task(q)] = "answer"
  /\ told' = [told EXCEPT ![q] = @ + 1]
  /\ pc' = [pc EXCEPT ![Task(q)] = "off",
                      ![User(q)] = IF result[q] THEN "give" ELSE @]
  /\ UNCHANGED <<pool, lock, pairing, waiting, sem, item, result, cur>>

-----------------------------------------------------------------------------
(* work: a DB thread. *)

(* sem_trywait for sem_wait. *)
Wait_bug(w) ==
  /\ pc[Db(w)] = "wait"
  /\ sem' = sem - 1
  /\ Goto(Db(w), "pop")
  /\ UNCHANGED <<pool, lock, pairing, waiting, item, result, cur, told>>

Wait(w) ==
  /\ pc[Db(w)] = "wait" /\ sem > 0
  /\ sem' = sem - 1
  /\ Goto(Db(w), "pop")
  /\ UNCHANGED <<pool, lock, pairing, waiting, item, result, cur, told>>

Pop(w) ==
  /\ pc[Db(w)] = "pop" /\ waiting # <<>>
  /\ waiting' = Tail(waiting)
  /\ cur' = [cur EXCEPT ![w] = Head(waiting)]
  /\ Goto(Db(w), "send")
  /\ UNCHANGED <<pool, lock, pairing, sem, item, result, told>>

(* send_query, then put_task_simple of unpack_result. *)
SendAndPut(w) ==
  /\ pc[Db(w)] = "send"
  /\ \E res \in Results(cur[w]) :
        /\ result' = [result EXCEPT ![cur[w]] = res]
        /\ pc' = [pc EXCEPT ![Db(w)] = "sent", ![Task(cur[w])] = Unpacked(cur[w], res)]
  /\ UNCHANGED <<pool, lock, pairing, waiting, sem, item, cur, told>>

(* q->type is read again: by now unpack_result may have freed q, and        *)
(* whoever allocated its memory may have written something else there.      *)
Reread(w) ==
  /\ pc[Db(w)] = "sent"
  /\ \E read \in (IF told[cur[w]] > 0 /\ "reuse" \in Events
                  THEN BOOLEAN ELSE {cur[w] \in Reads}) :
        Goto(Db(w), IF read THEN "wait" ELSE "give")
  /\ UNCHANGED <<pool, lock, pairing, waiting, sem, item, result, cur, told>>

-----------------------------------------------------------------------------
Submit(q) == SubmitPaired(q) \/ SubmitPending(q)
Give(p)   == GivePaired(p) \/ GiveFree(p)
Start(p)  == StartBlocking(p) \/ Post(p) \/ StartOnSocket(p) \/ StartFails(p)
RunTask(q) == ContinueQuery(q) \/ Answer(q)
Work(w)   == Wait(w) \/ Pop(w) \/ SendAndPut(w) \/ Reread(w)

Next == \/ \E q \in Queries : Submit(q) \/ RunTask(q)
        \/ \E p \in Procs : Start(p)
        \/ \E p \in Givers : Give(p)
        \/ \E w \in DbWorkers : Work(w)

Spec == Init /\ [][Next]_vars

(* Threads go on, tasks are run, the database answers, and the user of a    *)
(* result gives its connection back.  Start is under the lock.              *)
FairSpec ==
  /\ Spec
  /\ \A q \in Queries : WF_vars(RunTask(q))
  /\ WF_vars(\E p \in Procs : Start(p))
  /\ \A p \in Givers : WF_vars(Give(p))
  /\ \A w \in DbWorkers : WF_vars(Work(w))

-----------------------------------------------------------------------------
(* Properties *)

InList(q, list) == \E k \in DOMAIN list : list[k] = q

Stage(q) ==
  IF InList(q, queries) THEN "pending"
  ELSE IF item[q] = Nobody THEN "new"
  ELSE IF back[q] = 0 THEN "using" ELSE "back"

(* Queries that have a connection they did not give back. *)
Using == { q \in Queries : Stage(q) = "using" }

Steps == {"start", "active", "post", "give", "answer", "armed",
          "wait", "pop", "send", "sent", "off"}

TypeOK ==
  /\ items \in Seq(Items)
  /\ queries \in Seq(Queries)
  /\ lock \in Procs \union {NoThread}
  /\ pairing \in Queries \union {Nobody}
  /\ waiting \in Seq(Queries)
  /\ sem \in Nat
  /\ item \in [Queries -> Items \union {Nobody}]
  /\ result \in [Queries -> BOOLEAN]
  /\ pc \in [Procs -> Steps]
  /\ cur \in [DbWorkers -> Queries \union {Nobody}]
  /\ told \in [Queries -> Nat]
  /\ back \in [Queries -> Nat]

(* sem_post comes after w_lock is released and sem_wait before it is taken: *)
(* a DB thread that has a token finds a query in the list.                  *)
At(step) == { p \in Procs : pc[p] = step }
SemMatchesList == Len(waiting) = sem + Cardinality(At("pop")) + Cardinality(At("post"))

(* The rows of a result are read from its connection: nobody else has it    *)
(* until db_finalize_fetch gives it back.                                   *)
ResultKeepsItem ==
  \A q \in Queries : pc[User(q)] = "give" =>
     /\ ~ InList(item[q], items)
     /\ \A r \in Using : item[r] = item[q] => r = q
     /\ q \in Using

(* db_submit_query, db_submit_item, the tasks and the DB threads implement  *)
(* DbPool: a connection serves one query at a time, none is kept free while *)
(* a query is pending, and each query is answered once.                     *)
Pool == INSTANCE DbPool WITH NoItem <- Nobody, conn <- item,
                             stage <- [q \in Queries |-> Stage(q)]
PoolSpec == Pool!Spec

(* Queries nobody will answer: send_query failed on a socket, and the query *)
(* and its connection were forgotten.                                       *)
Forgotten ==
  { q \in Using : /\ told[q] = 0 /\ pairing # q /\ ~ InList(q, waiting)
                  /\ pc[Task(q)] = "off"
                  /\ \A w \in DbWorkers : ~ (pc[Db(w)] = "send" /\ cur[w] = q) }

(* Every query that was submitted is answered, as long as no connection of  *)
(* the pool was lost with a forgotten query.                                *)
AllAnswered ==
  \A q \in Queries : pc[Call(q)] # "start" ~> told[q] > 0 \/ Forgotten # {}
=============================================================================
