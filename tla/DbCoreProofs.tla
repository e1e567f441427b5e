----------------------------- MODULE DbCoreProofs -----------------------------
(***************************************************************************)
(* Proofs about DbCore, for any finite sets of queries, connections and    *)
(* DB threads, as long as the memory of a freed query is not used again    *)
(* before its DB thread has read the type once more.                       *)
(***************************************************************************)
EXTENDS DbCore, FiniteSetTheorems, SequenceTheorems, TLAPS

NoDup(list) == \A j, k \in DOMAIN list : list[j] = list[k] => j = k

(* Where each kind of thread can be, and whom the lock belongs to. *)
StepsOf(p) ==
  IF p[1] = "call" THEN {"start", "active", "post", "off"}
  ELSE IF p[1] = "task" THEN {"armed", "give", "active", "post", "answer", "off"}
  ELSE IF p[1] = "user" THEN {"give", "active", "post", "off"}
  ELSE {"wait", "pop", "send", "sent", "give", "active", "post"}

ThreadsOK ==
  /\ \A p \in Procs : pc[p] \in StepsOf(p)
  /\ \A w \in DbWorkers : pc[Db(w)] \notin {"wait", "pop"} => cur[w] \in Queries
  /\ \A p \in Procs : lock = p <=> pc[p] \in {"active", "post"}
  /\ lock # NoThread <=> pairing # Nobody

Starting(q) == pairing = q /\ \E p \in Procs : pc[p] = "active"
Waiting(q)  == InList(q, waiting)
Sending(q)  == \E w \in DbWorkers : pc[Db(w)] = "send" /\ cur[w] = q

(* A query before its task, a query with a task, and the user of a result    *)
(* come one after the other.                                                *)
Early(q) == item[q] = Nobody \/ Starting(q) \/ Waiting(q) \/ Sending(q)

InOrder ==
  \A q \in Queries :
    /\ Early(q) => pc[Task(q)] = "off"
    /\ Early(q) \/ pc[Task(q)] # "off" => pc[User(q)] = "off" /\ told[q] = 0
    /\ pc[Task(q)] \in {"give", "active", "post"} => ~ result[q]

(* A query that waits for a connection has not been started, and one that   *)
(* was started once is not started again.                                   *)
ListsOK ==
  /\ NoDup(items) /\ NoDup(queries) /\ NoDup(waiting)
  /\ \A q \in Queries :
       /\ InList(q, queries) => item[q] = Nobody /\ pc[Call(q)] # "start"
       /\ pc[Call(q)] = "start" => item[q] = Nobody
       /\ item[q] = Nobody => back[q] = 0
       /\ pairing = q => item[q] # Nobody

(* A connection is free or serves one query. *)
Connected(q) == item[q] # Nobody /\ back[q] = 0

ItemsOK ==
  \A q \in Queries : Connected(q) =>
    /\ ~ InList(item[q], items)
    /\ \A r \in Queries : Connected(r) /\ item[r] = item[q] => r = q

(* The thread that is to give the connection of its query back. *)
Holds(p) ==
  \/ pc[p] \in {"give", "armed", "send"}
  \/ p[1] = "task" /\ pc[p] = "answer" /\ result[p[2]]
  \/ p[1] = "db" /\ pc[p] = "sent" /\ cur[p[2]] \notin Reads

HoldersOK ==
  /\ \A p \in Givers, q \in Queries : Holds(p) /\ QueryOf(p) = q => Connected(q)
  /\ \A p, r \in Givers : Holds(p) /\ Holds(r) /\ QueryOf(p) = QueryOf(r) => p = r
  /\ \A q \in Queries : Waiting(q) \/ Starting(q) =>
        /\ Connected(q)
        /\ \A p \in Givers : Holds(p) => QueryOf(p) # q
  /\ \A q \in Queries : ~ (Waiting(q) /\ Starting(q))

IInv == TypeOK /\ ThreadsOK /\ InOrder /\ ListsOK /\ ItemsOK /\ HoldersOK

-----------------------------------------------------------------------------
(* Lists and thread names *)

(* What Push does to the elements of a list. *)
LEMMA PushProps ==
  ASSUME NEW S, NEW list \in Seq(S), NEW x \in S
  PROVE  /\ Push(x, list) \in Seq(S)
         /\ Len(Push(x, list)) = Len(list) + 1
         /\ \A y : InList(y, Push(x, list)) <=> y = x \/ InList(y, list)
         /\ NoDup(list) /\ ~ InList(x, list) => NoDup(Push(x, list))
<1> DEFINE long == Push(x, list)
<1>1. /\ long \in Seq(S)
      /\ Len(long) = Len(list) + 1
      /\ DOMAIN long = 1 .. Len(list) + 1
      /\ DOMAIN list = 1 .. Len(list) /\ Len(list) \in Nat
  BY DEF Push
<1>2. long[1] = x /\ \A k \in DOMAIN list : long[k + 1] = list[k]
  BY DEF Push
<1>3. \A k \in DOMAIN long : k = 1 \/ (k - 1 \in DOMAIN list /\ long[k] = list[k - 1])
  BY <1>1, <1>2
<1> HIDE DEF long
<1>4. ASSUME NEW y
      PROVE  InList(y, long) <=> y = x \/ InList(y, list)
  <2>1. InList(y, long) => y = x \/ InList(y, list)
    BY <1>1, <1>2, <1>3 DEF InList
  <2>2. y = x => InList(y, long)
    BY <1>1, <1>2 DEF InList
  <2>3. ASSUME InList(y, list)
        PROVE  InList(y, long)
    <3>1. PICK k \in DOMAIN list : list[k] = y
      BY <2>3 DEF InList
    <3>2. k + 1 \in DOMAIN long /\ long[k + 1] = y
      BY <3>1, <1>1, <1>2
    <3> QED
      BY <3>2 DEF InList
  <2> QED
    BY <2>1, <2>2, <2>3
<1>5. ASSUME NoDup(list), ~ InList(x, list), NEW j \in DOMAIN long, NEW k \in DOMAIN long,
             long[j] = long[k]
      PROVE  j = k
  BY <1>1, <1>2, <1>3, <1>5 DEF NoDup, InList
<1> QED
  BY <1>1, <1>4, <1>5 DEF NoDup, long

(* What Head and Tail do to the elements of a list. *)
LEMMA TailProps ==
  ASSUME NEW S, NEW list \in Seq(S), list # <<>>
  PROVE  /\ Head(list) \in S /\ InList(Head(list), list)
         /\ Tail(list) \in Seq(S)
         /\ Len(Tail(list)) = Len(list) - 1
         /\ \A y : InList(y, Tail(list)) => InList(y, list)
         /\ \A y : InList(y, list) => y = Head(list) \/ InList(y, Tail(list))
         /\ NoDup(list) => NoDup(Tail(list)) /\ ~ InList(Head(list), Tail(list))
<1>1. /\ Len(list) \in Nat \ {0}
      /\ DOMAIN list = 1 .. Len(list)
      /\ Head(list) = list[1] /\ list[1] \in S
  BY EmptySeq
<1>2. /\ Tail(list) \in Seq(S)
      /\ Len(Tail(list)) = Len(list) - 1
      /\ DOMAIN Tail(list) = 1 .. Len(list) - 1
      /\ \A k \in 1 .. Len(list) - 1 : Tail(list)[k] = list[k + 1]
  BY <1>1
<1> DEFINE short == Tail(list)
<1> HIDE DEF short
<1>3. \A k \in DOMAIN short : k + 1 \in DOMAIN list /\ short[k] = list[k + 1] /\ k # 0
  BY <1>1, <1>2 DEF short
<1>4. \A k \in DOMAIN list : k = 1 \/ (k - 1 \in DOMAIN short /\ short[k - 1] = list[k])
  BY <1>1, <1>2 DEF short
<1>5. InList(Head(list), list)
  BY <1>1 DEF InList
<1>6. \A y : InList(y, short) => InList(y, list)
  BY <1>3 DEF InList
<1>7. \A y : InList(y, list) => y = Head(list) \/ InList(y, short)
  BY <1>1, <1>4 DEF InList
<1>8. ASSUME NoDup(list)
      PROVE  NoDup(short) /\ ~ InList(Head(list), short)
  <2>1. ASSUME NEW j \in DOMAIN short, NEW k \in DOMAIN short, short[j] = short[k]
        PROVE  j = k
    <3>1. j + 1 = k + 1
      BY <1>3, <1>8, <2>1 DEF NoDup
    <3>2. j \in Nat /\ k \in Nat
      BY <1>1, <1>2 DEF short
    <3> QED
      BY <3>1, <3>2
  <2>2. ASSUME InList(Head(list), short)
        PROVE  FALSE
    <3>1. PICK k \in DOMAIN short : short[k] = list[1]
      BY <1>1, <2>2 DEF InList
    <3>2. k + 1 = 1
      BY <1>1, <1>3, <1>8, <3>1 DEF NoDup
    <3>3. k \in Nat /\ k # 0
      BY <1>1, <1>2, <1>3 DEF short
    <3> QED
      BY <3>2, <3>3
  <2> QED
    BY <2>1, <2>2 DEF NoDup
<1> QED
  BY <1>1, <1>2, <1>5, <1>6, <1>7, <1>8 DEF short

(* The names of different threads differ. *)
LEMMA Names ==
  /\ \A q \in Queries : /\ Call(q) \in Procs /\ Task(q) \in Givers /\ User(q) \in Givers
                        /\ Call(q) \notin Givers
                        /\ Call(q)[1] = "call" /\ Call(q)[2] = q
                        /\ Task(q)[1] = "task" /\ Task(q)[2] = q
                        /\ User(q)[1] = "user" /\ User(q)[2] = q
  /\ \A w \in DbWorkers : Db(w) \in Givers /\ Db(w)[1] = "db" /\ Db(w)[2] = w
  /\ Givers \subseteq Procs /\ NoThread \notin Procs
  /\ \A p \in Givers : \/ p[1] = "task" /\ p[2] \in Queries /\ p = Task(p[2])
                       \/ p[1] = "user" /\ p[2] \in Queries /\ p = User(p[2])
                       \/ p[1] = "db" /\ p[2] \in DbWorkers /\ p = Db(p[2])
  /\ \A p \in Procs : p \in Givers \/ (p[1] = "call" /\ p[2] \in Queries /\ p = Call(p[2]))
  BY DEF Call, Task, User, Db, Procs, Givers, NoThread

(* The actions, one by one. *)
LEMMA NextCases ==
  ASSUME Next
  PROVE  \/ \E q \in Queries : SubmitPaired(q) \/ SubmitPending(q) \/ ContinueQuery(q) \/ Answer(q)
         \/ \E p \in Procs : StartBlocking(p) \/ Post(p) \/ StartOnSocket(p) \/ StartFails(p)
         \/ \E p \in Givers : GivePaired(p) \/ GiveFree(p)
         \/ \E w \in DbWorkers : Wait(w) \/ Pop(w) \/ SendAndPut(w) \/ Reread(w)
  BY DEF Next, Submit, RunTask, Start, Give, Work

-----------------------------------------------------------------------------
(* Facts the steps below use *)

(* Whoever gives a connection back has a query, and the query has it. *)
LEMMA GiverFacts ==
  ASSUME IInv, NEW p \in Givers, pc[p] = "give"
  PROVE  /\ QueryOf(p) \in Queries
         /\ item[QueryOf(p)] \in Items /\ back[QueryOf(p)] = 0
         /\ ~ InList(item[QueryOf(p)], items)
<1>1. QueryOf(p) \in Queries
  BY Names DEF IInv, ThreadsOK, QueryOf
<1>2. Holds(p)
  BY DEF Holds
<1> QED
  BY <1>1, <1>2 DEF IInv, HoldersOK, Connected, ItemsOK, TypeOK

(* What db_submit_active_query works on, and where its caller can be. *)
LEMMA StarterFacts ==
  ASSUME IInv, NEW p \in Procs, pc[p] \in {"active", "post"}
  PROVE  /\ pairing \in Queries /\ item[pairing] \in Items
         /\ lock = p
         /\ \A r \in Procs : pc[r] \in {"active", "post"} => r = p
         /\ pc[p] = "active" => /\ Starting(pairing) /\ pc[Task(pairing)] = "off"
                                /\ Connected(pairing) /\ ~ Waiting(pairing)
         /\ Back(p) \in {"answer", "wait", "off"}
<1>1. lock = p /\ \A r \in Procs : pc[r] \in {"active", "post"} => r = p
  BY DEF IInv, ThreadsOK
<1>2. pairing \in Queries
  BY <1>1, Names DEF IInv, ThreadsOK, TypeOK
<1>3. item[pairing] \in Items
  BY <1>2 DEF IInv, ListsOK, TypeOK
<1>4. ASSUME pc[p] = "active"
      PROVE  /\ Starting(pairing) /\ pc[Task(pairing)] = "off"
             /\ Connected(pairing) /\ ~ Waiting(pairing)
  <2>1. Starting(pairing)
    BY <1>4 DEF Starting
  <2> QED
    BY <1>2, <2>1 DEF IInv, HoldersOK, InOrder, Early
<1> QED
  BY <1>1, <1>2, <1>3, <1>4 DEF Back

(* While nobody holds pool->lock no query is being started.                 *)
LEMMA LockFree ==
  ASSUME IInv, lock = NoThread
  PROVE  pairing = Nobody /\ \A p \in Procs : pc[p] \notin {"active", "post"}
  BY Names DEF IInv, ThreadsOK

-----------------------------------------------------------------------------
(* Types *)

(* Every step keeps the types.                                              *)
LEMMA TypeInductive ==
  ASSUME IInv, [Next]_vars
  PROVE  TypeOK'
<1> USE DEF Goto, pool, Steps
<1>0. TypeOK
  BY DEF IInv
<1>1. ASSUME NEW q \in Queries, SubmitPaired(q)
      PROVE  TypeOK'
  <2>1. Head(items) \in Items /\ Tail(items) \in Seq(Items)
    BY <1>0, <1>1, TailProps DEF SubmitPaired, TypeOK
  <2> QED
    BY <1>0, <1>1, <2>1, Names DEF SubmitPaired, Pair, TypeOK
<1>2. ASSUME NEW q \in Queries, SubmitPending(q)
      PROVE  TypeOK'
  <2>1. Push(q, queries) \in Seq(Queries)
    BY <1>0, PushProps DEF TypeOK
  <2> QED
    BY <1>0, <1>2, <2>1, Names DEF SubmitPending, TypeOK
<1>3. ASSUME NEW q \in Queries, ContinueQuery(q)
      PROVE  TypeOK'
  <2>1. PICK res \in Results(q) : /\ result' = [result EXCEPT ![q] = res]
                                  /\ Goto(Task(q), IF q \in Reads THEN Unpacked(q, res) ELSE "give")
    BY <1>3 DEF ContinueQuery
  <2>2. res \in BOOLEAN
    BY DEF Results
  <2>3. (IF q \in Reads THEN Unpacked(q, res) ELSE "give") \in {"give", "answer"}
    BY DEF Unpacked
  <2> QED
    BY <1>0, <1>3, <2>1, <2>2, <2>3 DEF ContinueQuery, TypeOK
<1>4. ASSUME NEW q \in Queries, Answer(q)
      PROVE  TypeOK'
  <2>1. told' \in [Queries -> Nat]
    BY <1>0, <1>4 DEF Answer, TypeOK
  <2>2. PICK step \in {"give", pc[User(q)]} : pc' = [pc EXCEPT ![Task(q)] = "off", ![User(q)] = step]
    BY <1>4 DEF Answer
  <2>3. step \in Steps
    <3>1. User(q) \in Procs
      BY Names
    <3>2. pc[User(q)] \in Steps
      BY <1>0, <3>1 DEF TypeOK
    <3> QED
      BY <3>2 DEF Steps
  <2> QED
    BY <1>0, <1>4, <2>1, <2>2, <2>3 DEF Answer, TypeOK
<1>5. ASSUME NEW p \in Procs, StartBlocking(p)
      PROVE  TypeOK'
  <2>1. pairing \in Queries
    BY <1>5, StarterFacts DEF StartBlocking
  <2>2. Push(pairing, waiting) \in Seq(Queries)
    BY <1>0, <2>1, PushProps DEF TypeOK
  <2> QED
    BY <1>0, <1>5, <2>2 DEF StartBlocking, TypeOK
<1>6. ASSUME NEW p \in Procs, Post(p)
      PROVE  TypeOK'
  <2>1. Back(p) \in {"answer", "wait", "off"}
    BY DEF Back
  <2> QED
    BY <1>0, <1>6, <2>1 DEF Post, Release, TypeOK
<1>7. ASSUME NEW p \in Procs, StartOnSocket(p)
      PROVE  TypeOK'
  <2>1. Back(p) \in {"answer", "wait", "off"}
    BY DEF Back
  <2> QED
    BY <1>0, <1>7, <2>1 DEF StartOnSocket, TypeOK
<1>8. ASSUME NEW p \in Procs, StartFails(p)
      PROVE  TypeOK'
  <2>1. Back(p) \in {"answer", "wait", "off"}
    BY DEF Back
  <2> QED
    BY <1>0, <1>8, <2>1 DEF StartFails, Release, TypeOK
<1>9. ASSUME NEW p \in Givers, GivePaired(p)
      PROVE  TypeOK'
  <2>1. QueryOf(p) \in Queries /\ item[QueryOf(p)] \in Items
    BY <1>9, GiverFacts DEF GivePaired
  <2>2. Head(queries) \in Queries /\ Tail(queries) \in Seq(Queries)
    BY <1>0, <1>9, TailProps DEF GivePaired, TypeOK
  <2>3. back' \in [Queries -> Nat]
    BY <1>0, <1>9, <2>1 DEF GivePaired, TypeOK
  <2> QED
    BY <1>0, <1>9, <2>1, <2>2, <2>3, Names DEF GivePaired, Pair, TypeOK
<1>10. ASSUME NEW p \in Givers, GiveFree(p)
       PROVE  TypeOK'
  <2>1. QueryOf(p) \in Queries /\ item[QueryOf(p)] \in Items
    BY <1>10, GiverFacts DEF GiveFree
  <2>2. Push(item[QueryOf(p)], items) \in Seq(Items)
    BY <1>0, <2>1, PushProps DEF TypeOK
  <2>3. back' \in [Queries -> Nat]
    BY <1>0, <1>10, <2>1 DEF GiveFree, TypeOK
  <2>4. Back(p) \in {"answer", "wait", "off"}
    BY DEF Back
  <2> QED
    BY <1>0, <1>10, <2>2, <2>3, <2>4, Names DEF GiveFree, TypeOK
<1>11. ASSUME NEW w \in DbWorkers, Wait(w)
       PROVE  TypeOK'
  <2>1. sem' \in Nat
    BY <1>0, <1>11 DEF Wait, TypeOK
  <2> QED
    BY <1>0, <1>11, <2>1 DEF Wait, TypeOK
<1>12. ASSUME NEW w \in DbWorkers, Pop(w)
       PROVE  TypeOK'
  <2>1. Head(waiting) \in Queries /\ Tail(waiting) \in Seq(Queries)
    BY <1>0, <1>12, TailProps DEF Pop, TypeOK
  <2> QED
    BY <1>0, <1>12, <2>1 DEF Pop, TypeOK
<1>13. ASSUME NEW w \in DbWorkers, SendAndPut(w)
       PROVE  TypeOK'
  <2>1. PICK res \in Results(cur[w]) :
           /\ result' = [result EXCEPT ![cur[w]] = res]
           /\ pc' = [pc EXCEPT ![Db(w)] = "sent", ![Task(cur[w])] = Unpacked(cur[w], res)]
    BY <1>13 DEF SendAndPut
  <2>2. res \in BOOLEAN /\ Unpacked(cur[w], res) \in {"give", "answer"}
    BY DEF Results, Unpacked
  <2> QED
    BY <1>0, <1>13, <2>1, <2>2 DEF SendAndPut, TypeOK
<1>14. ASSUME NEW w \in DbWorkers, Reread(w)
       PROVE  TypeOK'
  <2>1. PICK read \in BOOLEAN : Goto(Db(w), IF read THEN "wait" ELSE "give")
    BY <1>14 DEF Reread
  <2> QED
    BY <1>0, <1>14, <2>1 DEF Reread, TypeOK
<1>15. CASE UNCHANGED vars
  BY <1>0, <1>15 DEF vars, TypeOK
<1> QED
  BY <1>1, <1>2, <1>3, <1>4, <1>5, <1>6, <1>7, <1>8, <1>9, <1>10, <1>11, <1>12,
     <1>13, <1>14, <1>15, NextCases

-----------------------------------------------------------------------------
(* Threads and the lock *)

(* A step of one thread that leaves the lock alone. *)
LEMMA StepThreads ==
  ASSUME IInv, NEW p \in Procs, NEW step \in StepsOf(p) \ {"active", "post"},
         pc[p] \notin {"active", "post"},
         pc' = [pc EXCEPT ![p] = step], lock' = lock, pairing' = pairing,
         \A w \in DbWorkers : p = Db(w) /\ step \notin {"wait", "pop"} => cur'[w] \in Queries,
         \A w \in DbWorkers : p # Db(w) => cur'[w] = cur[w]
  PROVE  ThreadsOK'
<1>1. \A r \in Procs : pc'[r] = IF r = p THEN step ELSE pc[r]
  BY DEF IInv, TypeOK
<1>2. \A w \in DbWorkers : Db(w) \in Procs
  BY Names
<1> QED
  BY <1>1, <1>2 DEF IInv, ThreadsOK

(* pool->lock is taken and a query paired. *)
LEMMA PairThreads ==
  ASSUME IInv, NEW p \in Procs, NEW q \in Queries, NEW i, lock = NoThread, Pair(p, q, i),
         cur' = cur, \A w \in DbWorkers : p = Db(w) => cur[w] \in Queries
  PROVE  ThreadsOK'
<1>1. \A r \in Procs : pc'[r] = IF r = p THEN "active" ELSE pc[r]
  BY DEF IInv, TypeOK, Pair, Goto
<1>2. \A w \in DbWorkers : Db(w) \in Procs
  BY Names
<1>3. lock' = p /\ pairing' = q /\ q # Nobody /\ p # NoThread
  BY DbAssumption, Names DEF Pair
<1>4. "active" \in StepsOf(p)
  BY DEF StepsOf
<1>5. \A r \in Procs : pc[r] \notin {"active", "post"}
  BY LockFree
<1> QED
  BY <1>1, <1>2, <1>3, <1>4, <1>5 DEF IInv, ThreadsOK

(* pool->lock is released by the thread that has it. *)
LEMMA ReleaseThreads ==
  ASSUME IInv, NEW p \in Procs, pc[p] \in {"active", "post"}, NEW r \in Procs, r # p,
         NEW step \in {pc[r], "armed"}, step = "armed" => r[1] = "task",
         pc' = [pc EXCEPT ![p] = Back(p), ![r] = step],
         lock' = NoThread, pairing' = Nobody, cur' = cur
  PROVE  ThreadsOK'
<1>1. \A t \in Procs : pc'[t] = IF t = r THEN step ELSE IF t = p THEN Back(p) ELSE pc[t]
  BY DEF IInv, TypeOK
<1>2. Back(p) \in StepsOf(p) \ {"active", "post"}
  BY Names DEF Back, StepsOf
<1>3. step \in StepsOf(r) \ {"active", "post"}
  BY StarterFacts DEF StepsOf, IInv, ThreadsOK
<1>4. \A t \in Procs : pc'[t] \in StepsOf(t) \ {"active", "post"}
  BY <1>1, <1>2, <1>3, StarterFacts DEF IInv, ThreadsOK
<1>5. \A w \in DbWorkers : pc'[Db(w)] \notin {"wait", "pop"} => cur'[w] \in Queries
  <2> SUFFICES ASSUME NEW w \in DbWorkers, pc'[Db(w)] \notin {"wait", "pop"}
               PROVE  cur[w] \in Queries
    OBVIOUS
  <2>1. Db(w) \in Procs /\ Db(w)[1] = "db"
    BY Names
  <2>2. pc[Db(w)] \notin {"wait", "pop"}
    BY <1>1, <2>1
  <2> QED
    BY <2>2 DEF IInv, ThreadsOK
<1>6. NoThread \notin Procs
  BY Names
<1> QED
  BY <1>4, <1>5, <1>6 DEF ThreadsOK

(* Every step keeps each thread where its item and its connection say.      *)
LEMMA ThreadsInductive ==
  ASSUME IInv, [Next]_vars
  PROVE  ThreadsOK'
<1>0. TypeOK /\ ThreadsOK
  BY DEF IInv
<1>1. ASSUME NEW q \in Queries, SubmitPaired(q)
      PROVE  ThreadsOK'
  <2>1. Call(q) \in Procs /\ \A w \in DbWorkers : Call(q) # Db(w)
    BY Names
  <2> QED
    BY <1>1, <2>1, PairThreads DEF SubmitPaired
<1>2. ASSUME NEW q \in Queries, SubmitPending(q)
      PROVE  ThreadsOK'
  <2>1. Call(q) \in Procs /\ \A w \in DbWorkers : Call(q) # Db(w)
    BY Names
  <2>2. "off" \in StepsOf(Call(q))
    BY Names DEF StepsOf
  <2> QED
    BY <1>2, <2>1, <2>2, StepThreads DEF SubmitPending, Goto
<1>3. ASSUME NEW q \in Queries, ContinueQuery(q)
      PROVE  ThreadsOK'
  <2>1. Task(q) \in Procs /\ \A w \in DbWorkers : Task(q) # Db(w)
    BY Names
  <2>2. PICK step \in {"give", "answer"} : Goto(Task(q), step)
    BY <1>3 DEF ContinueQuery, Unpacked
  <2>3. step \in StepsOf(Task(q))
    BY Names DEF StepsOf
  <2> QED
    BY <1>3, <2>1, <2>2, <2>3, StepThreads DEF ContinueQuery, Goto
<1>4. ASSUME NEW q \in Queries, Answer(q)
      PROVE  ThreadsOK'
  <2>1. PICK step \in {"give", pc[User(q)]} : pc' = [pc EXCEPT ![Task(q)] = "off", ![User(q)] = step]
    BY <1>4 DEF Answer
  <2>2. Task(q) \in Procs /\ User(q) \in Procs /\ Task(q) # User(q)
        /\ \A w \in DbWorkers : Task(q) # Db(w) /\ User(q) # Db(w) /\ Db(w) \in Procs
    BY Names
  <2>3. \A t \in Procs : pc'[t] = IF t = User(q) THEN step ELSE IF t = Task(q) THEN "off" ELSE pc[t]
    BY <1>0, <2>1, <2>2 DEF TypeOK
  <2>4. "off" \in StepsOf(Task(q)) /\ "give" \in StepsOf(User(q))
    BY Names DEF StepsOf
  <2>5. pc[User(q)] = "off"
    BY <1>4, <2>2 DEF Answer, IInv, InOrder
  <2> QED
    BY <1>0, <1>4, <2>2, <2>3, <2>4, <2>5 DEF ThreadsOK, Answer
<1>5. ASSUME NEW p \in Procs, StartBlocking(p)
      PROVE  ThreadsOK'
  <2>1. \A t \in Procs : pc'[t] = IF t = p THEN "post" ELSE pc[t]
    BY <1>0, <1>5 DEF TypeOK, StartBlocking, Goto
  <2>2. "post" \in StepsOf(p)
    BY DEF StepsOf
  <2>3. \A w \in DbWorkers : Db(w) \in Procs
    BY Names
  <2> QED
    BY <1>0, <1>5, <2>1, <2>2, <2>3 DEF ThreadsOK, StartBlocking
<1>6. ASSUME NEW p \in Procs, Post(p) \/ StartFails(p)
      PROVE  ThreadsOK'
  <2>1. pc[p] \in {"active", "post"} /\ Release(p) /\ cur' = cur
    BY <1>6 DEF Post, StartFails
  <2>2. PICK r \in Procs : r # p
    <3>1. pairing \in Queries
      BY <2>1, StarterFacts
    <3>2. Task(pairing) \in Procs /\ User(pairing) \in Procs /\ Task(pairing) # User(pairing)
      BY <3>1, Names
    <3> QED
      BY <3>2
  <2>3. pc' = [pc EXCEPT ![p] = Back(p), ![r] = pc[r]]
    BY <1>0, <2>1, <2>2 DEF Release, Goto, TypeOK
  <2>4. pc[r] # "armed" \/ r[1] = "task"
    <3>1. pc[r] \in StepsOf(r)
      BY <1>0 DEF ThreadsOK
    <3> QED
      BY <3>1 DEF StepsOf
  <2> QED
    BY <2>1, <2>2, <2>3, <2>4, ReleaseThreads DEF Release
<1>7. ASSUME NEW p \in Procs, StartOnSocket(p)
      PROVE  ThreadsOK'
  <2>1. pc[p] = "active"
    BY <1>7 DEF StartOnSocket
  <2>2. pairing \in Queries /\ pc[Task(pairing)] = "off"
    BY <2>1, StarterFacts
  <2>3. Task(pairing) \in Procs /\ Task(pairing)[1] = "task"
    BY <2>2, Names
  <2> QED
    BY <1>7, <2>1, <2>2, <2>3, ReleaseThreads DEF StartOnSocket
<1>8. ASSUME NEW p \in Givers, GivePaired(p)
      PROVE  ThreadsOK'
  <2>1. p \in Procs
    BY Names
  <2>2. Head(queries) \in Queries
    BY <1>0, <1>8, TailProps DEF TypeOK, GivePaired
  <2>3. \A w \in DbWorkers : p = Db(w) => cur[w] \in Queries
    BY <1>0, <1>8 DEF ThreadsOK, GivePaired
  <2> QED
    BY <1>8, <2>1, <2>2, <2>3, PairThreads DEF GivePaired
<1>9. ASSUME NEW p \in Givers, GiveFree(p)
      PROVE  ThreadsOK'
  <2>1. p \in Procs
    BY Names
  <2>2. Back(p) \in StepsOf(p) \ {"active", "post"}
    BY Names DEF Back, StepsOf
  <2>3. \A w \in DbWorkers : p = Db(w) => cur[w] \in Queries
    BY <1>0, <1>9 DEF ThreadsOK, GiveFree
  <2> QED
    BY <1>9, <2>1, <2>2, <2>3, StepThreads DEF GiveFree, Goto
<1>10. ASSUME NEW w \in DbWorkers, Wait(w)
       PROVE  ThreadsOK'
  <2>1. Db(w) \in Procs /\ \A v \in DbWorkers : Db(v) = Db(w) => v = w
    BY Names
  <2>2. "pop" \in StepsOf(Db(w))
    BY Names DEF StepsOf
  <2> QED
    BY <1>10, <2>1, <2>2, StepThreads DEF Wait, Goto
<1>11. ASSUME NEW w \in DbWorkers, Pop(w)
       PROVE  ThreadsOK'
  <2>1. Db(w) \in Procs /\ \A v \in DbWorkers : Db(v) = Db(w) => v = w
    BY Names
  <2>2. "send" \in StepsOf(Db(w))
    BY Names DEF StepsOf
  <2>3. Head(waiting) \in Queries
    BY <1>0, <1>11, TailProps DEF TypeOK, Pop
  <2>4. \A v \in DbWorkers : cur'[v] = IF v = w THEN Head(waiting) ELSE cur[v]
    BY <1>0, <1>11 DEF TypeOK, Pop
  <2> QED
    BY <1>11, <2>1, <2>2, <2>3, <2>4, StepThreads DEF Pop, Goto
<1>12. ASSUME NEW w \in DbWorkers, SendAndPut(w)
       PROVE  ThreadsOK'
  <2>1. PICK step \in {"give", "answer"} :
           pc' = [pc EXCEPT ![Db(w)] = "sent", ![Task(cur[w])] = step]
    BY <1>12 DEF SendAndPut, Unpacked
  <2>2. cur[w] \in Queries /\ pc[Db(w)] = "send"
    BY <1>0, <1>12 DEF ThreadsOK, SendAndPut
  <2>3. /\ Task(cur[w]) \in Procs /\ Db(w) \in Procs
        /\ \A v \in DbWorkers : Db(v) \in Procs /\ Task(cur[w]) # Db(v) /\ (Db(v) = Db(w) => v = w)
    BY <2>2, Names
  <2>4. \A t \in Procs : pc'[t] = IF t = Task(cur[w]) THEN step ELSE IF t = Db(w) THEN "sent" ELSE pc[t]
    BY <1>0, <2>1, <2>3 DEF TypeOK
  <2>5. step \in StepsOf(Task(cur[w])) /\ "sent" \in StepsOf(Db(w))
    BY <2>2, Names DEF StepsOf
  <2>6. pc[Task(cur[w])] = "off"
    BY <2>2 DEF IInv, InOrder, Early, Sending
  <2> QED
    BY <1>0, <1>12, <2>2, <2>3, <2>4, <2>5, <2>6 DEF ThreadsOK, SendAndPut
<1>13. ASSUME NEW w \in DbWorkers, Reread(w)
       PROVE  ThreadsOK'
  <2>1. PICK step \in {"wait", "give"} : Goto(Db(w), step)
    BY <1>13 DEF Reread
  <2>2. Db(w) \in Procs /\ \A v \in DbWorkers : Db(v) = Db(w) => v = w
    BY Names
  <2>3. step \in StepsOf(Db(w))
    BY Names DEF StepsOf
  <2>4. cur[w] \in Queries
    BY <1>0, <1>13 DEF ThreadsOK, Reread
  <2> QED
    BY <1>13, <2>1, <2>2, <2>3, <2>4, StepThreads DEF Reread, Goto
<1>14. CASE UNCHANGED vars
  BY <1>0, <1>14 DEF vars, ThreadsOK
<1> QED
  BY <1>1, <1>2, <1>3, <1>4, <1>5, <1>6, <1>7, <1>8, <1>9, <1>10, <1>11, <1>12,
     <1>13, <1>14, NextCases

-----------------------------------------------------------------------------
(* Connections: each step says who holds what after it, and the rest of the *)
(* invariant follows from that.                                             *)

Rest == InOrder /\ ListsOK /\ ItemsOK /\ HoldersOK

(* A query that finds a free connection: the lists and the items.           *)
LEMMA SubmitPairedStep ==
  ASSUME IInv, NEW q \in Queries, SubmitPaired(q)
  PROVE  Rest'
<1>0. TypeOK /\ ThreadsOK /\ InOrder /\ ListsOK /\ ItemsOK /\ HoldersOK
  BY DEF IInv
<1>1. /\ Head(items) \in Items /\ Tail(items) \in Seq(Items)
      /\ InList(Head(items), items) /\ ~ InList(Head(items), Tail(items)) /\ NoDup(Tail(items))
      /\ \A y : InList(y, Tail(items)) => InList(y, items)
  BY <1>0, TailProps DEF SubmitPaired, TypeOK, ListsOK
<1>2. \A p \in Procs : pc'[p] = IF p = Call(q) THEN "active" ELSE pc[p]
  BY <1>0 DEF SubmitPaired, Pair, Goto, TypeOK
<1>3. \A r \in Queries : item'[r] = IF r = q THEN Head(items) ELSE item[r]
  BY <1>0 DEF SubmitPaired, Pair, TypeOK
<1>4. item[q] = Nobody /\ back[q] = 0 /\ Head(items) # Nobody
  BY <1>0, <1>1, DbAssumption DEF ListsOK, SubmitPaired
<1>5. \A r \in Queries : (Starting(r)' <=> r = q) /\ ~ Starting(r)
  BY <1>2, Names, LockFree DEF Starting, SubmitPaired, Pair
<1>6. \A r \in Queries : (Waiting(r)' <=> Waiting(r)) /\ (InList(r, queries)' <=> InList(r, queries))
  BY DEF SubmitPaired, Waiting, InList
<1>7. \A p \in Givers : pc'[p] = pc[p] /\ (Holds(p)' <=> Holds(p)) /\ QueryOf(p)' = QueryOf(p)
  BY <1>2, Names DEF SubmitPaired, Holds, QueryOf
<1>8. \A r \in Queries : Sending(r)' <=> Sending(r)
  BY <1>7, Names DEF SubmitPaired, Sending
<1>9. \A r \in Queries : Connected(r)' <=> (Connected(r) \/ r = q)
  BY <1>3, <1>4 DEF SubmitPaired, Connected
<1>10. ~ Connected(q)
  BY <1>4 DEF Connected
<1>11. InOrder'
  BY <1>0, <1>3, <1>4, <1>5, <1>6, <1>7, <1>8, Names DEF InOrder, Early, SubmitPaired
<1>12. ListsOK'
  <2>1. NoDup(items)' /\ NoDup(queries)' /\ NoDup(waiting)'
    BY <1>0, <1>1 DEF ListsOK, SubmitPaired, NoDup
  <2>2. pairing' = q /\ UNCHANGED <<queries, back>> /\ pc[Call(q)] = "start"
    BY DEF SubmitPaired, Pair
  <2>3. \A r \in Queries : pc'[Call(r)] = "start" => pc[Call(r)] = "start" /\ r # q
    BY <1>2, Names
  <2>4. \A r \in Queries : InList(r, queries) => r # q /\ pc'[Call(r)] # "start"
    BY <1>0, <2>2, <2>3 DEF ListsOK
  <2> QED
    BY <1>0, <1>1, <1>3, <1>4, <1>6, <2>1, <2>2, <2>3, <2>4 DEF ListsOK
<1>13. ItemsOK'
  BY <1>0, <1>1, <1>3, <1>9, <1>10 DEF ItemsOK, SubmitPaired
<1>14. HoldersOK'
  BY <1>0, <1>5, <1>6, <1>7, <1>9, <1>10 DEF HoldersOK
<1> QED
  BY <1>11, <1>12, <1>13, <1>14 DEF Rest

(* A query that finds none waits in the list of queries.                    *)
LEMMA SubmitPendingStep ==
  ASSUME IInv, NEW q \in Queries, SubmitPending(q)
  PROVE  Rest'
<1>0. TypeOK /\ ThreadsOK /\ InOrder /\ ListsOK /\ ItemsOK /\ HoldersOK
  BY DEF IInv
<1>1. /\ NoDup(queries) /\ ~ InList(q, queries) => NoDup(Push(q, queries))
      /\ \A y : InList(y, Push(q, queries)) <=> y = q \/ InList(y, queries)
  BY <1>0, PushProps DEF TypeOK
<1>2. \A p \in Procs : pc'[p] = IF p = Call(q) THEN "off" ELSE pc[p]
  BY <1>0 DEF SubmitPending, Goto, TypeOK
<1>3. UNCHANGED <<items, item, back, pairing, waiting, told, result, cur>>
  BY DEF SubmitPending
<1>4. item[q] = Nobody /\ ~ InList(q, queries)
  BY <1>0 DEF ListsOK, SubmitPending
<1>5. \A r \in Queries : ~ Starting(r)' /\ ~ Starting(r)
  BY <1>2, Names, LockFree DEF Starting, SubmitPending
<1>6. \A r \in Queries : (Waiting(r)' <=> Waiting(r)) /\ (Connected(r)' <=> Connected(r))
  BY <1>3 DEF Waiting, InList, Connected
<1>7. \A p \in Givers : pc'[p] = pc[p] /\ (Holds(p)' <=> Holds(p)) /\ QueryOf(p)' = QueryOf(p)
  BY <1>2, <1>3, Names DEF Holds, QueryOf
<1>8. \A r \in Queries : Sending(r)' <=> Sending(r)
  BY <1>3, <1>7, Names DEF Sending
<1>9. InOrder'
  BY <1>0, <1>3, <1>5, <1>6, <1>7, <1>8, Names DEF InOrder, Early
<1>10. ListsOK'
  <2>1. NoDup(items)' /\ NoDup(queries)' /\ NoDup(waiting)'
    BY <1>0, <1>1, <1>3, <1>4 DEF ListsOK, SubmitPending, NoDup
  <2>2. \A r \in Queries : pc'[Call(r)] = "start" => pc[Call(r)] = "start" /\ r # q
    BY <1>2, Names
  <2>3. \A r \in Queries : InList(r, queries)' => r = q \/ InList(r, queries)
    BY <1>1 DEF SubmitPending
  <2> QED
    BY <1>0, <1>3, <1>4, <2>1, <2>2, <2>3 DEF ListsOK
<1>11. ItemsOK'
  BY <1>0, <1>3, <1>6 DEF ItemsOK
<1>12. HoldersOK'
  BY <1>0, <1>5, <1>6, <1>7 DEF HoldersOK
<1> QED
  BY <1>9, <1>10, <1>11, <1>12 DEF Rest

(* A connection that is given back goes to the query at the head of the     *)
(* list of those that wait, which came last.                                *)
LEMMA GivePairedStep ==
  ASSUME IInv, NEW p \in Givers, GivePaired(p)
  PROVE  Rest'
<1>0. TypeOK /\ ThreadsOK /\ InOrder /\ ListsOK /\ ItemsOK /\ HoldersOK
  BY DEF IInv
<1> DEFINE q == QueryOf(p)
           h == Head(queries)
<1>1. /\ q \in Queries /\ item[q] \in Items /\ back[q] = 0 /\ Connected(q)
      /\ ~ InList(item[q], items) /\ item[q] # Nobody
  BY GiverFacts, DbAssumption DEF GivePaired, Connected
<1>2. /\ h \in Queries /\ InList(h, queries)
      /\ NoDup(Tail(queries)) /\ ~ InList(h, Tail(queries))
      /\ \A y : InList(y, Tail(queries)) => InList(y, queries)
  BY <1>0, TailProps DEF GivePaired, TypeOK, ListsOK
<1>3. item[h] = Nobody /\ back[h] = 0 /\ h # q
  BY <1>0, <1>1, <1>2 DEF ListsOK
<1> HIDE DEF q, h
<1>4. p \in Procs
  BY Names
<1>5. \A s \in Procs : pc'[s] = IF s = p THEN "active" ELSE pc[s]
  BY <1>0, <1>4 DEF GivePaired, Pair, Goto, TypeOK
<1>6. /\ UNCHANGED <<items, waiting, told, result, cur>>
      /\ pairing' = h /\ queries' = Tail(queries)
      /\ pc[p] = "give"
  BY DEF GivePaired, Pair, h
<1>7. \A r \in Queries : /\ item'[r] = IF r = h THEN item[q] ELSE item[r]
                         /\ back'[r] = IF r = q THEN 1 ELSE back[r]
  BY <1>0, <1>1, <1>2 DEF GivePaired, Pair, TypeOK, q, h
<1>8. \A r \in Queries : (Starting(r)' <=> r = h) /\ ~ Starting(r)
  BY <1>4, <1>5, <1>6, LockFree DEF Starting, GivePaired
<1>9. \A r \in Queries : Waiting(r)' <=> Waiting(r)
  BY <1>6 DEF Waiting, InList
<1>10. /\ Holds(p) /\ ~ Holds(p)'
       /\ \A s \in Givers : /\ s # p => (Holds(s)' <=> Holds(s))
                            /\ QueryOf(s)' = QueryOf(s)
  BY <1>4, <1>5, <1>6, Names DEF Holds, QueryOf
<1>11. \A r \in Queries : Sending(r)' <=> Sending(r)
  BY <1>4, <1>5, <1>6, Names DEF Sending
<1>12. \A r \in Queries : Connected(r)' <=> (Connected(r) /\ r # q) \/ r = h
  BY <1>1, <1>3, <1>7 DEF Connected
<1>13. ~ Connected(h) /\ QueryOf(p) = q
  BY <1>3 DEF Connected, q
<1>14. InOrder'
  <2> SUFFICES ASSUME NEW r \in Queries
               PROVE  /\ Early(r)' => pc'[Task(r)] = "off"
                      /\ Early(r)' \/ pc'[Task(r)] # "off" => pc'[User(r)] = "off" /\ told[r] = 0
                      /\ pc'[Task(r)] \in {"give", "active", "post"} => ~ result[r]
    BY <1>6 DEF InOrder
  <2>1. Early(r)' => Early(r)
    BY <1>3, <1>7, <1>8, <1>9, <1>11 DEF Early
  <2>2. /\ Task(r) \in Procs /\ User(r) \in Procs
        /\ pc'[Task(r)] = "off" <=> pc[Task(r)] = "off"
        /\ pc'[User(r)] = "off" <=> pc[User(r)] = "off"
        /\ pc'[Task(r)] \in {"give", "active", "post"} <=> pc[Task(r)] \in {"give", "active", "post"}
    BY <1>5, <1>6, Names
  <2> QED
    BY <1>0, <2>1, <2>2 DEF InOrder
<1>15. ListsOK'
  <2>1. NoDup(items)' /\ NoDup(queries)' /\ NoDup(waiting)'
    BY <1>0, <1>2, <1>6 DEF ListsOK, NoDup, h
  <2>2. \A r \in Queries : pc'[Call(r)] = pc[Call(r)]
    BY <1>5, Names
  <2>3. \A r \in Queries : InList(r, queries)' => r # h /\ InList(r, queries)
    BY <1>2, <1>6
  <2>4. pc[Call(h)] # "start"
    BY <1>0, <1>2 DEF ListsOK
  <2> QED
    BY <1>0, <1>1, <1>2, <1>3, <1>6, <1>7, <2>1, <2>2, <2>3, <2>4 DEF ListsOK
<1>16. ItemsOK'
  BY <1>0, <1>1, <1>2, <1>3, <1>6, <1>7, <1>12, <1>13 DEF ItemsOK
<1>17. HoldersOK'
  BY <1>0, <1>1, <1>3, <1>8, <1>9, <1>10, <1>12, <1>13 DEF HoldersOK
<1> QED
  BY <1>14, <1>15, <1>16, <1>17 DEF Rest

(* Or, when none waits, back to the list of free connections.               *)
LEMMA GiveFreeStep ==
  ASSUME IInv, NEW p \in Givers, GiveFree(p)
  PROVE  Rest'
<1>0. TypeOK /\ ThreadsOK /\ InOrder /\ ListsOK /\ ItemsOK /\ HoldersOK
  BY DEF IInv
<1> DEFINE q == QueryOf(p)
<1>1. /\ q \in Queries /\ item[q] \in Items /\ back[q] = 0 /\ Connected(q)
      /\ ~ InList(item[q], items) /\ item[q] # Nobody
  BY GiverFacts, DbAssumption DEF GiveFree, Connected
<1>2. /\ NoDup(Push(item[q], items))
      /\ \A y : InList(y, Push(item[q], items)) <=> y = item[q] \/ InList(y, items)
  BY <1>0, <1>1, PushProps DEF TypeOK, ListsOK
<1> HIDE DEF q
<1>3. p \in Procs
  BY Names
<1>4. \A s \in Procs : pc'[s] = IF s = p THEN Back(p) ELSE pc[s]
  BY <1>0, <1>3 DEF GiveFree, Goto, TypeOK
<1>5. /\ UNCHANGED <<queries, waiting, told, result, cur, pairing, item>>
      /\ items' = Push(item[q], items)
      /\ pc[p] = "give"
  BY DEF GiveFree, q
<1>6. \A r \in Queries : back'[r] = IF r = q THEN 1 ELSE back[r]
  BY <1>0, <1>1 DEF GiveFree, TypeOK, q
<1>7. Back(p) \in {"answer", "wait", "off"} /\ (Back(p) = "answer" <=> p[1] = "task")
  BY Names DEF Back
<1>8. \A r \in Queries : ~ Starting(r)' /\ ~ Starting(r)
  BY <1>3, <1>4, <1>7, LockFree DEF Starting, GiveFree
<1>9. \A r \in Queries : Waiting(r)' <=> Waiting(r)
  BY <1>5 DEF Waiting, InList
<1>10. /\ Holds(p) /\ ~ Holds(p)'
       /\ \A s \in Givers : /\ s # p => (Holds(s)' <=> Holds(s))
                            /\ QueryOf(s)' = QueryOf(s)
  <2>1. p[1] = "task" => ~ result[p[2]]
    BY <1>0, <1>5, Names DEF InOrder
  <2> QED
    BY <1>3, <1>4, <1>5, <1>7, <2>1, Names DEF Holds, QueryOf
<1>11. \A r \in Queries : Sending(r)' <=> Sending(r)
  BY <1>3, <1>4, <1>5, <1>7, Names DEF Sending
<1>12. \A r \in Queries : Connected(r)' <=> Connected(r) /\ r # q
  BY <1>1, <1>5, <1>6 DEF Connected
<1>13. QueryOf(p) = q
  BY DEF q
<1>14. InOrder'
  <2> SUFFICES ASSUME NEW r \in Queries
               PROVE  /\ Early(r)' => pc'[Task(r)] = "off"
                      /\ Early(r)' \/ pc'[Task(r)] # "off" => pc'[User(r)] = "off" /\ told[r] = 0
                      /\ pc'[Task(r)] \in {"give", "active", "post"} => ~ result[r]
    BY <1>5 DEF InOrder
  <2>1. Early(r)' => Early(r)
    BY <1>5, <1>8, <1>9, <1>11 DEF Early
  <2>2. /\ Task(r) \in Procs /\ User(r) \in Procs
        /\ pc'[Task(r)] = "off" <=> pc[Task(r)] = "off"
        /\ pc[User(r)] = "off" => pc'[User(r)] = "off"
        /\ pc'[Task(r)] \in {"give", "active", "post"} => pc[Task(r)] \in {"give", "active", "post"}
    BY <1>4, <1>5, <1>7, Names
  <2> QED
    BY <1>0, <2>1, <2>2 DEF InOrder
<1>15. ListsOK'
  <2>1. NoDup(items)' /\ NoDup(queries)' /\ NoDup(waiting)'
    BY <1>0, <1>2, <1>5 DEF ListsOK, NoDup
  <2>2. \A r \in Queries : pc'[Call(r)] = pc[Call(r)]
    BY <1>4, Names
  <2>3. \A r \in Queries : InList(r, queries)' <=> InList(r, queries)
    BY <1>5 DEF InList
  <2> QED
    BY <1>0, <1>1, <1>5, <1>6, <2>1, <2>2, <2>3 DEF ListsOK
<1>16. ItemsOK'
  BY <1>0, <1>1, <1>2, <1>5, <1>6, <1>12 DEF ItemsOK
<1>17. HoldersOK'
  BY <1>0, <1>8, <1>9, <1>10, <1>12, <1>13 DEF HoldersOK
<1> QED
  BY <1>14, <1>15, <1>16, <1>17 DEF Rest

(* A query that blocks goes to the list of the DB threads.                  *)
LEMMA StartBlockingStep ==
  ASSUME IInv, NEW p \in Procs, StartBlocking(p)
  PROVE  Rest'
<1>0. TypeOK /\ ThreadsOK /\ InOrder /\ ListsOK /\ ItemsOK /\ HoldersOK
  BY DEF IInv
<1>1. /\ pairing \in Queries /\ Starting(pairing) /\ Connected(pairing) /\ ~ Waiting(pairing)
      /\ \A r \in Procs : pc[r] \in {"active", "post"} => r = p
  BY StarterFacts DEF StartBlocking
<1>2. /\ NoDup(waiting) /\ ~ InList(pairing, waiting) => NoDup(Push(pairing, waiting))
      /\ \A y : InList(y, Push(pairing, waiting)) <=> y = pairing \/ InList(y, waiting)
  BY <1>0, <1>1, PushProps DEF TypeOK
<1>3. \A s \in Procs : pc'[s] = IF s = p THEN "post" ELSE pc[s]
  BY <1>0 DEF StartBlocking, Goto, TypeOK
<1>4. /\ UNCHANGED <<items, queries, back, pairing, item, told, result, cur>>
      /\ waiting' = Push(pairing, waiting) /\ pc[p] = "active"
  BY DEF StartBlocking, pool
<1>5. \A r \in Queries : ~ Starting(r)' /\ (Starting(r) <=> r = pairing)
  BY <1>1, <1>3, <1>4 DEF Starting
<1>6. \A r \in Queries : /\ Waiting(r)' <=> Waiting(r) \/ r = pairing
                         /\ Connected(r)' <=> Connected(r)
  BY <1>2, <1>4 DEF Waiting, Connected
<1>7. \A s \in Givers : (Holds(s)' <=> Holds(s)) /\ QueryOf(s)' = QueryOf(s)
  BY <1>3, <1>4, Names DEF Holds, QueryOf
<1>8. \A r \in Queries : Sending(r)' <=> Sending(r)
  BY <1>3, <1>4, Names DEF Sending
<1>9. InOrder'
  <2> SUFFICES ASSUME NEW r \in Queries
               PROVE  /\ Early(r)' => pc'[Task(r)] = "off"
                      /\ Early(r)' \/ pc'[Task(r)] # "off" => pc'[User(r)] = "off" /\ told[r] = 0
                      /\ pc'[Task(r)] \in {"give", "active", "post"} => ~ result[r]
    BY <1>4 DEF InOrder
  <2>1. Early(r)' => Early(r)
    BY <1>1, <1>4, <1>5, <1>6, <1>8 DEF Early
  <2>2. /\ Task(r) \in Procs /\ User(r) \in Procs
        /\ pc'[Task(r)] = "off" <=> pc[Task(r)] = "off"
        /\ pc[User(r)] = "off" => pc'[User(r)] = "off"
        /\ pc'[Task(r)] \in {"give", "active", "post"} => pc[Task(r)] \in {"give", "active", "post"}
    BY <1>3, <1>4, Names
  <2> QED
    BY <1>0, <2>1, <2>2 DEF InOrder
<1>10. ListsOK'
  <2>1. NoDup(items)' /\ NoDup(queries)' /\ NoDup(waiting)'
    BY <1>0, <1>1, <1>2, <1>4 DEF ListsOK, NoDup, Waiting
  <2>2. \A r \in Queries : pc'[Call(r)] = "start" <=> pc[Call(r)] = "start"
    BY <1>3, <1>4, Names
  <2>3. \A r \in Queries : InList(r, queries)' <=> InList(r, queries)
    BY <1>4 DEF InList
  <2> QED
    BY <1>0, <1>4, <2>1, <2>2, <2>3 DEF ListsOK
<1>11. ItemsOK'
  BY <1>0, <1>4, <1>6 DEF ItemsOK
<1>12. HoldersOK'
  BY <1>0, <1>1, <1>5, <1>6, <1>7 DEF HoldersOK
<1> QED
  BY <1>9, <1>10, <1>11, <1>12 DEF Rest

(* The lock is released with no task started. *)
LEMMA ReleaseStep ==
  ASSUME IInv, NEW p \in Procs, Post(p) \/ StartFails(p)
  PROVE  Rest'
<1>0. TypeOK /\ ThreadsOK /\ InOrder /\ ListsOK /\ ItemsOK /\ HoldersOK
  BY DEF IInv
<1>1. Back(p) \in {"answer", "wait", "off"} /\ (p \in Givers => (Back(p) = "answer" <=> p[1] = "task"))
      /\ (p \in Givers => (Back(p) = "off" <=> p[1] = "user"))
  BY Names DEF Back
<1>2. \A s \in Procs : pc'[s] = IF s = p THEN Back(p) ELSE pc[s]
  BY <1>0 DEF Post, StartFails, Release, Goto, TypeOK
<1>3. /\ UNCHANGED <<items, queries, back, waiting, item, told, result, cur>>
      /\ pairing' = Nobody /\ pc[p] \in {"active", "post"}
  BY DEF Post, StartFails, Release, pool
<1>4. Nobody \notin Queries
  BY DbAssumption
<1>5. \A r \in Queries : ~ Starting(r)'
  BY <1>3, <1>4 DEF Starting
<1>6. \A r \in Queries : (Waiting(r)' <=> Waiting(r)) /\ (Connected(r)' <=> Connected(r))
  BY <1>3 DEF Waiting, InList, Connected
<1>7. \A s \in Givers : (Holds(s)' <=> Holds(s)) /\ QueryOf(s)' = QueryOf(s)
  <2>1. p \in Givers /\ p[1] = "task" => ~ result[p[2]]
    BY <1>0, <1>3, Names DEF InOrder
  <2> QED
    BY <1>1, <1>2, <1>3, <2>1, Names DEF Holds, QueryOf
<1>8. \A r \in Queries : Sending(r)' <=> Sending(r)
  BY <1>1, <1>2, <1>3, Names DEF Sending
<1>9. InOrder'
  <2> SUFFICES ASSUME NEW r \in Queries
               PROVE  /\ Early(r)' => pc'[Task(r)] = "off"
                      /\ Early(r)' \/ pc'[Task(r)] # "off" => pc'[User(r)] = "off" /\ told[r] = 0
                      /\ pc'[Task(r)] \in {"give", "active", "post"} => ~ result[r]
    BY <1>3 DEF InOrder
  <2>1. Early(r)' => Early(r)
    BY <1>3, <1>5, <1>6, <1>8 DEF Early
  <2>2. /\ Task(r) \in Procs /\ User(r) \in Procs
        /\ pc'[Task(r)] = "off" <=> pc[Task(r)] = "off"
        /\ pc[User(r)] = "off" => pc'[User(r)] = "off"
        /\ pc'[Task(r)] \in {"give", "active", "post"} => pc[Task(r)] \in {"give", "active", "post"}
    BY <1>1, <1>2, <1>3, Names
  <2> QED
    BY <1>0, <2>1, <2>2 DEF InOrder
<1>10. ListsOK'
  <2>1. NoDup(items)' /\ NoDup(queries)' /\ NoDup(waiting)'
    BY <1>0, <1>3 DEF ListsOK, NoDup
  <2>2. \A r \in Queries : pc'[Call(r)] = "start" => pc[Call(r)] = "start"
    BY <1>1, <1>2, <1>3, Names
  <2>3. \A r \in Queries : InList(r, queries)' <=> InList(r, queries)
    BY <1>3 DEF InList
  <2> QED
    BY <1>0, <1>3, <1>4, <2>1, <2>2, <2>3 DEF ListsOK
<1>11. ItemsOK'
  BY <1>0, <1>3, <1>6 DEF ItemsOK
<1>12. HoldersOK'
  BY <1>0, <1>5, <1>6, <1>7 DEF HoldersOK
<1> QED
  BY <1>9, <1>10, <1>11, <1>12 DEF Rest

(* A query that does not block is sent and its socket submitted.            *)
LEMMA StartOnSocketStep ==
  ASSUME IInv, NEW p \in Procs, StartOnSocket(p)
  PROVE  Rest'
<1>0. TypeOK /\ ThreadsOK /\ InOrder /\ ListsOK /\ ItemsOK /\ HoldersOK
  BY DEF IInv
<1>q. PICK q \in Queries : q = pairing
  BY StarterFacts DEF StartOnSocket
<1>1. /\ Starting(q) /\ Connected(q) /\ ~ Waiting(q)
      /\ pc[Task(q)] = "off"
      /\ \A r \in Procs : pc[r] \in {"active", "post"} => r = p
  BY <1>q, StarterFacts DEF StartOnSocket
<1>2. Back(p) \in {"answer", "wait", "off"} /\ (p \in Givers => (Back(p) = "answer" <=> p[1] = "task"))
      /\ (p \in Givers => (Back(p) = "off" <=> p[1] = "user"))
  BY Names DEF Back
<1>3. Task(q) \in Procs /\ Task(q) # p /\ Task(q) \in Givers /\ pc[p] = "active"
  BY <1>1, Names DEF StartOnSocket
<1>4. \A s \in Procs : pc'[s] = IF s = Task(q) THEN "armed" ELSE IF s = p THEN Back(p) ELSE pc[s]
  BY <1>0, <1>3, <1>q DEF StartOnSocket, TypeOK
<1>5. /\ UNCHANGED <<items, queries, back, waiting, item, told, result, cur>>
      /\ pairing' = Nobody
  BY DEF StartOnSocket, pool
<1>6. Nobody \notin Queries
  BY DbAssumption
<1>7. \A r \in Queries : ~ Starting(r)' /\ (Starting(r) <=> r = q)
  BY <1>1, <1>5, <1>6, <1>q DEF Starting
<1>8. \A r \in Queries : (Waiting(r)' <=> Waiting(r)) /\ (Connected(r)' <=> Connected(r))
  BY <1>5 DEF Waiting, InList, Connected
<1>9. /\ Holds(Task(q))' /\ QueryOf(Task(q)) = q
      /\ \A s \in Givers : /\ s # Task(q) => (Holds(s)' <=> Holds(s))
                           /\ QueryOf(s)' = QueryOf(s)
  <2>1. p \in Givers /\ p[1] = "task" => ~ result[p[2]]
    BY <1>0, <1>3, Names DEF InOrder
  <2>2. QueryOf(Task(q)) = q /\ \A s \in Givers : QueryOf(s)' = QueryOf(s)
    BY <1>1, <1>5, Names DEF QueryOf
  <2>3. Holds(Task(q))'
    BY <1>3, <1>4 DEF Holds
  <2>4. \A s \in Givers : s # Task(q) => (Holds(s)' <=> Holds(s))
    BY <1>2, <1>3, <1>4, <1>5, <2>1, Names DEF Holds
  <2> QED
    BY <2>2, <2>3, <2>4
<1>10. \A r \in Queries : Sending(r)' <=> Sending(r)
  BY <1>1, <1>2, <1>3, <1>4, <1>5, Names DEF Sending
<1>11. ~ Sending(q)
  <2> SUFFICES ASSUME NEW w \in DbWorkers, pc[Db(w)] = "send", cur[w] = q
               PROVE  FALSE
    BY DEF Sending
  <2>1. Db(w) \in Givers /\ Holds(Db(w)) /\ QueryOf(Db(w)) = q
    BY Names DEF Holds, QueryOf
  <2> QED
    BY <1>0, <1>1, <2>1 DEF HoldersOK
<1>12. ~ Early(q)' /\ pc[User(q)] = "off" /\ told[q] = 0
  BY <1>0, <1>1, <1>5, <1>7, <1>8, <1>10, <1>11 DEF Early, Connected, InOrder
<1>13. InOrder'
  <2> SUFFICES ASSUME NEW r \in Queries
               PROVE  /\ Early(r)' => pc'[Task(r)] = "off"
                      /\ Early(r)' \/ pc'[Task(r)] # "off" => pc'[User(r)] = "off" /\ told[r] = 0
                      /\ pc'[Task(r)] \in {"give", "active", "post"} => ~ result[r]
    BY <1>5 DEF InOrder
  <2>1. Early(r)' => Early(r) /\ r # q
    BY <1>5, <1>7, <1>8, <1>10, <1>12 DEF Early
  <2>2. /\ Task(r) \in Procs /\ User(r) \in Procs
        /\ r # q => (pc'[Task(r)] = "off" <=> pc[Task(r)] = "off")
        /\ pc[User(r)] = "off" => pc'[User(r)] = "off"
        /\ pc'[Task(r)] \in {"give", "active", "post"} => pc[Task(r)] \in {"give", "active", "post"}
    BY <1>1, <1>2, <1>3, <1>4, Names
  <2> QED
    BY <1>0, <1>12, <2>1, <2>2 DEF InOrder
<1>14. ListsOK'
  <2>1. NoDup(items)' /\ NoDup(queries)' /\ NoDup(waiting)'
    BY <1>0, <1>5 DEF ListsOK, NoDup
  <2>2. \A r \in Queries : pc'[Call(r)] = "start" => pc[Call(r)] = "start"
    BY <1>1, <1>2, <1>4, Names
  <2>3. \A r \in Queries : InList(r, queries)' <=> InList(r, queries)
    BY <1>5 DEF InList
  <2> QED
    BY <1>0, <1>5, <1>6, <2>1, <2>2, <2>3 DEF ListsOK
<1>15. ItemsOK'
  BY <1>0, <1>5, <1>8 DEF ItemsOK
<1>16. HoldersOK'
  BY <1>0, <1>1, <1>3, <1>7, <1>8, <1>9 DEF HoldersOK
<1> QED
  BY <1>13, <1>14, <1>15, <1>16 DEF Rest

(* The task of a socket, with the whole answer, keeps the connection.       *)
LEMMA ContinueQueryStep ==
  ASSUME IInv, NEW q \in Queries, ContinueQuery(q)
  PROVE  Rest'
<1>0. TypeOK /\ ThreadsOK /\ InOrder /\ ListsOK /\ ItemsOK /\ HoldersOK
  BY DEF IInv
<1>1. PICK res \in Results(q) : /\ result' = [result EXCEPT ![q] = res]
                                /\ Goto(Task(q), IF q \in Reads THEN Unpacked(q, res) ELSE "give")
  BY DEF ContinueQuery
<1> DEFINE step == IF q \in Reads THEN Unpacked(q, res) ELSE "give"
<1>2. res \in BOOLEAN /\ ((step = "give" /\ ~ res) \/ (step = "answer" /\ res))
  BY DEF Results, Unpacked
<1>3. Task(q) \in Procs /\ Task(q) \in Givers /\ pc[Task(q)] = "armed"
  BY Names DEF ContinueQuery
<1>4. \A s \in Procs : pc'[s] = IF s = Task(q) THEN step ELSE pc[s]
  BY <1>0, <1>1 DEF Goto, TypeOK
<1>5. \A r \in Queries : result'[r] = IF r = q THEN res ELSE result[r]
  BY <1>0, <1>1 DEF TypeOK
<1>6. UNCHANGED <<items, queries, back, pairing, waiting, item, told, cur>>
  BY DEF ContinueQuery, pool
<1> HIDE DEF step
<1>7. \A r \in Queries : Starting(r)' <=> Starting(r)
  BY <1>2, <1>3, <1>4, <1>6 DEF Starting
<1>8. \A r \in Queries : (Waiting(r)' <=> Waiting(r)) /\ (Connected(r)' <=> Connected(r))
  BY <1>6 DEF Waiting, InList, Connected
<1>9. \A s \in Givers : (Holds(s)' <=> Holds(s)) /\ QueryOf(s)' = QueryOf(s)
  <2>1. Holds(Task(q)) /\ Holds(Task(q))'
    BY <1>2, <1>3, <1>4, <1>5, Names DEF Holds
  <2>2. \A s \in Givers : s # Task(q) => (Holds(s)' <=> Holds(s))
    BY <1>4, <1>5, <1>6, Names DEF Holds
  <2> QED
    BY <1>6, <2>1, <2>2 DEF QueryOf
<1>10. \A r \in Queries : Sending(r)' <=> Sending(r)
  BY <1>4, <1>6, Names DEF Sending
<1>11. InOrder'
  <2> SUFFICES ASSUME NEW r \in Queries
               PROVE  /\ Early(r)' => pc'[Task(r)] = "off"
                      /\ Early(r)' \/ pc'[Task(r)] # "off" => pc'[User(r)] = "off" /\ told[r] = 0
                      /\ pc'[Task(r)] \in {"give", "active", "post"} => ~ result'[r]
    BY <1>6 DEF InOrder
  <2>1. Early(r)' <=> Early(r)
    BY <1>6, <1>7, <1>8, <1>10 DEF Early
  <2>2. /\ Task(r) \in Procs /\ User(r) \in Procs
        /\ pc'[Task(r)] = "off" <=> pc[Task(r)] = "off"
        /\ pc'[User(r)] = pc[User(r)]
        /\ r # q => pc'[Task(r)] = pc[Task(r)] /\ result'[r] = result[r]
        /\ r = q => (pc'[Task(r)] \in {"give", "active", "post"} => ~ result'[r])
    BY <1>2, <1>3, <1>4, <1>5, Names
  <2> QED
    BY <1>0, <2>1, <2>2 DEF InOrder
<1>12. ListsOK'
  <2>1. NoDup(items)' /\ NoDup(queries)' /\ NoDup(waiting)'
    BY <1>0, <1>6 DEF ListsOK, NoDup
  <2>2. \A r \in Queries : pc'[Call(r)] = pc[Call(r)]
    BY <1>4, Names
  <2>3. \A r \in Queries : InList(r, queries)' <=> InList(r, queries)
    BY <1>6 DEF InList
  <2> QED
    BY <1>0, <1>6, <2>1, <2>2, <2>3 DEF ListsOK
<1>13. ItemsOK'
  BY <1>0, <1>6, <1>8 DEF ItemsOK
<1>14. HoldersOK'
  BY <1>0, <1>7, <1>8, <1>9 DEF HoldersOK
<1> QED
  BY <1>11, <1>12, <1>13, <1>14 DEF Rest

(* The query is answered and its context resumed.                           *)
LEMMA AnswerStep ==
  ASSUME IInv, NEW q \in Queries, Answer(q)
  PROVE  Rest'
<1>0. TypeOK /\ ThreadsOK /\ InOrder /\ ListsOK /\ ItemsOK /\ HoldersOK
  BY DEF IInv
<1>1. PICK step \in {"give", "off"} :
         /\ step = "give" <=> result[q]
         /\ pc' = [pc EXCEPT ![Task(q)] = "off", ![User(q)] = step]
  BY <1>0, Names DEF Answer, InOrder, TypeOK
<1>2. /\ Task(q) \in Procs /\ User(q) \in Procs /\ Task(q) \in Givers /\ User(q) \in Givers
      /\ Task(q) # User(q) /\ pc[Task(q)] = "answer"
  BY Names DEF Answer
<1>3. pc[User(q)] = "off" /\ told[q] = 0 /\ ~ Early(q)
  BY <1>0, <1>2 DEF InOrder
<1>4. \A s \in Procs : pc'[s] = IF s = User(q) THEN step ELSE IF s = Task(q) THEN "off" ELSE pc[s]
  BY <1>0, <1>1, <1>2 DEF TypeOK
<1>5. \A r \in Queries : told'[r] = IF r = q THEN 1 ELSE told[r]
  BY <1>0, <1>3 DEF Answer, TypeOK
<1>6. UNCHANGED <<items, queries, back, pairing, waiting, item, result, cur>>
  BY DEF Answer, pool
<1>7. \A r \in Queries : Starting(r)' <=> Starting(r)
  BY <1>2, <1>3, <1>4, <1>6 DEF Starting
<1>8. \A r \in Queries : (Waiting(r)' <=> Waiting(r)) /\ (Connected(r)' <=> Connected(r))
  BY <1>6 DEF Waiting, InList, Connected
<1>9. /\ \A s \in Givers : QueryOf(s)' = QueryOf(s)
      /\ QueryOf(Task(q)) = q /\ QueryOf(User(q)) = q
  BY <1>6, Names DEF QueryOf
<1>10. /\ Holds(Task(q)) <=> result[q]
       /\ Holds(User(q))' <=> result[q]
       /\ ~ Holds(User(q)) /\ ~ Holds(Task(q))'
       /\ \A s \in Givers \ {Task(q), User(q)} : Holds(s)' <=> Holds(s)
  <2>1. Holds(Task(q)) <=> result[q]
    BY <1>2, Names DEF Holds
  <2>2. Holds(User(q))' <=> result[q]
    <3>1. pc'[User(q)] = step
      BY <1>2, <1>4
    <3>2. User(q)[1] = "user" /\ User(q) \in Givers
      BY <1>2, Names
    <3>3. step \in {"give", "off"} /\ (step = "give" <=> result[q])
      BY <1>1
    <3> QED
      BY <3>1, <3>2, <3>3 DEF Holds
  <2>3. ~ Holds(User(q)) /\ ~ Holds(Task(q))'
    BY <1>2, <1>3, <1>4, Names DEF Holds
  <2>4. \A s \in Givers \ {Task(q), User(q)} : Holds(s)' <=> Holds(s)
    BY <1>4, <1>6, Names DEF Holds
  <2> QED
    BY <2>1, <2>2, <2>3, <2>4
<1>11. \A r \in Queries : Sending(r)' <=> Sending(r)
  BY <1>4, <1>6, Names DEF Sending
<1>12. InOrder'
  <2> SUFFICES ASSUME NEW r \in Queries
               PROVE  /\ Early(r)' => pc'[Task(r)] = "off"
                      /\ Early(r)' \/ pc'[Task(r)] # "off" => pc'[User(r)] = "off" /\ told'[r] = 0
                      /\ pc'[Task(r)] \in {"give", "active", "post"} => ~ result[r]
    BY <1>6 DEF InOrder
  <2>1. Early(r)' <=> Early(r)
    BY <1>6, <1>7, <1>8, <1>11 DEF Early
  <2>2. /\ Task(r) \in Procs /\ User(r) \in Procs
        /\ r = q => pc'[Task(r)] = "off"
        /\ r # q => pc'[Task(r)] = pc[Task(r)] /\ pc'[User(r)] = pc[User(r)]
    BY <1>2, <1>4, Names
  <2> QED
    BY <1>0, <1>3, <1>5, <2>1, <2>2 DEF InOrder
<1>13. ListsOK'
  <2>1. NoDup(items)' /\ NoDup(queries)' /\ NoDup(waiting)'
    BY <1>0, <1>6 DEF ListsOK, NoDup
  <2>2. \A r \in Queries : pc'[Call(r)] = pc[Call(r)]
    BY <1>4, Names
  <2>3. \A r \in Queries : InList(r, queries)' <=> InList(r, queries)
    BY <1>6 DEF InList
  <2> QED
    BY <1>0, <1>6, <2>1, <2>2, <2>3 DEF ListsOK
<1>14. ItemsOK'
  BY <1>0, <1>6, <1>8 DEF ItemsOK
<1>15. HoldersOK'
  <2>1. \A s \in Givers : Holds(s)' /\ s # User(q) => Holds(s) /\ s # Task(q)
    BY <1>10
  <2>2. Holds(User(q))' => Holds(Task(q))
    BY <1>10
  <2>3. \A s, t \in Givers : Holds(s)' /\ Holds(t)' /\ QueryOf(s) = QueryOf(t) => s = t
    <3>1. \A s \in Givers : Holds(s)' /\ s # User(q) /\ Holds(User(q))' => QueryOf(s) # q
      BY <1>0, <1>2, <1>9, <2>1, <2>2 DEF HoldersOK
    <3> QED
      BY <1>0, <1>9, <2>1, <3>1 DEF HoldersOK
  <2>4. \A s \in Givers, r \in Queries : Holds(s)' /\ QueryOf(s) = r => \E t \in Givers : Holds(t) /\ QueryOf(t) = r
    BY <1>2, <1>9, <2>1, <2>2
  <2> QED
    BY <1>0, <1>7, <1>8, <1>9, <2>3, <2>4 DEF HoldersOK
<1> QED
  BY <1>12, <1>13, <1>14, <1>15 DEF Rest

(* A DB thread that takes a token, or goes on after its query was sent.     *)
LEMMA WaitOrRereadStep ==
  ASSUME IInv, "reuse" \notin Events, NEW w \in DbWorkers, Wait(w) \/ Reread(w)
  PROVE  Rest'
<1>0. TypeOK /\ ThreadsOK /\ InOrder /\ ListsOK /\ ItemsOK /\ HoldersOK
  BY DEF IInv
<1>1. PICK step \in {"pop", "wait", "give"} :
         /\ pc' = [pc EXCEPT ![Db(w)] = step]
         /\ pc[Db(w)] \in {"wait", "sent"}
         /\ step = "give" <=> pc[Db(w)] = "sent" /\ cur[w] \notin Reads
  BY DEF Wait, Reread, Goto
<1>2. Db(w) \in Procs /\ Db(w) \in Givers
  BY Names
<1>3. \A s \in Procs : pc'[s] = IF s = Db(w) THEN step ELSE pc[s]
  BY <1>0, <1>1 DEF TypeOK
<1>4. UNCHANGED <<items, queries, back, pairing, waiting, item, told, result, cur>>
  BY DEF Wait, Reread, pool
<1>5. \A r \in Queries : Starting(r)' <=> Starting(r)
  BY <1>1, <1>2, <1>3, <1>4 DEF Starting
<1>6. \A r \in Queries : (Waiting(r)' <=> Waiting(r)) /\ (Connected(r)' <=> Connected(r))
  BY <1>4 DEF Waiting, InList, Connected
<1>7. \A s \in Givers : (Holds(s)' <=> Holds(s)) /\ QueryOf(s)' = QueryOf(s)
  <2>1. Holds(Db(w))' <=> Holds(Db(w))
    BY <1>1, <1>2, <1>3, <1>4, Names DEF Holds
  <2>2. \A s \in Givers : s # Db(w) => (Holds(s)' <=> Holds(s))
    BY <1>3, <1>4, Names DEF Holds
  <2> QED
    BY <1>4, <2>1, <2>2 DEF QueryOf
<1>8. \A r \in Queries : Sending(r)' <=> Sending(r)
  BY <1>1, <1>3, <1>4, Names DEF Sending
<1>9. \A r \in Queries : /\ pc'[Call(r)] = pc[Call(r)]
                         /\ pc'[Task(r)] = pc[Task(r)]
                         /\ pc'[User(r)] = pc[User(r)]
  BY <1>3, Names
<1>10. InOrder'
  BY <1>0, <1>4, <1>5, <1>6, <1>8, <1>9 DEF InOrder, Early
<1>11. ListsOK'
  <2>1. NoDup(items)' /\ NoDup(queries)' /\ NoDup(waiting)'
    BY <1>0, <1>4 DEF ListsOK, NoDup
  <2>2. \A r \in Queries : InList(r, queries)' <=> InList(r, queries)
    BY <1>4 DEF InList
  <2> QED
    BY <1>0, <1>4, <1>9, <2>1, <2>2 DEF ListsOK
<1>12. ItemsOK'
  BY <1>0, <1>4, <1>6 DEF ItemsOK
<1>13. HoldersOK'
  BY <1>0, <1>5, <1>6, <1>7 DEF HoldersOK
<1> QED
  BY <1>10, <1>11, <1>12, <1>13 DEF Rest

(* A DB thread takes the first query of the list.                           *)
LEMMA PopStep ==
  ASSUME IInv, NEW w \in DbWorkers, Pop(w)
  PROVE  Rest'
<1>0. TypeOK /\ ThreadsOK /\ InOrder /\ ListsOK /\ ItemsOK /\ HoldersOK
  BY DEF IInv
<1>q. PICK q \in Queries : q = Head(waiting)
  BY <1>0, TailProps DEF Pop, TypeOK
<1>1. /\ Waiting(q) /\ ~ InList(q, Tail(waiting)) /\ NoDup(Tail(waiting))
      /\ \A y : InList(y, Tail(waiting)) => InList(y, waiting)
      /\ \A y : InList(y, waiting) => y = q \/ InList(y, Tail(waiting))
  BY <1>0, <1>q, TailProps DEF Pop, TypeOK, ListsOK, Waiting
<1>2. Db(w) \in Procs /\ Db(w) \in Givers /\ pc[Db(w)] = "pop"
  BY Names DEF Pop
<1>3. \A s \in Procs : pc'[s] = IF s = Db(w) THEN "send" ELSE pc[s]
  BY <1>0 DEF Pop, Goto, TypeOK
<1>4. \A v \in DbWorkers : cur'[v] = IF v = w THEN q ELSE cur[v]
  BY <1>0, <1>q DEF Pop, TypeOK
<1>5. UNCHANGED <<items, queries, back, pairing, item, told, result>> /\ waiting' = Tail(waiting)
  BY DEF Pop, pool
<1>6. \A r \in Queries : Starting(r)' <=> Starting(r)
  BY <1>2, <1>3, <1>5 DEF Starting
<1>7. \A r \in Queries : /\ Waiting(r)' <=> Waiting(r) /\ r # q
                         /\ Connected(r)' <=> Connected(r)
  BY <1>1, <1>5 DEF Waiting, Connected
<1>8. /\ QueryOf(Db(w))' = q
      /\ \A s \in Givers : s # Db(w) => QueryOf(s)' = QueryOf(s) /\ (Holds(s)' <=> Holds(s))
  <2>1. QueryOf(Db(w))' = q
    BY <1>4, Names DEF QueryOf
  <2>2. \A s \in Givers : s # Db(w) => QueryOf(s)' = QueryOf(s)
    BY <1>4, Names DEF QueryOf
  <2>3. \A s \in Givers : s # Db(w) => (Holds(s)' <=> Holds(s))
    BY <1>3, <1>4, <1>5, Names DEF Holds
  <2> QED
    BY <2>1, <2>2, <2>3
<1>9. \A r \in Queries : Sending(r)' <=> Sending(r) \/ r = q
  BY <1>2, <1>3, <1>4, Names DEF Sending
<1>10. \A r \in Queries : /\ pc'[Call(r)] = pc[Call(r)]
                          /\ pc'[Task(r)] = pc[Task(r)]
                          /\ pc'[User(r)] = pc[User(r)]
  BY <1>3, Names
<1>11. \A r \in Queries : Early(r)' => Early(r)
  BY <1>1, <1>5, <1>6, <1>7, <1>9 DEF Early
<1>12. InOrder'
  BY <1>0, <1>5, <1>10, <1>11 DEF InOrder
<1>13. ListsOK'
  <2>1. NoDup(items)' /\ NoDup(queries)' /\ NoDup(waiting)'
    BY <1>0, <1>1, <1>5 DEF ListsOK, NoDup
  <2>2. \A r \in Queries : InList(r, queries)' <=> InList(r, queries)
    BY <1>5 DEF InList
  <2> QED
    BY <1>0, <1>5, <1>10, <2>1, <2>2 DEF ListsOK
<1>14. ItemsOK'
  BY <1>0, <1>5, <1>7 DEF ItemsOK
<1>15. HoldersOK'
  BY <1>0, <1>1, <1>6, <1>7, <1>8 DEF HoldersOK
<1> QED
  BY <1>12, <1>13, <1>14, <1>15 DEF Rest

(* It sends the query and puts the task of it.                              *)
LEMMA SendAndPutStep ==
  ASSUME IInv, NEW w \in DbWorkers, SendAndPut(w)
  PROVE  Rest'
<1>0. TypeOK /\ ThreadsOK /\ InOrder /\ ListsOK /\ ItemsOK /\ HoldersOK
  BY DEF IInv
<1>q. PICK q \in Queries : q = cur[w]
  BY <1>0 DEF SendAndPut, ThreadsOK
<1>1. PICK res \in Results(q) :
         /\ result' = [result EXCEPT ![q] = res]
         /\ pc' = [pc EXCEPT ![Db(w)] = "sent", ![Task(q)] = Unpacked(q, res)]
  BY <1>q DEF SendAndPut
<1> DEFINE step == Unpacked(q, res)
<1>2. /\ res \in BOOLEAN
      /\ q \notin Reads => step = "answer" /\ ~ res
      /\ q \in Reads => (step = "give" /\ ~ res) \/ (step = "answer" /\ res)
  BY DEF Results, Unpacked
<1>3. /\ Db(w) \in Procs /\ Db(w) \in Givers /\ pc[Db(w)] = "send"
      /\ Task(q) \in Procs /\ Task(q) \in Givers /\ Task(q) # Db(w)
  BY Names DEF SendAndPut
<1>4. \A s \in Procs : pc'[s] = IF s = Task(q) THEN step ELSE IF s = Db(w) THEN "sent" ELSE pc[s]
  BY <1>0, <1>1, <1>3 DEF TypeOK
<1> HIDE DEF step
<1>5. \A r \in Queries : result'[r] = IF r = q THEN res ELSE result[r]
  BY <1>0, <1>1 DEF TypeOK
<1>6. UNCHANGED <<items, queries, back, pairing, waiting, item, told, cur>>
  BY DEF SendAndPut, pool
<1>7. Sending(q) /\ pc[Task(q)] = "off" /\ pc[User(q)] = "off" /\ told[q] = 0
  BY <1>0, <1>3, <1>q DEF Sending, InOrder, Early
<1>8. \A r \in Queries : Starting(r)' <=> Starting(r)
  BY <1>2, <1>3, <1>4, <1>6, <1>7 DEF Starting
<1>9. \A r \in Queries : (Waiting(r)' <=> Waiting(r)) /\ (Connected(r)' <=> Connected(r))
  BY <1>6 DEF Waiting, InList, Connected
<1>10. /\ QueryOf(Db(w)) = q /\ QueryOf(Task(q)) = q
       /\ \A s \in Givers : QueryOf(s)' = QueryOf(s)
  BY <1>6, <1>q, Names DEF QueryOf
<1>11. /\ Holds(Db(w)) /\ ~ Holds(Task(q))
       /\ Holds(Db(w))' <=> q \notin Reads
       /\ Holds(Task(q))' <=> q \in Reads
       /\ \A s \in Givers \ {Task(q), Db(w)} : Holds(s)' <=> Holds(s)
  <2>1. Holds(Db(w)) /\ ~ Holds(Task(q))
    BY <1>3, <1>7, Names DEF Holds
  <2>2. Holds(Db(w))' <=> q \notin Reads
    BY <1>3, <1>4, <1>6, <1>q, Names DEF Holds
  <2>3. Holds(Task(q))' <=> q \in Reads
    BY <1>2, <1>3, <1>4, <1>5, Names DEF Holds
  <2>4. \A s \in Givers \ {Task(q), Db(w)} : Holds(s)' <=> Holds(s)
    BY <1>4, <1>5, <1>6, Names DEF Holds
  <2> QED
    BY <2>1, <2>2, <2>3, <2>4
<1>12. \A r \in Queries : Sending(r)' => Sending(r) /\ r # q
  <2> SUFFICES ASSUME NEW r \in Queries, NEW v \in DbWorkers, pc'[Db(v)] = "send", cur[v] = r
               PROVE  Sending(r) /\ r # q
    BY <1>6 DEF Sending
  <2>1. Db(v) \in Procs /\ Db(v) \in Givers /\ Db(v) # Task(q)
    BY Names
  <2>2. v # w /\ Db(v) # Db(w) /\ pc[Db(v)] = "send"
    BY <1>3, <1>4, <2>1, Names
  <2>3. Holds(Db(v)) /\ QueryOf(Db(v)) = r
    BY <2>2, Names DEF Holds, QueryOf
  <2> QED
    BY <1>0, <1>3, <1>10, <1>11, <2>1, <2>2, <2>3 DEF HoldersOK, Sending
<1>13. ~ Early(q)' /\ \A r \in Queries : Early(r)' => Early(r)
  <2>1. Connected(q) /\ ~ Waiting(q) /\ ~ Starting(q)
    BY <1>0, <1>3, <1>10, <1>11 DEF HoldersOK
  <2> QED
    BY <1>6, <1>8, <1>9, <1>12, <2>1 DEF Early, Connected
<1>14. InOrder'
  <2> SUFFICES ASSUME NEW r \in Queries
               PROVE  /\ Early(r)' => pc'[Task(r)] = "off"
                      /\ Early(r)' \/ pc'[Task(r)] # "off" => pc'[User(r)] = "off" /\ told[r] = 0
                      /\ pc'[Task(r)] \in {"give", "active", "post"} => ~ result'[r]
    BY <1>6 DEF InOrder
  <2>1. /\ Task(r) \in Procs /\ User(r) \in Procs
        /\ r # q => pc'[Task(r)] = pc[Task(r)] /\ result'[r] = result[r]
        /\ r = q => pc'[Task(r)] = step /\ result'[r] = res
        /\ pc'[User(r)] = pc[User(r)]
    BY <1>3, <1>4, <1>5, Names
  <2> QED
    BY <1>0, <1>2, <1>7, <1>13, <2>1 DEF InOrder
<1>15. ListsOK'
  <2>1. NoDup(items)' /\ NoDup(queries)' /\ NoDup(waiting)'
    BY <1>0, <1>6 DEF ListsOK, NoDup
  <2>2. \A r \in Queries : pc'[Call(r)] = pc[Call(r)]
    BY <1>4, Names
  <2>3. \A r \in Queries : InList(r, queries)' <=> InList(r, queries)
    BY <1>6 DEF InList
  <2> QED
    BY <1>0, <1>6, <2>1, <2>2, <2>3 DEF ListsOK
<1>16. ItemsOK'
  BY <1>0, <1>6, <1>9 DEF ItemsOK
<1>17. HoldersOK'
  <2>1. \A s \in Givers : Holds(s)' /\ s # Task(q) => Holds(s)
    BY <1>11
  <2>2. \A s \in Givers : Holds(s)' /\ QueryOf(s) = q => s = IF q \in Reads THEN Task(q) ELSE Db(w)
    BY <1>0, <1>3, <1>10, <1>11 DEF HoldersOK
  <2>3. \A s, t \in Givers : Holds(s)' /\ Holds(t)' /\ QueryOf(s) = QueryOf(t) => s = t
    BY <1>0, <1>10, <2>1, <2>2 DEF HoldersOK
  <2>4. \A s \in Givers, r \in Queries : Holds(s)' /\ QueryOf(s) = r => \E t \in Givers : Holds(t) /\ QueryOf(t) = r
    BY <1>3, <1>10, <1>11, <2>1
  <2> QED
    BY <1>0, <1>8, <1>9, <1>10, <2>3, <2>4 DEF HoldersOK
<1> QED
  BY <1>14, <1>15, <1>16, <1>17 DEF Rest

-----------------------------------------------------------------------------
(* The theorems *)

(* db_init opens every connection once. *)
LEMMA AllItemsProps ==
  AllItems \in Seq(Items) /\ NoDup(AllItems) /\ \A i \in Items : InList(i, AllItems)
<1> DEFINE n == Cardinality(Items)
<1>1. n \in Nat /\ ExistsBijection(1 .. n, Items)
  BY DbAssumption, FS_CardinalityType
<1>2. \E s \in [1 .. n -> Items] : \A i \in Items : \E k \in DOMAIN s : s[k] = i
  BY <1>1 DEF ExistsBijection, Bijection, Surjection
<1>3. AllItems \in [1 .. n -> Items] /\ \A i \in Items : \E k \in DOMAIN AllItems : AllItems[k] = i
  BY <1>2 DEF AllItems
<1>4. AllItems \in Surjection(1 .. n, Items)
  BY <1>3 DEF Surjection
<1>5. IsFiniteSet(1 .. n) /\ Cardinality(1 .. n) = n
  BY <1>1, FS_Interval
<1>6. AllItems \in Injection(1 .. n, Items)
  BY <1>4, <1>5, FS_SurjSameCardinalityImpliesInj
<1>7. NoDup(AllItems)
  BY <1>3, <1>6 DEF NoDup, Injection, IsInjective
<1> QED
  BY <1>1, <1>3, <1>7 DEF InList

(* At first nothing is asked and every connection is free.                  *)
LEMMA InitInv == Init => IInv
<1> SUFFICES ASSUME Init
             PROVE  IInv
  OBVIOUS
<1>1. /\ \A p \in Procs : pc[p] = IF p[1] = "db" THEN "wait" ELSE IF p[1] = "call" THEN "start" ELSE "off"
      /\ \A p \in Givers : pc[p] \in {"wait", "off"} /\ ~ Holds(p)
      /\ \A q \in Queries : item[q] = Nobody /\ told[q] = 0 /\ back[q] = 0 /\ result[q] = FALSE
      /\ \A q \in Queries : pc[Task(q)] = "off" /\ pc[User(q)] = "off"
  BY Names DEF Init, Holds
<1>2. TypeOK
  BY AllItemsProps, DbAssumption DEF Init, TypeOK, Steps
<1>3. ThreadsOK
  <2>1. \A p \in Procs : pc[p] \in StepsOf(p)
    BY <1>1, Names DEF StepsOf
  <2>2. \A w \in DbWorkers : pc[Db(w)] = "wait"
    BY <1>1, Names
  <2>3. lock \notin Procs /\ \A p \in Procs : pc[p] \notin {"active", "post"}
    BY <1>1, Names DEF Init
  <2> QED
    BY <2>1, <2>2, <2>3 DEF Init, ThreadsOK
<1>4. InOrder
  BY <1>1 DEF InOrder
<1>5. ListsOK
  BY <1>1, AllItemsProps, DbAssumption DEF ListsOK, Init, NoDup, InList
<1>6. ItemsOK
  BY <1>1 DEF ItemsOK, Connected
<1>7. \A q \in Queries : ~ Waiting(q) /\ ~ Starting(q)
  BY DbAssumption DEF Init, Waiting, Starting, InList
<1>8. HoldersOK
  BY <1>1, <1>7 DEF HoldersOK
<1> QED
  BY <1>2, <1>3, <1>4, <1>5, <1>6, <1>8 DEF IInv

(* Every step keeps the invariant, when no context of a query is used       *)
(* again.                                                                   *)
LEMMA StepInv ==
  ASSUME IInv, [Next]_vars, "reuse" \notin Events
  PROVE  IInv'
<1>1. TypeOK' /\ ThreadsOK'
  BY TypeInductive, ThreadsInductive
<1>2. CASE Next
  <2>1. Rest'
    BY <1>2, NextCases, SubmitPairedStep, SubmitPendingStep, GivePairedStep, GiveFreeStep,
       StartBlockingStep, ReleaseStep, StartOnSocketStep, ContinueQueryStep, AnswerStep,
       WaitOrRereadStep, PopStep, SendAndPutStep
  <2> QED
    BY <1>1, <2>1 DEF IInv, Rest
<1>3. CASE UNCHANGED vars
  BY <1>3 DEF vars, IInv, TypeOK, ThreadsOK, InOrder, ListsOK, ItemsOK, HoldersOK, Early,
     Starting, Waiting, Sending, Connected, Holds, QueryOf, InList, NoDup
<1> QED
  BY <1>2, <1>3

(* The invariant of the pool.  Without the hypothesis the DB thread that     *)
(* reads q->type after shm_free(q) gives a connection back a second time.   *)
THEOREM Invariance ==
  ASSUME "reuse" \notin Events
  PROVE  Spec => []IInv
<1>1. IInv /\ [Next]_vars => IInv'
  BY StepInv
<1> QED
  BY InitInv, <1>1, PTL DEF Spec

(* The lists of the pool hold connections and queries, and the DB threads   *)
(* and tasks only work on queries that were submitted.                      *)
THEOREM TypeCorrect ==
  ASSUME "reuse" \notin Events
  PROVE  Spec => []TypeOK
<1>1. IInv => TypeOK
  BY DEF IInv
<1> QED
  BY Invariance, <1>1, PTL

(* The queries that use a connection are those that have one.               *)
LEMMA UsingConnected ==
  ASSUME IInv, NEW q \in Queries
  PROVE  q \in Using <=> Connected(q)
BY DEF IInv, ListsOK, TypeOK, Using, Stage, Connected

(* From the callback to db_finalize_fetch the rows of a result are read      *)
(* from a connection that is not free and that no other query has.          *)
THEOREM ResultKeepsItemHolds ==
  ASSUME "reuse" \notin Events
  PROVE  Spec => []ResultKeepsItem
<1>1. ASSUME IInv
      PROVE  ResultKeepsItem
  <2> SUFFICES ASSUME NEW q \in Queries, pc[User(q)] = "give"
               PROVE  /\ ~ InList(item[q], items)
                      /\ \A r \in Using : item[r] = item[q] => r = q
                      /\ q \in Using
    BY DEF ResultKeepsItem
  <2>1. User(q) \in Givers /\ Holds(User(q)) /\ QueryOf(User(q)) = q
    BY Names DEF Holds, QueryOf
  <2>2. Connected(q)
    BY <1>1, <2>1 DEF IInv, HoldersOK
  <2>3. Using \subseteq Queries
    BY DEF Using
  <2> QED
    BY <1>1, <2>2, <2>3, UsingConnected DEF IInv, ItemsOK
<1> QED
  BY Invariance, <1>1, PTL

-----------------------------------------------------------------------------
(* DbCore implements DbPool *)

(* No connection is free while a query is pending, and none is lost.        *)
Kept ==
  /\ items = <<>> \/ queries = <<>>
  /\ \A i \in Items : InList(i, items) \/ \E q \in Queries : Connected(q) /\ item[q] = i

Quiet == UNCHANGED <<items, queries, item, back>>

(* Few actions touch what DbPool speaks of. *)
LEMMA PoolCases ==
  ASSUME [Next]_vars
  PROVE  \/ \E q \in Queries : SubmitPaired(q) \/ SubmitPending(q) \/ Answer(q)
         \/ \E p \in Givers : GivePaired(p) \/ GiveFree(p)
         \/ Quiet /\ told' = told
<1>1. \A q \in Queries : ContinueQuery(q) => Quiet /\ told' = told
  BY DEF ContinueQuery, Quiet, pool
<1>2. \A p \in Procs : StartBlocking(p) \/ Post(p) \/ StartOnSocket(p) \/ StartFails(p) => Quiet /\ told' = told
  BY DEF StartBlocking, Post, StartOnSocket, StartFails, Quiet, pool
<1>3. \A w \in DbWorkers : Wait(w) \/ Pop(w) \/ SendAndPut(w) \/ Reread(w) => Quiet /\ told' = told
  BY DEF Wait, Pop, SendAndPut, Reread, Quiet, pool
<1>4. UNCHANGED vars => Quiet /\ told' = told
  BY DEF vars, Quiet
<1> QED
  BY <1>1, <1>2, <1>3, <1>4, NextCases

(* What the actions that move connections do to them. *)
LEMMA SubmitPairedFacts ==
  ASSUME IInv, NEW q \in Queries, SubmitPaired(q)
  PROVE  /\ Head(items) \in Items /\ InList(Head(items), items)
         /\ \A i : InList(i, items) => i = Head(items) \/ InList(i, items')
         /\ item[q] = Nobody /\ back[q] = 0 /\ ~ InList(q, queries)
         /\ \A r \in Queries : item'[r] = IF r = q THEN Head(items) ELSE item[r]
         /\ item' = [item EXCEPT ![q] = Head(items)]
         /\ queries' = queries /\ back' = back /\ told' = told
<1>1. items \in Seq(Items) /\ items # <<>> /\ items' = Tail(items)
  BY DEF IInv, TypeOK, SubmitPaired
<1>2. /\ Head(items) \in Items /\ InList(Head(items), items)
      /\ \A i : InList(i, items) => i = Head(items) \/ InList(i, items')
  BY <1>1, TailProps
<1> QED
  BY <1>2 DEF IInv, ListsOK, TypeOK, SubmitPaired, Pair

(* What db_submit_query does to a query that finds no connection.           *)
LEMMA SubmitPendingFacts ==
  ASSUME IInv, NEW q \in Queries, SubmitPending(q)
  PROVE  /\ items = <<>> /\ items' = items /\ item' = item /\ back' = back /\ told' = told
         /\ item[q] = Nobody /\ ~ InList(q, queries)
         /\ \A r : InList(r, queries)' <=> r = q \/ InList(r, queries)
<1>1. queries \in Seq(Queries)
  BY DEF IInv, TypeOK
<1>2. \A r : InList(r, Push(q, queries)) <=> r = q \/ InList(r, queries)
  BY <1>1, PushProps
<1>3. queries' = Push(q, queries)
  BY DEF SubmitPending
<1>4. \A r : InList(r, queries)' <=> InList(r, Push(q, queries))
  BY <1>3 DEF InList
<1> QED
  BY <1>2, <1>4 DEF IInv, ListsOK, SubmitPending

(* What passing a connection on to a pending query does to the two queries. *)
LEMMA GivePairedFacts ==
  ASSUME IInv, NEW p \in Givers, GivePaired(p)
  PROVE  \E q, n \in Queries :
         /\ q # n /\ Connected(q) /\ InList(n, queries) /\ item[n] = Nobody /\ back[n] = 0
         /\ \A r : InList(r, queries) => r = n \/ InList(r, queries)'
         /\ \A r : InList(r, queries)' => r # n /\ InList(r, queries)
         /\ item' = [item EXCEPT ![n] = item[q]]
         /\ back' = [back EXCEPT ![q] = @ + 1]
         /\ items' = items /\ queries # <<>> /\ told' = told
<1> DEFINE n == Head(queries)
           q == QueryOf(p)
<1>1. queries \in Seq(Queries) /\ queries # <<>> /\ queries' = Tail(queries) /\ NoDup(queries)
  BY DEF IInv, TypeOK, ListsOK, GivePaired
<1>2. /\ n \in Queries /\ InList(n, queries)
      /\ \A r : InList(r, queries) => r = n \/ InList(r, Tail(queries))
      /\ \A r : InList(r, Tail(queries)) => r # n /\ InList(r, queries)
  BY <1>1, TailProps
<1>3. \A r : InList(r, queries)' <=> InList(r, Tail(queries))
  BY <1>1 DEF InList
<1>4. q \in Queries /\ item[q] \in Items /\ back[q] = 0 /\ item[q] # Nobody
  BY GiverFacts, DbAssumption DEF GivePaired
<1>5. item[n] = Nobody /\ back[n] = 0 /\ q # n /\ Connected(q)
  BY <1>2, <1>4 DEF IInv, ListsOK, Connected
<1>6. /\ item' = [item EXCEPT ![n] = item[q]] /\ back' = [back EXCEPT ![q] = @ + 1]
      /\ items' = items /\ told' = told
  BY DEF GivePaired, Pair
<1> HIDE DEF n, q
<1> QED
  BY <1>1, <1>2, <1>3, <1>4, <1>5, <1>6

(* What giving a connection back to the list does.                          *)
LEMMA GiveFreeFacts ==
  ASSUME IInv, NEW p \in Givers, GiveFree(p)
  PROVE  \E q \in Queries :
         /\ Connected(q)
         /\ \A i : InList(i, items)' <=> i = item[q] \/ InList(i, items)
         /\ item' = item /\ back' = [back EXCEPT ![q] = @ + 1]
         /\ queries = <<>> /\ queries' = queries /\ told' = told
<1> DEFINE q == QueryOf(p)
<1>1. q \in Queries /\ item[q] \in Items /\ back[q] = 0 /\ Connected(q)
  BY GiverFacts, DbAssumption DEF GiveFree, Connected
<1>2. items \in Seq(Items) /\ items' = Push(item[q], items)
  BY DEF IInv, TypeOK, GiveFree
<1>3. \A i : InList(i, Push(item[q], items)) <=> i = item[q] \/ InList(i, items)
  BY <1>1, <1>2, PushProps
<1>4. \A i : InList(i, items)' <=> InList(i, Push(item[q], items))
  BY <1>2 DEF InList
<1>5. item' = item /\ back' = [back EXCEPT ![q] = @ + 1] /\ queries = <<>> /\ queries' = queries /\ told' = told
  BY DEF GiveFree
<1> HIDE DEF q
<1> QED
  BY <1>1, <1>3, <1>4, <1>5

(* Every step keeps the connections: none is free while a query is pending, *)
(* and none is lost.                                                        *)
LEMMA KeptInductive ==
  ASSUME IInv, Kept, [Next]_vars
  PROVE  Kept'
<1>0. /\ item \in [Queries -> Items \union {Nobody}] /\ back \in [Queries -> Nat]
      /\ items = <<>> => \A i : ~ InList(i, items)
  BY DEF IInv, TypeOK, InList
<1> USE DEF Kept
<1>1. ASSUME NEW q \in Queries, SubmitPaired(q)
      PROVE  Kept'
  <2>1. \A r \in Queries : (Connected(r) => item'[r] = item[r]) /\ (Connected(r)' <=> Connected(r) \/ r = q)
    BY <1>1, SubmitPairedFacts, DbAssumption DEF Connected
  <2>2. \A i \in Items : InList(i, items)' \/ \E r \in Queries : Connected(r)' /\ item'[r] = i
    <3> SUFFICES ASSUME NEW i \in Items
                 PROVE  InList(i, items') \/ \E r \in Queries : Connected(r)' /\ item'[r] = i
      BY DEF InList
    <3>1. CASE InList(i, items)
      BY <1>1, <2>1, <3>1, SubmitPairedFacts
    <3>2. CASE ~ InList(i, items)
      BY <2>1, <3>2
    <3> QED
      BY <3>1, <3>2
  <2>3. queries' = <<>>
    BY <1>1 DEF SubmitPaired
  <2> QED
    BY <2>2, <2>3
<1>2. ASSUME NEW q \in Queries, SubmitPending(q)
      PROVE  Kept'
  BY <1>2, SubmitPendingFacts DEF Connected, InList
<1>3. ASSUME NEW p \in Givers, GivePaired(p)
      PROVE  Kept'
  <2>1. PICK q \in Queries, n \in Queries :
               /\ q # n /\ Connected(q) /\ item[n] = Nobody /\ back[n] = 0
               /\ item' = [item EXCEPT ![n] = item[q]]
               /\ back' = [back EXCEPT ![q] = @ + 1]
               /\ items' = items /\ queries # <<>>
    BY <1>3, GivePairedFacts
  <2>2. /\ \A r \in Queries : item'[r] = IF r = n THEN item[q] ELSE item[r]
        /\ \A r \in Queries : back'[r] = IF r = q THEN back[r] + 1 ELSE back[r]
    BY <1>0, <2>1
  <2>3. Connected(n)' /\ item'[n] = item[q]
    BY <2>1, <2>2 DEF Connected
  <2>4. \A r \in Queries \ {q} : Connected(r) => Connected(r)' /\ item'[r] = item[r]
    BY <2>1, <2>2 DEF Connected
  <2>5. items = <<>> /\ items' = <<>>
    BY <2>1
  <2>6. \A i \in Items : \E r \in Queries : Connected(r) /\ item[r] = i
    BY <1>0, <2>5
  <2>7. \A i \in Items : \E r \in Queries : Connected(r)' /\ item'[r] = i
    BY <2>3, <2>4, <2>6
  <2> QED
    BY <2>5, <2>7
<1>4. ASSUME NEW p \in Givers, GiveFree(p)
      PROVE  Kept'
  <2>1. PICK q \in Queries :
               /\ \A i : InList(i, items)' <=> i = item[q] \/ InList(i, items)
               /\ item' = item /\ back' = [back EXCEPT ![q] = @ + 1]
               /\ queries' = <<>>
    BY <1>4, GiveFreeFacts
  <2>2. \A r \in Queries \ {q} : Connected(r) => Connected(r)' /\ item'[r] = item[r]
    BY <1>0, <2>1 DEF Connected
  <2>3. \A i \in Items : InList(i, items)' \/ \E r \in Queries : Connected(r)' /\ item'[r] = i
    BY <2>1, <2>2
  <2> QED
    BY <2>1, <2>3
<1>5. ASSUME Quiet
      PROVE  Kept'
  BY <1>5 DEF Quiet, Connected, InList
<1>6. \A q \in Queries : Answer(q) => Quiet
  BY DEF Answer, Quiet, pool
<1> QED
  BY <1>1, <1>2, <1>3, <1>4, <1>5, <1>6, PoolCases

(* The connections DbPool calls free are those of pool->items. *)
LEMMA FreeIsListed ==
  ASSUME IInv, Kept
  PROVE  Pool!Free = { i \in Items : InList(i, items) }
<1>1. \A q \in Queries : [r \in Queries |-> Stage(r)][q] = "using" <=> Connected(q)
  BY UsingConnected DEF Using
<1>2. Pool!Free = Items \ { item[q] : q \in { r \in Queries : Connected(r) } }
  BY <1>1 DEF Pool!Free
<1>3. ASSUME NEW i \in Items
      PROVE  InList(i, items) <=> i \notin { item[q] : q \in { r \in Queries : Connected(r) } }
  BY DEF IInv, ItemsOK, Kept
<1> QED
  BY <1>2, <1>3

(* A stage changes only with what Stage reads. *)
LEMMA StageFrame ==
  ASSUME NEW q \in Queries, item'[q] = item[q], back'[q] = back[q],
         InList(q, queries)' <=> InList(q, queries)
  PROVE  Stage(q)' = Stage(q)
  BY DEF Stage

(* db_submit_query, db_submit_item, unpack_result and the callbacks give     *)
(* every connection to one query at a time, keep none free while a query is *)
(* pending, and call each query's callback at most once.                    *)
THEOREM Refinement ==
  ASSUME "reuse" \notin Events
  PROVE  Spec => PoolSpec
<1> DEFINE stage == [q \in Queries |-> Stage(q)]
<1>1. Init => Pool!Init
  BY DEF Init, Pool!Init, Stage, InList
<1>2. Init => Kept
  BY AllItemsProps DEF Init, Kept
<1>3. IInv /\ Kept /\ [Next]_vars => Kept'
  BY KeptInductive
<1>4. IInv /\ Kept /\ [Next]_vars => [Pool!Next]_(Pool!vars)
  <2> SUFFICES ASSUME IInv, Kept, [Next]_vars
               PROVE  Pool!Next \/ (stage' = stage /\ item' = item /\ told' = told)
    BY DEF Pool!vars
  <2>0. /\ item \in [Queries -> Items \union {Nobody}] /\ back \in [Queries -> Nat]
        /\ told \in [Queries -> Nat]
        /\ items = <<>> => \A i : ~ InList(i, items)
    BY DEF IInv, TypeOK, InList
  <2>1. ASSUME NEW q \in Queries, SubmitPaired(q)
        PROVE  Pool!Submit(q)
    <3>1. \A r \in Queries : Stage(r)' = IF r = q THEN "using" ELSE Stage(r)
      BY <2>1, SubmitPairedFacts, DbAssumption DEF Stage, InList
    <3>2. stage' = [stage EXCEPT ![q] = "using"]
      BY <3>1
    <3>3. stage[q] = "new"
      BY <2>1, SubmitPairedFacts DEF Stage
    <3>4. Head(items) \in Pool!Free
      BY <2>1, SubmitPairedFacts, FreeIsListed
    <3> QED
      BY <2>1, <3>2, <3>3, <3>4, SubmitPairedFacts DEF Pool!Submit, Pool!Use
  <2>2. ASSUME NEW q \in Queries, SubmitPending(q)
        PROVE  Pool!Submit(q)
    <3>1. \A r \in Queries : Stage(r)' = IF r = q THEN "pending" ELSE Stage(r)
      BY <2>2, SubmitPendingFacts DEF Stage
    <3>2. stage' = [stage EXCEPT ![q] = "pending"]
      BY <3>1
    <3>3. stage[q] = "new"
      BY <2>2, SubmitPendingFacts DEF Stage
    <3>4. Pool!Free = {}
      BY <2>0, <2>2, SubmitPendingFacts, FreeIsListed
    <3> QED
      BY <2>2, <3>2, <3>3, <3>4, SubmitPendingFacts DEF Pool!Submit
  <2>3. ASSUME NEW p \in Givers, GivePaired(p)
        PROVE  \E q \in Queries : Pool!Release(q)
    <3>1. PICK q \in Queries, n \in Queries :
         /\ q # n /\ Connected(q) /\ InList(n, queries) /\ item[n] = Nobody /\ back[n] = 0
         /\ \A r : InList(r, queries) => r = n \/ InList(r, queries)'
         /\ \A r : InList(r, queries)' => r # n /\ InList(r, queries)
         /\ item' = [item EXCEPT ![n] = item[q]]
         /\ back' = [back EXCEPT ![q] = @ + 1]
         /\ told' = told
      BY <2>3, GivePairedFacts
    <3>2. /\ \A r \in Queries : item'[r] = IF r = n THEN item[q] ELSE item[r]
          /\ \A r \in Queries : back'[r] = IF r = q THEN back[r] + 1 ELSE back[r]
      BY <2>0, <3>1
    <3>3. Stage(q)' = "back" /\ Stage(n)' = "using" /\ stage[q] = "using" /\ stage[n] = "pending"
      BY <2>0, <3>1, <3>2, UsingConnected DEF Stage, Using, Connected
    <3>4. \A r \in Queries \ {q, n} : Stage(r)' = Stage(r)
      BY <3>1, <3>2, StageFrame
    <3>5. stage' = [stage EXCEPT ![q] = "back", ![n] = "using"]
      BY <3>1, <3>3, <3>4
    <3> QED
      BY <3>1, <3>3, <3>5 DEF Pool!Release, Pool!Use
  <2>4. ASSUME NEW p \in Givers, GiveFree(p)
        PROVE  \E q \in Queries : Pool!Release(q)
    <3>1. PICK q \in Queries :
         /\ Connected(q)
         /\ item' = item /\ back' = [back EXCEPT ![q] = @ + 1]
         /\ queries = <<>> /\ queries' = queries /\ told' = told
      BY <2>4, GiveFreeFacts
    <3>2. \A r \in Queries : back'[r] = IF r = q THEN back[r] + 1 ELSE back[r]
      BY <2>0, <3>1
    <3>3. \A r \in Queries : ~ InList(r, queries) /\ ~ InList(r, queries)'
      BY <3>1 DEF InList
    <3>4. Stage(q)' = "back" /\ stage[q] = "using"
      BY <2>0, <3>1, <3>2, <3>3, UsingConnected DEF Stage, Using, Connected
    <3>5. \A r \in Queries \ {q} : Stage(r)' = Stage(r)
      BY <3>1, <3>2, <3>3, StageFrame
    <3>6. stage' = [stage EXCEPT ![q] = "back"]
      BY <3>4, <3>5
    <3>7. \A r \in Queries : stage[r] # "pending"
      BY <3>3 DEF Stage
    <3> QED
      BY <3>1, <3>4, <3>6, <3>7 DEF Pool!Release
  <2>5. ASSUME NEW q \in Queries, Answer(q)
        PROVE  Pool!Answer(q)
    <3>1. ~ Early(q) /\ told[q] = 0 /\ item[q] # Nobody
      BY <2>5, Names DEF Answer, IInv, InOrder, Early
    <3>2. ~ InList(q, queries)
      BY <3>1 DEF IInv, ListsOK
    <3>3. stage[q] \in {"using", "back"}
      BY <3>1, <3>2 DEF Stage
    <3>4. told' = [told EXCEPT ![q] = 1] /\ Quiet
      BY <2>0, <2>5, <3>1 DEF Answer, pool, Quiet
    <3>5. stage' = stage /\ item' = item
      BY <3>4 DEF Quiet, Stage, InList
    <3> QED
      BY <3>1, <3>3, <3>4, <3>5 DEF Pool!Answer
  <2>6. ASSUME Quiet, told' = told
        PROVE  stage' = stage /\ item' = item /\ told' = told
    BY <2>6 DEF Quiet, Stage, InList
  <2> QED
    BY <2>1, <2>2, <2>3, <2>4, <2>5, <2>6, PoolCases DEF Pool!Next
<1> QED
  BY Invariance, <1>1, <1>2, <1>3, <1>4, PTL DEF Spec, PoolSpec, Pool!Spec

-----------------------------------------------------------------------------
(* The semaphore of the DB threads *)

(* The threads at the two steps the semaphore counts are finitely many.     *)
LEMMA AtFinite ==
  /\ IsFiniteSet(At("pop")) /\ Cardinality(At("pop")) \in Nat
  /\ IsFiniteSet(At("post")) /\ Cardinality(At("post")) \in Nat
<1>1. /\ IsFiniteSet({"task", "user"}) /\ IsFiniteSet({"db"}) /\ IsFiniteSet({"call"})
  <2>1. IsFiniteSet({"task"}) /\ IsFiniteSet({"user"}) /\ IsFiniteSet({"db"}) /\ IsFiniteSet({"call"})
    BY FS_Singleton
  <2>2. {"task", "user"} = {"task"} \union {"user"}
    OBVIOUS
  <2>3. IsFiniteSet({"task"} \union {"user"})
    <3> DEFINE T == {"task"}
               U == {"user"}
    <3>1. IsFiniteSet(T) /\ IsFiniteSet(U)
      BY <2>1
    <3> HIDE DEF T, U
    <3>2. IsFiniteSet(T \union U)
      BY <3>1, FS_Union
    <3> QED
      BY <3>2 DEF T, U
  <2>4. IsFiniteSet({"task", "user"})
    BY <2>2, <2>3
  <2> QED
    BY <2>1, <2>4
<1>2. /\ IsFiniteSet({"task", "user"} \X Queries) /\ IsFiniteSet({"db"} \X DbWorkers)
      /\ IsFiniteSet({"call"} \X Queries)
  BY <1>1, DbAssumption, FS_Product
<1>3. IsFiniteSet(Procs)
  BY <1>2, FS_Union DEF Procs, Givers
<1>4. At("pop") \subseteq Procs /\ At("post") \subseteq Procs
  BY DEF At
<1> QED
  BY <1>3, <1>4, FS_Subset, FS_CardinalityType

(* A thread that goes to a step leaves the two sets but for that step's.    *)
LEMMA AtMoves ==
  ASSUME TypeOK, NEW p \in Procs, NEW step \in Steps, Goto(p, step)
  PROVE  /\ At("pop")' = IF step = "pop" THEN At("pop") \union {p} ELSE At("pop") \ {p}
         /\ At("post")' = IF step = "post" THEN At("post") \union {p} ELSE At("post") \ {p}
BY DEF TypeOK, Goto, At

(* A step that moves no thread to or from the two leaves both sets.         *)
LEMMA AtStays ==
  ASSUME \A p \in Procs : (pc'[p] = "pop" <=> pc[p] = "pop") /\ (pc'[p] = "post" <=> pc[p] = "post")
  PROVE  At("pop")' = At("pop") /\ At("post")' = At("post")
BY DEF At

(* Every step keeps the tokens of the semaphore those of the list.          *)
LEMMA SemInductive ==
  ASSUME IInv, SemMatchesList, [Next]_vars
  PROVE  SemMatchesList'
<1>0. /\ TypeOK /\ sem \in Nat /\ waiting \in Seq(Queries)
      /\ "pop" \in Steps /\ "post" \in Steps
  BY DEF IInv, TypeOK, Steps
<1> USE AtFinite DEF SemMatchesList
<1>1. ASSUME \A p \in Procs : (pc'[p] = "pop" <=> pc[p] = "pop") /\ (pc'[p] = "post" <=> pc[p] = "post"),
             UNCHANGED <<waiting, sem>>
      PROVE  SemMatchesList'
  BY <1>1, AtStays
<1>2. ASSUME NEW q \in Queries, SubmitPaired(q) \/ SubmitPending(q)
      PROVE  SemMatchesList'
  <2>1. PICK step \in {"active", "off"} : pc' = [pc EXCEPT ![Call(q)] = step]
    BY <1>2 DEF SubmitPaired, SubmitPending, Pair, Goto
  <2> QED
    BY <1>0, <1>1, <1>2, <2>1 DEF SubmitPaired, SubmitPending, TypeOK
<1>3. ASSUME NEW p \in Givers, GivePaired(p) \/ GiveFree(p)
      PROVE  SemMatchesList'
  <2>1. PICK step \in {"active", "answer", "wait", "off"} : pc' = [pc EXCEPT ![p] = step]
    BY <1>3 DEF GivePaired, GiveFree, Pair, Goto, Back
  <2>2. pc[p] = "give"
    BY <1>3 DEF GivePaired, GiveFree
  <2> QED
    BY <1>0, <1>1, <1>3, <2>1, <2>2 DEF GivePaired, GiveFree, TypeOK
<1>4. ASSUME NEW p \in Procs, StartBlocking(p)
      PROVE  SemMatchesList'
  <2>1. pairing \in Queries
    BY <1>4, StarterFacts DEF StartBlocking
  <2>2. Len(waiting') = Len(waiting) + 1
    BY <1>0, <1>4, <2>1, PushProps DEF StartBlocking
  <2>3. p \notin At("post") /\ p \notin At("pop")
    BY <1>4 DEF StartBlocking, At
  <2>4. At("post")' = At("post") \union {p} /\ At("pop")' = At("pop")
    <3>1. Goto(p, "post")
      BY <1>4 DEF StartBlocking
    <3>2. At("post")' = At("post") \union {p} /\ At("pop")' = At("pop") \ {p}
      BY <1>0, <3>1, AtMoves
    <3> QED
      BY <2>3, <3>2
  <2>5. Cardinality(At("post"))' = Cardinality(At("post")) + 1
    BY <2>3, <2>4, FS_AddElement
  <2> QED
    BY <1>0, <1>4, <2>2, <2>4, <2>5 DEF StartBlocking
<1>5. ASSUME NEW p \in Procs, Post(p)
      PROVE  SemMatchesList'
  <2>1. p \in At("post") /\ p \notin At("pop")
    BY <1>5 DEF Post, At
  <2>2. Back(p) \in Steps /\ Back(p) \notin {"pop", "post"}
    BY DEF Back, Steps
  <2>3. At("post")' = At("post") \ {p} /\ At("pop")' = At("pop")
    BY <1>0, <1>5, <2>1, <2>2, AtMoves DEF Post, Release
  <2>4. Cardinality(At("post"))' = Cardinality(At("post")) - 1
    BY <2>1, <2>3, FS_RemoveElement
  <2> QED
    BY <1>0, <1>5, <2>3, <2>4 DEF Post
<1>6. ASSUME NEW p \in Procs, StartFails(p)
      PROVE  SemMatchesList'
  <2>1. pc[p] = "active" /\ Back(p) \notin {"pop", "post"} /\ pc' = [pc EXCEPT ![p] = Back(p)]
    BY <1>6 DEF StartFails, Release, Goto, Back
  <2> QED
    BY <1>0, <1>1, <1>6, <2>1 DEF StartFails, TypeOK
<1>7. ASSUME NEW p \in Procs, StartOnSocket(p)
      PROVE  SemMatchesList'
  <2>1. /\ pc[p] = "active" /\ Back(p) \notin {"pop", "post"}
        /\ pairing \in Queries /\ pc[Task(pairing)] = "off"
    BY <1>7, StarterFacts DEF StartOnSocket, Back
  <2>2. Task(pairing) \in Procs
    BY <2>1, Names
  <2> QED
    BY <1>0, <1>1, <1>7, <2>1, <2>2 DEF StartOnSocket, TypeOK
<1>8. ASSUME NEW q \in Queries, ContinueQuery(q)
      PROVE  SemMatchesList'
  <2>1. PICK step \in {"give", "answer"} : pc' = [pc EXCEPT ![Task(q)] = step]
    BY <1>8 DEF ContinueQuery, Goto, Unpacked
  <2>2. pc[Task(q)] = "armed"
    BY <1>8 DEF ContinueQuery
  <2> QED
    BY <1>0, <1>1, <1>8, <2>1, <2>2 DEF ContinueQuery, TypeOK
<1>9. ASSUME NEW q \in Queries, Answer(q)
      PROVE  SemMatchesList'
  <2>1. pc[Task(q)] = "answer" /\ pc[User(q)] = "off" /\ Task(q) \in Procs /\ User(q) \in Procs
    BY <1>9, Names DEF Answer, IInv, InOrder
  <2>2. PICK step \in {"give", "off"} : pc' = [pc EXCEPT ![Task(q)] = "off", ![User(q)] = step]
    BY <1>0, <1>9, <2>1, Names DEF Answer, TypeOK
  <2> QED
    BY <1>0, <1>1, <1>9, <2>1, <2>2 DEF Answer, TypeOK
<1>10. ASSUME NEW w \in DbWorkers, Wait(w)
       PROVE  SemMatchesList'
  <2>1. Db(w) \notin At("pop") /\ Db(w) \notin At("post") /\ Db(w) \in Procs
    BY <1>10, Names DEF Wait, At
  <2>2. At("pop")' = At("pop") \union {Db(w)} /\ At("post")' = At("post")
    <3>1. Goto(Db(w), "pop")
      BY <1>10 DEF Wait
    <3>2. At("pop")' = At("pop") \union {Db(w)} /\ At("post")' = At("post") \ {Db(w)}
      BY <1>0, <2>1, <3>1, AtMoves
    <3> QED
      BY <2>1, <3>2
  <2>3. Cardinality(At("pop"))' = Cardinality(At("pop")) + 1
    BY <2>1, <2>2, FS_AddElement
  <2> QED
    BY <1>0, <1>10, <2>2, <2>3 DEF Wait
<1>11. ASSUME NEW w \in DbWorkers, Pop(w)
       PROVE  SemMatchesList'
  <2>1. Db(w) \in At("pop") /\ Db(w) \notin At("post") /\ Db(w) \in Procs /\ "send" \in Steps
    BY <1>11, Names DEF Pop, At, Steps
  <2>2. At("pop")' = At("pop") \ {Db(w)} /\ At("post")' = At("post")
    BY <1>0, <1>11, <2>1, AtMoves DEF Pop
  <2>3. Cardinality(At("pop"))' = Cardinality(At("pop")) - 1
    BY <2>1, <2>2, FS_RemoveElement
  <2>4. Len(waiting') = Len(waiting) - 1
    BY <1>0, <1>11, TailProps DEF Pop
  <2> QED
    BY <1>0, <1>11, <2>2, <2>3, <2>4 DEF Pop
<1>12. ASSUME NEW w \in DbWorkers, SendAndPut(w)
       PROVE  SemMatchesList'
  <2>1. cur[w] \in Queries /\ pc[Db(w)] = "send" /\ pc[Task(cur[w])] = "off"
    BY <1>12, Names DEF SendAndPut, IInv, ThreadsOK, InOrder, Early, Sending
  <2>2. Task(cur[w]) \in Procs /\ Db(w) \in Procs
    BY <2>1, Names
  <2>3. PICK step \in {"give", "answer"} : pc' = [pc EXCEPT ![Db(w)] = "sent", ![Task(cur[w])] = step]
    BY <1>12 DEF SendAndPut, Unpacked
  <2> QED
    BY <1>0, <1>1, <1>12, <2>1, <2>2, <2>3 DEF SendAndPut, TypeOK
<1>13. ASSUME NEW w \in DbWorkers, Reread(w)
       PROVE  SemMatchesList'
  <2>1. PICK step \in {"wait", "give"} : pc' = [pc EXCEPT ![Db(w)] = step]
    BY <1>13 DEF Reread, Goto
  <2>2. pc[Db(w)] = "sent"
    BY <1>13 DEF Reread
  <2> QED
    BY <1>0, <1>1, <1>13, <2>1, <2>2 DEF Reread, TypeOK
<1>14. CASE UNCHANGED vars
  BY <1>1, <1>14 DEF vars
<1> QED
  BY <1>2, <1>3, <1>4, <1>5, <1>6, <1>7, <1>8, <1>9, <1>10, <1>11, <1>12, <1>13, <1>14, NextCases

(* A DB thread that got past sem_wait finds a query in the list, and no      *)
(* query is in the list without a token that was or will be posted for it.  *)
THEOREM SemCorrect ==
  ASSUME "reuse" \notin Events
  PROVE  Spec => []SemMatchesList
<1>1. Init => SemMatchesList
  <2> SUFFICES ASSUME Init
               PROVE  SemMatchesList
    OBVIOUS
  <2>1. At("pop") = {} /\ At("post") = {}
    BY DEF Init, At
  <2>2. Cardinality(At("pop")) = 0 /\ Cardinality(At("post")) = 0
    BY <2>1, FS_EmptySet
  <2>3. Len(waiting) = 0 /\ sem = 0
    BY DEF Init
  <2> QED
    BY <2>2, <2>3 DEF SemMatchesList
<1>2. IInv /\ SemMatchesList /\ [Next]_vars => SemMatchesList'
  BY SemInductive
<1> QED
  BY Invariance, <1>1, <1>2, PTL DEF Spec
=============================================================================
