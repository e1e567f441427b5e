--------------------------- MODULE DispatcherProofs ---------------------------
(***************************************************************************)
(* Proofs about the dispatcher for any number of threads and tasks, any    *)
(* priorities and any length of the array.                                 *)
(***************************************************************************)
EXTENDS Dispatcher, FiniteSetTheorems, WellFoundedInduction, TLAPS

(* The son a turn of get_task's loop picks is one of the three slots it     *)
(* compares, and none of them holds a more urgent task.                     *)
LEMMA HeaviestIsHeaviest ==
  ASSUME TypeOK, NEW i \in Nat, i < size,
         \A j \in 0 .. size - 1 : nodes[j] \in Tasks
  PROVE  LET family == {i} \union { k \in Kids(i) : k < size }
         IN  /\ Heaviest(i) \in family
             /\ \A j \in family : Prio[nodes[j]] <= Prio[nodes[Heaviest(i)]]
<1> DEFINE family == {i} \union { k \in Kids(i) : k < size }
           best   == { k \in family : \A j \in family : Prio[nodes[j]] <= Prio[nodes[k]] }
<1>1. family \subseteq 0 .. size - 1
  BY DEF Kids, TypeOK
<1>2. \A j \in family : Prio[nodes[j]] \in Int
  BY <1>1, TasksAssumption
<1>3. \E k \in best : \A j \in best : k <= j
  <2> DEFINE P(j) == Prio[nodes[j]]
  <2>1. family \subseteq {i, 2 * i + 1, 2 * i + 2} /\ i \in family
    BY DEF Kids
  <2>2. best # {}
    BY <1>2, <2>1
  <2>3. best \subseteq {i, 2 * i + 1, 2 * i + 2}
    BY <2>1
  <2> QED
    BY <2>2, <2>3
<1>4. Heaviest(i) \in best
  BY <1>3 DEF Heaviest
<1> QED
  BY <1>4

-----------------------------------------------------------------------------
(* Facts about the sets whose sizes SemMatchesHeap adds up. *)

(* The threads, and those that hold or owe a token, are finitely many.      *)
LEMMA Finiteness ==
  /\ IsFiniteSet(Threads)
  /\ IsFiniteSet(Takers) /\ Cardinality(Takers) \in Nat
  /\ IsFiniteSet(Posters) /\ Cardinality(Posters) \in Nat
<1>1. IsFiniteSet(Threads)
  BY ThreadsAssumption, FS_Union DEF Threads
<1>2. IsFiniteSet(Takers) /\ IsFiniteSet(Posters)
  BY <1>1, ThreadsAssumption, FS_Subset, Takers \in SUBSET Workers, Posters \in SUBSET Threads
     DEF Takers, Posters
<1> QED
  BY <1>1, <1>2, FS_CardinalityType

(* A token taken but not yet used belongs to a task in the array. *)
LEMMA TokenTask ==
  ASSUME TypeOK, SemMatchesHeap
  PROVE  TokenHasTask
<1> SUFFICES ASSUME NEW w \in Workers, pc[w] = "get_lock"
             PROVE  size > 0
  BY DEF TokenHasTask
<1>1. Takers # {}
  BY DEF Takers
<1>2. Cardinality(Takers) # 0
  BY <1>1, Finiteness, FS_EmptySet
<1> QED
  BY <1>2, Finiteness DEF TypeOK, SemMatchesHeap

(* The actions of Next, one by one.                                         *)
LEMMA NextCases ==
  ASSUME Next
  PROVE  \/ \E p \in Threads, t \in Tasks : PutCall(p, t)
         \/ \E p \in Threads : PutEnter(p)
         \/ \E p \in Threads : PutOverrun(p)
         \/ \E p \in Threads : PutSift(p)
         \/ \E p \in Threads : PutRelease(p)
         \/ \E p \in Threads : PutPost(p)
         \/ \E w \in Workers : GetWait(w)
         \/ \E w \in Workers : GetEnter(w)
         \/ \E w \in Workers : GetSift(w)
         \/ \E w \in Workers : GetRelease(w)
         \/ \E w \in Workers : Finish(w)
  BY DEF Next, Put, Get

-----------------------------------------------------------------------------
(* The invariant, part by part. *)

(* Every step keeps the types.                                              *)
LEMMA TypeInductive ==
  ASSUME TypeOK, ThreadsOK, SemMatchesHeap, NoTaskTwice, [Next]_vars
  PROVE  TypeOK'
<1> USE TasksAssumption DEF TypeOK, Slots, Goto
<1> Workers \subseteq Threads
  BY DEF Threads
<1>1. ASSUME NEW p \in Threads, NEW t \in Tasks, PutCall(p, t)
      PROVE  TypeOK'
  BY <1>1 DEF PutCall, Steps
<1>2. ASSUME NEW p \in Threads, PutEnter(p)
      PROVE  TypeOK'
  BY <1>2 DEF PutEnter, Steps
<1>3. ASSUME NEW p \in Threads, PutOverrun(p)
      PROVE  TypeOK'
  BY <1>3 DEF PutOverrun, Steps
<1>4. ASSUME NEW p \in Threads, PutSift(p)
      PROVE  TypeOK'
  <2>1. Parent(cur) \in Slots
    BY <1>4 DEF PutSift, AboveParent, Parent
  <2> QED
    BY <1>4, <2>1 DEF PutSift, Swap
<1>5. ASSUME NEW p \in Threads, PutRelease(p)
      PROVE  TypeOK'
  BY <1>5 DEF PutRelease, Steps
<1>6. ASSUME NEW p \in Threads, PutPost(p)
      PROVE  TypeOK'
  BY <1>6 DEF PutPost, Steps
<1>7. ASSUME NEW w \in Workers, GetWait(w)
      PROVE  TypeOK'
  BY <1>7 DEF GetWait, Steps
<1>8. ASSUME NEW w \in Workers, GetEnter(w)
      PROVE  TypeOK'
  <2>1. size > 0
    BY <1>8, TokenTask DEF GetEnter, TokenHasTask
  <2> QED
    BY <1>8, <2>1 DEF GetEnter, Steps
<1>9. ASSUME NEW w \in Workers, GetSift(w)
      PROVE  TypeOK'
  <2>1. Heaviest(cur) \in Slots
    BY <1>9, HeaviestIsHeaviest DEF GetSift, NoTaskTwice, Queued, Kids
  <2> QED
    BY <1>9, <2>1 DEF GetSift, Swap
<1>10. ASSUME NEW w \in Workers, GetRelease(w)
       PROVE  TypeOK'
  BY <1>10 DEF GetRelease, Steps
<1>11. ASSUME NEW w \in Workers, Finish(w)
       PROVE  TypeOK'
  BY <1>11 DEF Finish, Steps
<1>12. ASSUME UNCHANGED vars
       PROVE  TypeOK'
  BY <1>12 DEF vars
<1> QED
  BY <1>1, <1>2, <1>3, <1>4, <1>5, <1>6, <1>7, <1>8, <1>9, <1>10, <1>11, <1>12, NextCases

(* Every step keeps the lock with the one thread in a loop, and each hand   *)
(* with its task.                                                           *)
LEMMA ThreadsInductive ==
  ASSUME TypeOK, ThreadsOK, SemMatchesHeap, NoTaskTwice, [Next]_vars
  PROVE  ThreadsOK'
<1> USE ThreadsAssumption, TasksAssumption DEF TypeOK, ThreadsOK, Goto, Slots
<1> Workers \subseteq Threads
  BY DEF Threads
<1>1. ASSUME NEW p \in Threads, NEW t \in Tasks, PutCall(p, t)
      PROVE  ThreadsOK'
  BY <1>1 DEF PutCall
<1>2. ASSUME NEW p \in Threads, PutEnter(p)
      PROVE  ThreadsOK'
  BY <1>2 DEF PutEnter
<1>3. ASSUME NEW p \in Threads, PutOverrun(p)
      PROVE  ThreadsOK'
  BY <1>3 DEF PutOverrun
<1>4. ASSUME NEW p \in Threads, PutSift(p)
      PROVE  ThreadsOK'
  BY <1>4 DEF PutSift, AboveParent, Parent
<1>5. ASSUME NEW p \in Threads, PutRelease(p)
      PROVE  ThreadsOK'
  BY <1>5 DEF PutRelease
<1>6. ASSUME NEW p \in Threads, PutPost(p)
      PROVE  ThreadsOK'
  BY <1>6 DEF PutPost, Threads
<1>7. ASSUME NEW w \in Workers, GetWait(w)
      PROVE  ThreadsOK'
  BY <1>7 DEF GetWait
<1>8. ASSUME NEW w \in Workers, GetEnter(w)
      PROVE  ThreadsOK'
  <2>1. size > 0
    BY <1>8, TokenTask DEF GetEnter, TokenHasTask
  <2>2. nodes[0] \in Tasks
    BY <2>1 DEF NoTaskTwice, Queued
  <2> QED
    BY <1>8, <2>1, <2>2 DEF GetEnter
<1>9. ASSUME NEW w \in Workers, GetSift(w)
      PROVE  ThreadsOK'
  <2>1. Heaviest(cur) < size
    BY <1>9, HeaviestIsHeaviest DEF GetSift, NoTaskTwice, Queued, Kids
  <2>2. Heaviest(cur) \in Nat
    BY <1>9, HeaviestIsHeaviest DEF GetSift, NoTaskTwice, Queued, Kids
  <2> QED
    BY <1>9, <2>1, <2>2 DEF GetSift
<1>10. ASSUME NEW w \in Workers, GetRelease(w)
       PROVE  ThreadsOK'
  BY <1>10 DEF GetRelease
<1>11. ASSUME NEW w \in Workers, Finish(w)
       PROVE  ThreadsOK'
  BY <1>11 DEF Finish
<1>12. ASSUME UNCHANGED vars
       PROVE  ThreadsOK'
  BY <1>12 DEF vars
<1> QED
  BY <1>1, <1>2, <1>3, <1>4, <1>5, <1>6, <1>7, <1>8, <1>9, <1>10, <1>11, <1>12, NextCases

(* The three steps that move a thread in or out of the two sets change one  *)
(* side of the sum as they change the other.                                *)
LEMMA SemInductive ==
  ASSUME TypeOK, ThreadsOK, SemMatchesHeap, [Next]_vars
  PROVE  SemMatchesHeap'
<1> USE ThreadsAssumption, Finiteness DEF TypeOK, SemMatchesHeap, Goto
<1> Workers \subseteq Threads
  BY DEF Threads
<1>1. ASSUME NEW p \in Threads, NEW t \in Tasks, PutCall(p, t)
      PROVE  SemMatchesHeap'
  <2>1. Takers' = Takers /\ Posters' = Posters
    BY <1>1 DEF PutCall, Takers, Posters
  <2> QED
    BY <1>1, <2>1 DEF PutCall
<1>2. ASSUME NEW p \in Threads, PutEnter(p)
      PROVE  SemMatchesHeap'
  <2>1. Takers' = Takers /\ Posters' = Posters \union {p} /\ p \notin Posters
    BY <1>2 DEF PutEnter, Takers, Posters
  <2>2. Cardinality(Posters') = Cardinality(Posters) + 1
    BY <2>1, FS_AddElement
  <2> QED
    BY <1>2, <2>1, <2>2 DEF PutEnter
<1>3. ASSUME NEW p \in Threads, PutOverrun(p)
      PROVE  SemMatchesHeap'
  <2>1. Takers' = Takers /\ Posters' = Posters
    BY <1>3 DEF PutOverrun, Takers, Posters
  <2> QED
    BY <1>3, <2>1 DEF PutOverrun
<1>4. ASSUME NEW p \in Threads, PutSift(p)
      PROVE  SemMatchesHeap'
  BY <1>4 DEF PutSift, Takers, Posters
<1>5. ASSUME NEW p \in Threads, PutRelease(p)
      PROVE  SemMatchesHeap'
  <2>1. Takers' = Takers /\ Posters' = Posters
    BY <1>5 DEF PutRelease, Takers, Posters
  <2> QED
    BY <1>5, <2>1 DEF PutRelease
<1>6. ASSUME NEW p \in Threads, PutPost(p)
      PROVE  SemMatchesHeap'
  <2>1. Takers' = Takers /\ Posters' = Posters \ {p} /\ p \in Posters
    BY <1>6 DEF PutPost, Takers, Posters
  <2>2. Cardinality(Posters') = Cardinality(Posters) - 1
    BY <2>1, FS_RemoveElement
  <2> QED
    BY <1>6, <2>1, <2>2 DEF PutPost
<1>7. ASSUME NEW w \in Workers, GetWait(w)
      PROVE  SemMatchesHeap'
  <2>1. Takers' = Takers \union {w} /\ Posters' = Posters /\ w \notin Takers
    BY <1>7 DEF GetWait, Takers, Posters
  <2>2. Cardinality(Takers') = Cardinality(Takers) + 1
    BY <2>1, FS_AddElement
  <2> QED
    BY <1>7, <2>1, <2>2 DEF GetWait
<1>8. ASSUME NEW w \in Workers, GetEnter(w)
      PROVE  SemMatchesHeap'
  <2>1. Takers' = Takers \ {w} /\ Posters' = Posters /\ w \in Takers
    BY <1>8 DEF GetEnter, Takers, Posters
  <2>2. Cardinality(Takers') = Cardinality(Takers) - 1
    BY <2>1, FS_RemoveElement
  <2> QED
    BY <1>8, <2>1, <2>2 DEF GetEnter
<1>9. ASSUME NEW w \in Workers, GetSift(w)
      PROVE  SemMatchesHeap'
  BY <1>9 DEF GetSift, Takers, Posters
<1>10. ASSUME NEW w \in Workers, GetRelease(w)
       PROVE  SemMatchesHeap'
  <2>1. Takers' = Takers /\ Posters' = Posters
    BY <1>10 DEF GetRelease, Takers, Posters
  <2> QED
    BY <1>10, <2>1 DEF GetRelease
<1>11. ASSUME NEW w \in Workers, Finish(w)
       PROVE  SemMatchesHeap'
  <2>1. Takers' = Takers /\ Posters' = Posters
    BY <1>11 DEF Finish, Takers, Posters
  <2> QED
    BY <1>11, <2>1 DEF Finish
<1>12. ASSUME UNCHANGED vars
       PROVE  SemMatchesHeap'
  BY <1>12 DEF vars, Takers, Posters
<1> QED
  BY <1>1, <1>2, <1>3, <1>4, <1>5, <1>6, <1>7, <1>8, <1>9, <1>10, <1>11, <1>12, NextCases

(* Swapping two slots below size moves tasks but neither adds, drops nor    *)
(* doubles one.                                                             *)
LEMMA SwapKeepsTasks ==
  ASSUME TypeOK, NoTaskTwice, NEW i \in 0 .. size - 1, NEW j \in 0 .. size - 1,
         Swap(i, j), UNCHANGED <<size, pc, arg>>
  PROVE  Queued' = Queued /\ NoTaskTwice'
<1> USE DEF NoTaskTwice
<1>1. /\ nodes'[i] = nodes[j] /\ nodes'[j] = nodes[i]
      /\ \A k \in 0 .. size - 1 : k # i /\ k # j => nodes'[k] = nodes[k]
  <2>1. 0 .. size - 1 \subseteq Slots /\ DOMAIN nodes = Slots
    BY TasksAssumption DEF TypeOK, Slots
  <2> QED
    BY <2>1 DEF Swap
<1>2. Queued' = Queued
  BY <1>1 DEF Queued
<1>3. \A k, l \in 0 .. size - 1 : nodes'[k] = nodes'[l] => k = l
  BY <1>1
<1> QED
  BY <1>2, <1>3 DEF Before

(* Every step keeps the tasks of the heap distinct.                         *)
LEMMA NoTaskTwiceInductive ==
  ASSUME TypeOK, ThreadsOK, SemMatchesHeap, NoTaskTwice, [Next]_vars
  PROVE  NoTaskTwice'
<1> USE TasksAssumption DEF TypeOK, Slots, Goto
<1> Workers \subseteq Threads
  BY DEF Threads
<1>1. ASSUME NEW p \in Threads, NEW t \in Tasks, PutCall(p, t)
      PROVE  NoTaskTwice'
  <2>1. t \notin Queued /\ Queued' = Queued
    BY <1>1 DEF PutCall, InFlight, Queued
  <2>2. \A q \in Threads : Before(q) => arg[q] # t
    BY <1>1 DEF PutCall, InFlight, Before
  <2> QED
    BY <1>1, <2>1, <2>2 DEF PutCall, NoTaskTwice, Before
<1>2. ASSUME NEW p \in Threads, PutEnter(p)
      PROVE  NoTaskTwice'
  <2>1. arg[p] \in Tasks /\ arg[p] \notin Queued
    BY <1>2 DEF PutEnter, ThreadsOK, NoTaskTwice, Before
  <2>2. Queued' = Queued \union {arg[p]}
    BY <1>2 DEF PutEnter, Queued
  <2>3. \A i, j \in 0 .. size' - 1 : nodes'[i] = nodes'[j] => i = j
    BY <1>2, <2>1 DEF PutEnter, NoTaskTwice, Queued
  <2>4. \A q \in Threads : Before(q)' => Before(q) /\ q # p /\ arg'[q] = arg[q]
    BY <1>2 DEF PutEnter, Before
  <2>5. \A q \in Threads : Before(q)' => arg'[q] \notin Queued'
    BY <1>2, <2>2, <2>4 DEF PutEnter, NoTaskTwice, Before
  <2> QED
    BY <2>1, <2>2, <2>3, <2>4, <2>5 DEF NoTaskTwice
<1>3. ASSUME NEW p \in Threads, PutOverrun(p)
      PROVE  NoTaskTwice'
  <2>1. Queued' = Queued
    BY <1>3 DEF PutOverrun, Queued
  <2>2. \A q \in Threads : Before(q)' <=> Before(q)
    BY <1>3 DEF PutOverrun, Before
  <2> QED
    BY <1>3, <2>1, <2>2 DEF PutOverrun, NoTaskTwice
<1>4. ASSUME NEW p \in Threads, PutSift(p)
      PROVE  NoTaskTwice'
  <2>1. cur \in 0 .. size - 1 /\ Parent(cur) \in 0 .. size - 1
    BY <1>4 DEF PutSift, AboveParent, Parent, ThreadsOK
  <2> QED
    BY <1>4, <2>1, SwapKeepsTasks DEF PutSift
<1>5. ASSUME NEW p \in Threads, PutRelease(p)
      PROVE  NoTaskTwice'
  BY <1>5 DEF PutRelease, NoTaskTwice, Queued, Before
<1>6. ASSUME NEW p \in Threads, PutPost(p)
      PROVE  NoTaskTwice'
  BY <1>6 DEF PutPost, NoTaskTwice, Queued, Before
<1>7. ASSUME NEW w \in Workers, GetWait(w)
      PROVE  NoTaskTwice'
  BY <1>7 DEF GetWait, NoTaskTwice, Queued, Before
<1>8. ASSUME NEW w \in Workers, GetEnter(w)
      PROVE  NoTaskTwice'
  <2>1. size > 0
    BY <1>8, TokenTask DEF GetEnter, TokenHasTask
  <2>2. \A i \in 0 .. size' - 1 :
          nodes'[i] = IF i = 0 THEN nodes[size - 1] ELSE nodes[i]
    BY <1>8, <2>1 DEF GetEnter
  <2>3. Queued' \subseteq Queued
    BY <1>8, <2>1, <2>2 DEF GetEnter, Queued
  <2>4. \A i, j \in 0 .. size' - 1 : nodes'[i] = nodes'[j] => i = j
    BY <1>8, <2>1, <2>2 DEF GetEnter, NoTaskTwice
  <2>5. \A q \in Threads : Before(q)' => Before(q) /\ arg'[q] = arg[q]
    BY <1>8 DEF GetEnter, Before
  <2> QED
    BY <2>3, <2>4, <2>5 DEF NoTaskTwice
<1>9. ASSUME NEW w \in Workers, GetSift(w)
      PROVE  NoTaskTwice'
  <2>1. cur \in 0 .. size - 1 /\ Heaviest(cur) \in 0 .. size - 1
    BY <1>9, HeaviestIsHeaviest DEF GetSift, NoTaskTwice, Queued, Kids
  <2> QED
    BY <1>9, <2>1, SwapKeepsTasks DEF GetSift
<1>10. ASSUME NEW w \in Workers, GetRelease(w)
       PROVE  NoTaskTwice'
  BY <1>10 DEF GetRelease, NoTaskTwice, Queued, Before
<1>11. ASSUME NEW w \in Workers, Finish(w)
       PROVE  NoTaskTwice'
  BY <1>11 DEF Finish, NoTaskTwice, Queued, Before
<1>12. ASSUME UNCHANGED vars
       PROVE  NoTaskTwice'
  BY <1>12 DEF vars, NoTaskTwice, Queued, Before
<1> QED
  BY <1>1, <1>2, <1>3, <1>4, <1>5, <1>6, <1>7, <1>8, <1>9, <1>10, <1>11, <1>12, NextCases

-----------------------------------------------------------------------------
(* The heap order. *)

(* A slot is below its parent, and a son of it.                             *)
LEMMA ParentFacts ==
  ASSUME NEW i \in Nat \ {0}
  PROVE  /\ Parent(i) \in Nat
         /\ Parent(i) < i
         /\ \A c \in Nat : Parent(i) = c <=> i \in Kids(c)
  BY DEF Parent, Kids

(* What a swap does to the priorities the order compares. *)
LEMMA SwapPriorities ==
  ASSUME TypeOK, NoTaskTwice, NEW i \in 0 .. size - 1, NEW j \in 0 .. size - 1, Swap(i, j)
  PROVE  /\ \A k \in 0 .. size - 1 : Prio[nodes[k]] \in Int /\ Prio[nodes'[k]] \in Int
         /\ Prio[nodes'[i]] = Prio[nodes[j]]
         /\ Prio[nodes'[j]] = Prio[nodes[i]]
         /\ \A k \in 0 .. size - 1 : k # i /\ k # j => Prio[nodes'[k]] = Prio[nodes[k]]
<1>1. 0 .. size - 1 \subseteq Slots /\ DOMAIN nodes = Slots
  BY TasksAssumption DEF TypeOK, Slots
<1>2. \A k \in 0 .. size - 1 : Prio[nodes[k]] \in Int
  BY TasksAssumption DEF NoTaskTwice, Queued
<1> QED
  BY <1>1, <1>2 DEF Swap

(* Every step keeps the heap, but for the slot that is being moved.         *)
LEMMA HeapInductive ==
  ASSUME TypeOK, ThreadsOK, SemMatchesHeap, NoTaskTwice, HeapInv, [Next]_vars
  PROVE  HeapInv'
<1> Workers \subseteq Threads
  BY DEF Threads
<1> DEFINE Sifting(q) == pc[q] \in {"put_sift", "get_sift", "wild"}
           N == 0 .. size - 1
<1>a. \A p, q \in Threads : Sifting(p) /\ Sifting(q) => p = q
  BY DEF ThreadsOK
<1>b. lock = NoThread => \A p \in Threads : ~ Sifting(p)
  BY ThreadsAssumption DEF ThreadsOK
<1>c. \A k \in N : Prio[nodes[k]] \in Int
  BY TasksAssumption DEF NoTaskTwice, Queued
<1>d. size \in Nat /\ cur \in Nat
  BY TasksAssumption DEF TypeOK, Slots
<1>e. \A i \in 1 .. size - 1 : Parent(i) \in N /\ Parent(i) < i /\ i \in N
  BY <1>d, ParentFacts
(* Steps that leave the array alone and let no thread into a sift loop. *)
<1>f. ASSUME UNCHANGED <<nodes, size, lock, cur>>,
             \A q \in Threads : Sifting(q)' => pc'[q] = pc[q]
      PROVE  HeapInv'
  BY <1>f DEF HeapInv, HeapOrder, Ordered, KidsBelowGrandparent, AboveParent
<1>1. ASSUME NEW p \in Threads, NEW t \in Tasks, PutCall(p, t)
      PROVE  HeapInv'
  BY <1>1, <1>f DEF PutCall, Goto, TypeOK
<1>2. ASSUME NEW p \in Threads, PutEnter(p)
      PROVE  HeapInv'
  <2>1. \A q \in Threads : Sifting(q)' => q = p
    BY <1>2, <1>b DEF PutEnter, Goto, TypeOK
  <2>2. pc'[p] = "put_sift" /\ lock' = p /\ size' = size + 1 /\ cur' = size
    BY <1>2 DEF PutEnter, Goto, TypeOK
  <2>3. \A k \in N : nodes'[k] = nodes[k]
    BY <1>2, <1>d, TasksAssumption DEF PutEnter, TypeOK, Slots
  <2>4. \A i \in 1 .. size - 1 : ~ AboveParent(i)'
    BY <1>2, <1>e, <2>3 DEF PutEnter, HeapInv, HeapOrder, AboveParent
  <2>5. Ordered({ i \in 1 .. size - 1 : i # cur })'
    BY <2>2, <2>4, <1>d DEF Ordered
  <2>6. KidsBelowGrandparent'
    <3>1. \A i \in 1 .. size' - 1 : Parent(i) # size
      BY <2>2, <1>d, ParentFacts
    <3> QED
      BY <2>2, <3>1 DEF KidsBelowGrandparent
  <2>7. HeapOrder'
    BY <2>2, ThreadsAssumption DEF HeapOrder
  <2> QED
    BY <2>1, <2>2, <2>5, <2>6, <2>7 DEF HeapInv
<1>3. ASSUME NEW p \in Threads, PutOverrun(p)
      PROVE  HeapInv'
  <2>1. \A q \in Threads : Sifting(q)' => pc'[q] = "wild"
    BY <1>3, <1>b DEF PutOverrun, Goto, TypeOK
  <2>2. lock' # NoThread
    BY <1>3, ThreadsAssumption DEF PutOverrun
  <2> QED
    BY <2>1, <2>2 DEF HeapInv, HeapOrder
<1>4. ASSUME NEW p \in Threads, PutSift(p)
      PROVE  HeapInv'
  <2> DEFINE up == Parent(cur)
  <2>1. /\ pc[p] = "put_sift" /\ pc' = pc /\ size' = size /\ lock' = lock /\ cur' = up
        /\ cur \in 1 .. size - 1 /\ Prio[nodes[cur]] > Prio[nodes[up]] /\ Swap(cur, up)
    BY <1>4, <1>d DEF PutSift, AboveParent, ThreadsOK
  <2>2. up \in N /\ up < cur
    BY <2>1, <1>e
  <2>3. Ordered({ i \in 1 .. size - 1 : i # cur }) /\ KidsBelowGrandparent
    BY <2>1 DEF HeapInv
  <2>4. /\ Prio[nodes'[cur]] = Prio[nodes[up]]
        /\ Prio[nodes'[up]] = Prio[nodes[cur]]
        /\ \A k \in N : k # cur /\ k # up => Prio[nodes'[k]] = Prio[nodes[k]]
    BY <2>1, <2>2, SwapPriorities
  <2>5. \A i \in 1 .. size - 1 : i # cur => Prio[nodes[i]] <= Prio[nodes[Parent(i)]]
    BY <2>3, <1>c, <1>e DEF Ordered, AboveParent
  <2>6. ASSUME NEW i \in 1 .. size - 1, i # up
        PROVE  Prio[nodes'[i]] <= Prio[nodes'[Parent(i)]]
    <3>1. CASE i = cur
      BY <3>1, <2>1, <2>2, <2>4, <1>c
    <3>2. CASE i # cur /\ Parent(i) = up
      BY <3>2, <2>1, <2>2, <2>4, <2>5, <2>6, <1>c, <1>e
    <3>3. CASE Parent(i) = cur
      BY <3>3, <2>1, <2>2, <2>3, <2>4, <2>6, <1>c, <1>e DEF KidsBelowGrandparent
    <3>4. CASE i # cur /\ Parent(i) # up /\ Parent(i) # cur
      BY <3>4, <2>4, <2>5, <2>6, <1>e
    <3> QED
      BY <3>1, <3>2, <3>3, <3>4
  <2>7. ASSUME NEW i \in 1 .. size - 1, Parent(i) = up, up > 0
        PROVE  Prio[nodes'[i]] <= Prio[nodes'[Parent(up)]]
    <3>1. up \in 1 .. size - 1 /\ up # cur
      BY <2>2, <2>7
    <3>2. Parent(up) \in N /\ Parent(up) < up
      BY <3>1, <1>e
    <3>3. Prio[nodes'[Parent(up)]] = Prio[nodes[Parent(up)]]
      BY <3>2, <2>2, <2>4
    <3>4. Prio[nodes[up]] <= Prio[nodes[Parent(up)]]
      BY <3>1, <2>5
    <3>5. Prio[nodes'[i]] <= Prio[nodes[up]]
      <4>1. CASE i = cur
        BY <4>1, <2>2, <2>4, <1>c
      <4>2. CASE i # cur
        BY <4>2, <2>4, <2>5, <2>7, <1>c, <1>e
      <4> QED
        BY <4>1, <4>2
    <3>6. Prio[nodes'[i]] \in Int
      BY <2>1, <2>2, <1>e, SwapPriorities
    <3> QED
      BY <3>2, <3>3, <3>4, <3>5, <3>6, <2>2, <1>c
  <2>8. Ordered({ i \in 1 .. size - 1 : i # cur })'
    <3>1. \A i \in N : Prio[nodes'[i]] \in Int
      BY <2>1, <2>2, SwapPriorities
    <3> QED
      BY <2>1, <2>6, <3>1, <1>e DEF Ordered, AboveParent
  <2>9. KidsBelowGrandparent'
    BY <2>1, <2>7 DEF KidsBelowGrandparent
  <2>10. \A q \in Threads : Sifting(q)' => q = p
    BY <2>1, <1>a
  <2>11. lock' # NoThread
    BY <2>1, ThreadsAssumption DEF ThreadsOK
  <2> QED
    BY <2>1, <2>8, <2>9, <2>10, <2>11 DEF HeapInv, HeapOrder
<1>5. ASSUME NEW p \in Threads, PutRelease(p)
      PROVE  HeapInv'
  <2>1. /\ pc[p] = "put_sift" /\ ~ AboveParent(cur) /\ pc' = [pc EXCEPT ![p] = "put_post"]
        /\ UNCHANGED <<nodes, size, cur>>
    BY <1>5 DEF PutRelease, Goto
  <2>2. \A i \in 1 .. size - 1 : ~ AboveParent(i)
    BY <2>1 DEF HeapInv, Ordered
  <2>3. \A q \in Threads : ~ Sifting(q)'
    BY <2>1, <1>a DEF TypeOK
  <2> QED
    BY <2>1, <2>2, <2>3 DEF HeapInv, HeapOrder, AboveParent
<1>6. ASSUME NEW p \in Threads, PutPost(p)
      PROVE  HeapInv'
  BY <1>6, <1>f DEF PutPost, Goto, TypeOK
<1>7. ASSUME NEW w \in Workers, GetWait(w)
      PROVE  HeapInv'
  BY <1>7, <1>f DEF GetWait, Goto, TypeOK
<1>8. ASSUME NEW w \in Workers, GetEnter(w)
      PROVE  HeapInv'
  <2>1. \A q \in Threads : Sifting(q)' => q = w
    BY <1>8, <1>b DEF GetEnter, Goto, TypeOK
  <2>2. pc'[w] = "get_sift" /\ lock' = w /\ size' = size - 1 /\ cur' = 0
    BY <1>8 DEF GetEnter, Goto, TypeOK
  <2>3. \A k \in N : k # 0 => nodes'[k] = nodes[k]
    BY <1>8, <1>d, TasksAssumption DEF GetEnter, TypeOK, Slots
  <2>4. \A i \in 1 .. size - 1 : Parent(i) # 0 => ~ AboveParent(i)'
    BY <1>8, <1>e, <2>3 DEF GetEnter, HeapInv, HeapOrder, AboveParent
  <2>5. Ordered({ i \in 1 .. size - 1 : Parent(i) # cur })'
    BY <2>2, <2>4, <1>d DEF Ordered
  <2>6. KidsBelowGrandparent'
    BY <2>2 DEF KidsBelowGrandparent
  <2>7. HeapOrder'
    BY <2>2, ThreadsAssumption DEF HeapOrder
  <2> QED
    BY <2>1, <2>2, <2>5, <2>6, <2>7 DEF HeapInv
<1>9. ASSUME NEW w \in Workers, GetSift(w)
      PROVE  HeapInv'
  <2> DEFINE son == Heaviest(cur)
  <2>1. /\ pc[w] = "get_sift" /\ pc' = pc /\ size' = size /\ lock' = lock /\ cur' = son
        /\ cur \in N /\ son # cur /\ Swap(cur, son)
    BY <1>9, <1>d DEF GetSift
  <2>2. son \in Kids(cur) /\ son \in 1 .. size - 1 /\ son \in N /\ Parent(son) = cur /\ cur < son
    <3>1. son \in Kids(cur) /\ son < size
      BY <2>1, <1>d, HeaviestIsHeaviest DEF NoTaskTwice, Queued
    <3> QED
      BY <3>1, <1>d, ParentFacts DEF Kids
  <2>3. \A i \in 1 .. size - 1 : Parent(i) = cur => Prio[nodes[i]] <= Prio[nodes[son]]
    <3>1. \A k \in Kids(cur) : k < size => Prio[nodes[k]] <= Prio[nodes[son]]
      BY <2>1, <1>d, HeaviestIsHeaviest DEF NoTaskTwice, Queued, Kids
    <3>2. \A i \in 1 .. size - 1 : Parent(i) = cur => i \in Kids(cur) /\ i < size
      BY <1>d, ParentFacts
    <3> QED
      BY <3>1, <3>2
  <2>4. Prio[nodes[cur]] <= Prio[nodes[son]]
    BY <2>1, <1>d, HeaviestIsHeaviest DEF NoTaskTwice, Queued
  <2>5. /\ Prio[nodes'[cur]] = Prio[nodes[son]]
        /\ Prio[nodes'[son]] = Prio[nodes[cur]]
        /\ \A k \in N : k # cur /\ k # son => Prio[nodes'[k]] = Prio[nodes[k]]
    BY <2>1, <2>2, SwapPriorities
  <2>6. Ordered({ i \in 1 .. size - 1 : Parent(i) # cur }) /\ KidsBelowGrandparent
    BY <2>1 DEF HeapInv
  <2>7. \A i \in 1 .. size - 1 : Parent(i) # cur => Prio[nodes[i]] <= Prio[nodes[Parent(i)]]
    BY <2>6, <1>c, <1>e DEF Ordered, AboveParent
  <2>8. ASSUME NEW i \in 1 .. size - 1, Parent(i) # son
        PROVE  Prio[nodes'[i]] <= Prio[nodes'[Parent(i)]]
    <3>1. CASE i = son
      BY <3>1, <2>2, <2>4, <2>5
    <3>2. CASE i = cur
      <4>1. Prio[nodes[son]] <= Prio[nodes[Parent(cur)]]
        BY <3>2, <2>2, <2>6 DEF KidsBelowGrandparent
      <4>2. Parent(cur) \in N /\ Parent(cur) < cur
        BY <3>2, <1>e
      <4> QED
        BY <3>2, <4>1, <4>2, <2>2, <2>5, <1>d
    <3>3. CASE i # son /\ i # cur /\ Parent(i) = cur
      BY <3>3, <2>3, <2>5, <1>e
    <3>4. CASE i # son /\ i # cur /\ Parent(i) # cur
      BY <3>4, <2>5, <2>7, <2>8, <1>e
    <3> QED
      BY <3>1, <3>2, <3>3, <3>4
  <2>9. ASSUME NEW i \in 1 .. size - 1, Parent(i) = son
        PROVE  Prio[nodes'[i]] <= Prio[nodes'[Parent(son)]]
    <3>1. i # cur /\ i # son /\ Parent(i) # cur
      BY <2>2, <2>9, <1>e, <1>d
    <3> QED
      BY <3>1, <2>2, <2>5, <2>7, <2>9, <1>e
  <2>10. Ordered({ i \in 1 .. size - 1 : Parent(i) # cur })'
    <3>1. \A i \in N : Prio[nodes'[i]] \in Int
      BY <2>1, <2>2, SwapPriorities
    <3> QED
      BY <2>1, <2>8, <3>1, <1>e DEF Ordered, AboveParent
  <2>11. KidsBelowGrandparent'
    BY <2>1, <2>9 DEF KidsBelowGrandparent
  <2>12. \A q \in Threads : Sifting(q)' => q = w
    BY <2>1, <1>a
  <2>13. lock' # NoThread
    BY <2>1, ThreadsAssumption DEF ThreadsOK
  <2> QED
    BY <2>1, <2>10, <2>11, <2>12, <2>13 DEF HeapInv, HeapOrder
<1>10. ASSUME NEW w \in Workers, GetRelease(w)
       PROVE  HeapInv'
  <2>1. /\ pc[w] = "get_sift" /\ pc' = [pc EXCEPT ![w] = "run"]
        /\ UNCHANGED <<nodes, size, cur>>
        /\ 2 * cur + 1 < size => Heaviest(cur) = cur
    BY <1>10 DEF GetRelease, Goto
  <2>2. ASSUME NEW i \in 1 .. size - 1, Parent(i) = cur
        PROVE  Prio[nodes[i]] <= Prio[nodes[cur]]
    <3>1. i \in Kids(cur) /\ i < size /\ 2 * cur + 1 < size
      BY <2>2, <1>d, ParentFacts DEF Kids
    <3>2. Heaviest(cur) = cur /\ cur < size
      BY <3>1, <2>1, <1>d
    <3> QED
      BY <3>1, <3>2, <1>d, HeaviestIsHeaviest DEF NoTaskTwice, Queued
  <2>3. \A i \in 1 .. size - 1 : ~ AboveParent(i)
    BY <2>1, <2>2, <1>c, <1>e DEF HeapInv, Ordered, AboveParent
  <2>4. \A q \in Threads : ~ Sifting(q)'
    BY <2>1, <1>a DEF TypeOK
  <2> QED
    BY <2>1, <2>3, <2>4 DEF HeapInv, HeapOrder, AboveParent
<1>11. ASSUME NEW w \in Workers, Finish(w)
       PROVE  HeapInv'
  BY <1>11, <1>f DEF Finish, Goto, TypeOK
<1>12. ASSUME UNCHANGED vars
       PROVE  HeapInv'
  BY <1>12, <1>f DEF vars
<1> QED
  BY <1>1, <1>2, <1>3, <1>4, <1>5, <1>6, <1>7, <1>8, <1>9, <1>10, <1>11, <1>12, NextCases

(* Who writes past the end found the heap full, and keeps the lock.         *)
LEMMA OverrunInductive ==
  ASSUME TypeOK, ThreadsOK, OverrunInv, [Next]_vars
  PROVE  OverrunInv'
<1> USE DEF TypeOK, OverrunInv, Goto
<1> Workers \subseteq Threads
  BY DEF Threads
<1>1. ASSUME NEW p \in Threads, PutEnter(p) \/ PutOverrun(p)
      PROVE  OverrunInv'
  BY <1>1, ThreadsAssumption DEF PutEnter, PutOverrun, ThreadsOK
<1>2. ASSUME NEW w \in Workers, GetEnter(w)
      PROVE  OverrunInv'
  BY <1>2, ThreadsAssumption DEF GetEnter, ThreadsOK
<1>3. ASSUME UNCHANGED size, \A q \in Threads : pc'[q] = "wild" => pc[q] = "wild"
      PROVE  OverrunInv'
  BY <1>3
<1>4. ASSUME NEW p \in Threads, NEW t \in Tasks,
             PutCall(p, t) \/ PutSift(p) \/ PutRelease(p) \/ PutPost(p)
      PROVE  OverrunInv'
  BY <1>3, <1>4 DEF PutCall, PutSift, PutRelease, PutPost
<1>5. ASSUME NEW p \in Threads, PutSift(p) \/ PutRelease(p) \/ PutPost(p)
      PROVE  OverrunInv'
  BY <1>3, <1>5 DEF PutSift, PutRelease, PutPost
<1>6. ASSUME NEW w \in Workers, GetWait(w) \/ GetSift(w) \/ GetRelease(w) \/ Finish(w)
      PROVE  OverrunInv'
  BY <1>3, <1>6 DEF GetWait, GetSift, GetRelease, Finish
<1>7. ASSUME UNCHANGED vars
      PROVE  OverrunInv'
  BY <1>3, <1>7 DEF vars
<1> QED
  BY <1>1, <1>2, <1>4, <1>5, <1>6, <1>7, NextCases

-----------------------------------------------------------------------------
(* The theorems. *)

(* The empty heap.                                                          *)
LEMMA InitInv == Init => Inv
<1> SUFFICES ASSUME Init
             PROVE  Inv
  OBVIOUS
<1> USE ThreadsAssumption, TasksAssumption DEF Init, Slots
<1>1. TypeOK
  BY DEF TypeOK, Steps
<1>2. ThreadsOK
  BY DEF ThreadsOK, Threads
<1>3. SemMatchesHeap
  <2>1. Takers = {} /\ Posters = {}
    BY DEF Takers, Posters, Threads
  <2> QED
    BY <2>1, FS_EmptySet DEF SemMatchesHeap
<1>4. NoTaskTwice
  BY DEF NoTaskTwice, Queued, Before
<1>5. \A p \in Threads : pc[p] \in {"idle", "get_wait"}
  BY DEF Threads
<1>6. HeapInv
  BY <1>5 DEF HeapInv, HeapOrder, Threads
<1>7. OverrunInv
  BY <1>5 DEF OverrunInv
<1> QED
  BY <1>1, <1>2, <1>3, <1>4, <1>6, <1>7 DEF Inv

(* The invariant of the dispatcher: whatever the threads do in dispatcher.c *)
(* and in whatever order they get the lock, every part of Inv holds.        *)
THEOREM Invariance == Spec => []Inv
<1>1. Inv /\ [Next]_vars => Inv'
  BY TypeInductive, ThreadsInductive, SemInductive, NoTaskTwiceInductive,
     HeapInductive, OverrunInductive DEF Inv
<1> QED
  BY InitInv, <1>1, PTL DEF Spec

(* put_task and get_task only touch slots of nodes, and only with tasks. *)
THEOREM TypeCorrect == Spec => []TypeOK
<1>1. Inv => TypeOK
  BY DEF Inv
<1> QED
  BY Invariance, <1>1, PTL

(* A thread that gets the lock of the dispatcher finds a heap. *)
THEOREM HeapCorrect == Spec => []HeapOrder
<1>1. Inv => HeapOrder
  BY DEF Inv, HeapInv
<1> QED
  BY Invariance, <1>1, PTL

(* No task is lost or stored twice by the loops of put_task and get_task. *)
THEOREM NoTaskTwiceHolds == Spec => []NoTaskTwice
<1>1. Inv => NoTaskTwice
  BY DEF Inv
<1> QED
  BY Invariance, <1>1, PTL

(* The semaphore and the heap agree, so get_task never pops an empty heap. *)
THEOREM SemCorrect == Spec => [](SemMatchesHeap /\ TokenHasTask)
<1>1. Inv => SemMatchesHeap /\ TokenHasTask
  BY TokenTask DEF Inv
<1> QED
  BY Invariance, <1>1, PTL

(* In a heap the root is as urgent as any task: a slot more urgent than the *)
(* root and with the least index would be more urgent than its parent.      *)
LEMMA RootIsUrgent ==
  ASSUME TypeOK, NoTaskTwice, HeapOrder, lock = NoThread, NEW k \in 0 .. size - 1
  PROVE  Prio[nodes[k]] <= Prio[nodes[0]]
<1> DEFINE T == { i \in 0 .. size - 1 : Prio[nodes[i]] > Prio[nodes[0]] }
<1>1. \A i \in 0 .. size - 1 : Prio[nodes[i]] \in Int
  BY TasksAssumption DEF NoTaskTwice, Queued
<1>2. size \in Nat /\ 0 \in 0 .. size - 1
  BY DEF TypeOK
<1>3. ASSUME T # {}
      PROVE  FALSE
  <2>1. T \subseteq Nat
    OBVIOUS
  <2>2. \E x \in T : \A y \in T : ~ (<<y, x>> \in OpToRel(<, Nat))
    BY <2>1, <1>3, NatLessThanWellFounded, WFMin
  <2>3. PICK x \in T : \A y \in T : ~ (y < x)
    BY <2>1, <2>2 DEF OpToRel
  <2>4. x \in 1 .. size - 1
    BY <1>1, <1>2
  <2>5. Parent(x) \in 0 .. size - 1 /\ Parent(x) < x
    BY <2>4, <1>2, ParentFacts
  <2>6. Parent(x) \notin T
    BY <2>3, <2>5
  <2>7. Prio[nodes[x]] <= Prio[nodes[Parent(x)]]
    BY <2>4, <2>5, <1>1 DEF HeapOrder, AboveParent
  <2> QED
    BY <2>5, <2>6, <2>7, <1>1, <1>2
<1> QED
  BY <1>1, <1>2, <1>3

(* put_task and get_task implement the pool of TaskPool: no worker ever     *)
(* gets a task while a more urgent one is queued, gets one that was not put *)
(* or one that another worker got.                                          *)
THEOREM Refinement == Spec => PoolSpec
<1>1. Init => Pool!Init
  BY DEF Init, Pool!Init, Queued
<1>2. Inv /\ [Next]_vars => [Pool!Next]_(Pool!vars)
  <2> SUFFICES ASSUME Inv, [Next]_vars
               PROVE  Pool!Next \/ (Queued' = Queued /\ hand' = hand)
    BY DEF Pool!vars
  <2> USE DEF Inv
  <2> Workers \subseteq Threads
    BY DEF Threads
  <2>1. ASSUME NEW p \in Threads, PutEnter(p)
        PROVE  Pool!Next
    <3>1. arg[p] \in Tasks /\ arg[p] \notin Queued
      BY <2>1 DEF PutEnter, ThreadsOK, NoTaskTwice, Before
    <3>2. Queued' = Queued \union {arg[p]}
      BY <2>1, TasksAssumption DEF PutEnter, Queued, TypeOK, Slots
    <3>3. Pool!Submit(arg[p])
      BY <2>1, <3>1, <3>2 DEF PutEnter, Pool!Submit
    <3> QED
      BY <3>1, <3>3 DEF Pool!Next
  <2>2. ASSUME NEW w \in Workers, GetEnter(w)
        PROVE  Pool!Next
    <3>1. size > 0
      BY <2>2, TokenTask DEF GetEnter, TokenHasTask
    <3>2. nodes[0] \in Queued
      BY <3>1 DEF Queued, TypeOK
    <3>3. nodes[0] \in Pool!Urgent(Queued)
      BY <3>2, <2>2, RootIsUrgent DEF Pool!Urgent, Queued, GetEnter, HeapInv
    <3>4. Queued' = Queued \ {nodes[0]}
      <4>1. /\ size' = size - 1 /\ size \in Nat
            /\ \A i \in 0 .. size' - 1 : nodes'[i] = IF i = 0 THEN nodes[size - 1] ELSE nodes[i]
        BY <2>2, <3>1, TasksAssumption DEF GetEnter, TypeOK, Slots
      <4>2. \A i \in 0 .. size - 1 : nodes[i] = nodes[0] => i = 0
        BY <3>1, <4>1 DEF NoTaskTwice
      <4>3. ASSUME NEW i \in 0 .. size' - 1
            PROVE  \E j \in 1 .. size - 1 : nodes'[i] = nodes[j]
        BY <4>1
      <4>4. ASSUME NEW j \in 1 .. size - 1
            PROVE  \E i \in 0 .. size' - 1 : nodes'[i] = nodes[j]
        <5>1. CASE j = size - 1
          BY <5>1, <4>1
        <5>2. CASE j # size - 1
          BY <5>2, <4>1
        <5> QED
          BY <5>1, <5>2
      <4>5. Queued \ {nodes[0]} = { nodes[j] : j \in 1 .. size - 1 }
        BY <4>1, <4>2 DEF Queued
      <4>6. Queued' = { nodes'[i] : i \in 0 .. size' - 1 }
        BY DEF Queued
      <4>7. Queued' \subseteq { nodes[j] : j \in 1 .. size - 1 }
        BY <4>3, <4>6
      <4>8. { nodes[j] : j \in 1 .. size - 1 } \subseteq Queued'
        BY <4>4, <4>6
      <4> QED
        BY <4>5, <4>7, <4>8
    <3>5. hand[w] = NoTask
      BY <2>2 DEF GetEnter, ThreadsOK
    <3>6. Pool!Take(w)
      BY <2>2, <3>3, <3>4, <3>5 DEF GetEnter, Pool!Take
    <3> QED
      BY <3>6 DEF Pool!Next
  <2>3. ASSUME NEW w \in Workers, Finish(w)
        PROVE  Pool!Next
    <3>1. hand[w] # NoTask
      BY <2>3 DEF Finish, ThreadsOK
    <3>2. Pool!Finish(w)
      BY <2>3, <3>1 DEF Finish, Pool!Finish, Queued
    <3> QED
      BY <3>2 DEF Pool!Next
  <2>4. ASSUME NEW p \in Threads, PutSift(p)
        PROVE  Queued' = Queued
    <3>1. cur \in 0 .. size - 1 /\ Parent(cur) \in 0 .. size - 1
      BY <2>4, TasksAssumption DEF PutSift, AboveParent, Parent, ThreadsOK, TypeOK, Slots
    <3> QED
      BY <2>4, <3>1, SwapKeepsTasks DEF PutSift
  <2>5. ASSUME NEW w \in Workers, GetSift(w)
        PROVE  Queued' = Queued
    <3>1. cur \in 0 .. size - 1 /\ Heaviest(cur) \in 0 .. size - 1
      BY <2>5, HeaviestIsHeaviest, TasksAssumption
         DEF GetSift, NoTaskTwice, Queued, Kids, TypeOK, Slots
    <3> QED
      BY <2>5, <3>1, SwapKeepsTasks DEF GetSift
  <2>6. ASSUME UNCHANGED <<nodes, size, hand>>
        PROVE  Queued' = Queued /\ hand' = hand
    BY <2>6 DEF Queued
  <2>7. ASSUME UNCHANGED vars
        PROVE  UNCHANGED <<nodes, size, hand>>
    BY <2>7 DEF vars
  <2>8. ASSUME NEW p \in Threads, NEW t \in Tasks,
               PutCall(p, t) \/ PutOverrun(p) \/ PutRelease(p) \/ PutPost(p)
        PROVE  UNCHANGED <<nodes, size, hand>>
    BY <2>8 DEF PutCall, PutOverrun, PutRelease, PutPost
  <2>9. ASSUME NEW p \in Threads, PutOverrun(p) \/ PutRelease(p) \/ PutPost(p)
        PROVE  UNCHANGED <<nodes, size, hand>>
    BY <2>9 DEF PutOverrun, PutRelease, PutPost
  <2>10. ASSUME NEW w \in Workers, GetWait(w) \/ GetRelease(w)
         PROVE  UNCHANGED <<nodes, size, hand>>
    BY <2>10 DEF GetWait, GetRelease
  <2>11. \A p \in Threads : PutSift(p) => hand' = hand
    BY DEF PutSift
  <2>12. \A w \in Workers : GetSift(w) => hand' = hand
    BY DEF GetSift
  <2> QED
    BY <2>1, <2>2, <2>3, <2>4, <2>5, <2>6, <2>7, <2>8, <2>9, <2>10, <2>11, <2>12, NextCases
<1> QED
  BY Invariance, <1>1, <1>2, PTL DEF Spec, PoolSpec, Pool!Spec

(* MAX_TASKS slots are enough for MAX_TASKS tasks in flight: put_task runs  *)
(* past the end of nodes only if more than that are.                        *)
THEOREM OverrunNeedsFullHeap == Spec => []OverrunOnlyWhenFull
<1>1. Inv => OverrunOnlyWhenFull
  <2> SUFFICES ASSUME Inv, NEW p \in Threads, pc[p] = "wild"
               PROVE  Cardinality(InFlight) > MaxTasks
    BY DEF OverrunOnlyWhenFull
  <2> USE DEF Inv
  <2>1. size = MaxTasks /\ size \in Nat
    BY TasksAssumption DEF OverrunInv, TypeOK
  <2>2. IsFiniteSet(Queued) /\ Cardinality(Queued) = size
    <3> DEFINE S == 0 .. size - 1
               f == [i \in S |-> nodes[i]]
    <3>1. IsFiniteSet(S) /\ Cardinality(S) = size
      BY <2>1, FS_Interval
    <3>2. f \in Injection(S, Queued)
      <4>1. f \in [S -> Queued]
        BY DEF Queued
      <4>2. \A i, j \in S : f[i] = f[j] => i = j
        BY DEF NoTaskTwice
      <4> HIDE DEF f, S
      <4> QED
        BY <4>1, <4>2, DOMAIN f = S DEF Injection, IsInjective
    <3>3. f \in Surjection(S, Queued)
      <4>1. f \in [S -> Queued]
        BY DEF Queued
      <4>2. ASSUME NEW t \in Queued
            PROVE  \E i \in S : f[i] = t
        <5>1. PICK i \in S : nodes[i] = t
          BY DEF Queued
        <5>2. f[i] = t
          BY <5>1
        <5> QED
          BY <5>2
      <4> HIDE DEF f, S
      <4> QED
        BY <4>1, <4>2 DEF Surjection
    <3>4. ExistsBijection(S, Queued)
      BY <3>2, <3>3 DEF ExistsBijection, Bijection
    <3> QED
      BY <3>1, <3>4, FS_Bijection
  <2>3. arg[p] \notin Queued
    BY DEF NoTaskTwice, Before
  <2>4. /\ IsFiniteSet(Queued \union {arg[p]})
        /\ Cardinality(Queued \union {arg[p]}) = size + 1
    BY <2>2, <2>3, FS_AddElement
  <2>5. InFlight \subseteq Tasks /\ Queued \union {arg[p]} \subseteq InFlight
    BY DEF InFlight, NoTaskTwice, ThreadsOK
  <2>6. IsFiniteSet(InFlight)
    BY <2>5, TasksAssumption, FS_Subset
  <2>7. Cardinality(Queued \union {arg[p]}) <= Cardinality(InFlight)
    BY <2>5, <2>6, FS_Subset
  <2>8. Cardinality(InFlight) \in Nat
    BY <2>6, FS_CardinalityType
  <2> QED
    BY <2>1, <2>4, <2>7, <2>8
<1> QED
  BY Invariance, <1>1, PTL
=============================================================================
