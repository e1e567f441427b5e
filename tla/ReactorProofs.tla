---------------------------- MODULE ReactorProofs ----------------------------
(***************************************************************************)
(* Proofs about the reactor for any set of descriptors and any number of   *)
(* messages in the control pipe.                                           *)
(***************************************************************************)
EXTENDS Reactor, SequenceTheorems, TLAPS

(* The actions of Next, one by one.                                         *)
LEMMA NextCases ==
  ASSUME Next
  PROVE  \/ \E f \in Fds : \/ SubmitFd(f) \/ SubmitCb(f) \/ SubmitAdd(f)
                           \/ Fire(f) \/ Event(f) \/ Run(f)
         \/ Wait \/ ReadPipe \/ FireCopy \/ FiresDone
         \/ EventCopy \/ EventsDone \/ Unhash \/ Delete
  BY DEF Next, Submit, Loop

(* At first every descriptor is its handler's and none is registered.       *)
LEMMA InitInv == Init => Inv
  BY ReactorAssumption DEF Init, Inv, TypeOK, OneTask, Owners, Marks, Slots

(* Every step keeps the types.                                              *)
LEMMA TypeInductive ==
  ASSUME Inv, [Next]_vars
  PROVE  TypeOK'
<1> USE DEF Inv, TypeOK, reactorVars
<1>1. ASSUME NEW f \in Fds, SubmitFd(f)
      PROVE  TypeOK'
  <2>1. [slot[f] EXCEPT !.fd = "set"] \in Slots
    BY slot[f] \in Slots DEF Slots, Marks
  <2>2. slot' \in [Fds -> Slots]
    <3>1. slot' = [slot EXCEPT ![f] = [slot[f] EXCEPT !.fd = "set"]]
      BY <1>1 DEF SubmitFd
    <3> QED
      BY <2>1, <3>1
  <2>3. sub' \in [Fds -> {0, 1}]
    BY <1>1, sub[f] \in {0, 1} DEF SubmitFd
  <2> QED
    BY <1>1, <2>2, <2>3 DEF SubmitFd, Owners
<1>2. ASSUME NEW f \in Fds, SubmitCb(f)
      PROVE  TypeOK'
  <2>1. slot' \in [Fds -> Slots]
    BY <1>2 DEF SubmitCb, Slots
  <2> QED
    BY <1>2, <2>1 DEF SubmitCb, Owners
<1>3. ASSUME NEW f \in Fds, SubmitAdd(f)
      PROVE  TypeOK'
  BY <1>3 DEF SubmitAdd, Owners
<1>4. ASSUME NEW f \in Fds, Fire(f)
      PROVE  TypeOK'
  BY <1>4, AppendProperties DEF Fire
<1>5. ASSUME NEW f \in Fds, Event(f)
      PROVE  TypeOK'
  BY <1>5 DEF Event
<1>6. ASSUME NEW f \in Fds, Run(f)
      PROVE  TypeOK'
  <2>1. Tail(queue[f]) \in Seq({0, 1})
    BY <1>6, HeadTailProperties DEF Run
  <2> QED
    BY <1>6, <2>1 DEF Run, Owners
<1>7. CASE Wait
  BY <1>7 DEF Wait
<1>8. CASE ReadPipe
  BY <1>8 DEF ReadPipe
<1>9. CASE FireCopy
  <2>1. Head(fires) \in Fds /\ Tail(fires) \in Seq(Fds)
    BY <1>9, HeadTailProperties DEF FireCopy
  <2> QED
    BY <1>9, <2>1 DEF FireCopy
<1>10. CASE FiresDone
  BY <1>10 DEF FiresDone
<1>11. CASE EventCopy
  BY <1>11 DEF EventCopy
<1>12. CASE EventsDone
  BY <1>12 DEF EventsDone
<1>13. CASE Unhash
  <2>1. slot' \in [Fds -> Slots]
    BY <1>13 DEF Unhash, Slots, Marks
  <2> QED
    BY <1>13, <2>1 DEF Unhash
<1>14. CASE Delete
  <2>1. e.f \in Fds /\ e.s.cb \in {0, 1}
    BY DEF Slots
  <2>2. Append(queue[e.f], e.s.cb) \in Seq({0, 1})
    BY <2>1, AppendProperties
  <2> QED
    BY <1>14, <2>1, <2>2 DEF Delete
<1>15. CASE UNCHANGED vars
  BY <1>15 DEF vars
<1> QED
  BY <1>1, <1>2, <1>3, <1>4, <1>5, <1>6, <1>7, <1>8, <1>9, <1>10, <1>11, <1>12,
     <1>13, <1>14, <1>15, NextCases

(* Only three steps touch what OneTask is about.  A descriptor is armed     *)
(* when it is registered, loses its registration when it gets its task, and *)
(* its owner when the task is run.                                          *)
LEMMA OneTaskInductive ==
  ASSUME Inv, [Next]_vars
  PROVE  OneTask'
<1> USE DEF Inv, TypeOK, OneTask, reactorVars
<1>1. ASSUME NEW f \in Fds, SubmitFd(f) \/ SubmitCb(f)
      PROVE  OneTask'
  BY <1>1 DEF SubmitFd, SubmitCb
<1>2. ASSUME NEW f \in Fds, SubmitAdd(f)
      PROVE  OneTask'
  BY <1>2 DEF SubmitAdd
<1>3. ASSUME NEW f \in Fds, Run(f)
      PROVE  OneTask'
  <2>1. Tail(queue[f]) = <<>>
    BY <1>3, HeadTailProperties, EmptySeq DEF Run
  <2> QED
    BY <1>3, <2>1 DEF Run
<1>4. CASE Delete
  <2>1. e.f \in Fds /\ e.s.cb \in {0, 1}
    BY DEF Slots
  <2>2. CASE e.f \in reg
    <3>1. Len(Append(queue[e.f], e.s.cb)) = 1
      BY <2>1, <2>2, AppendProperties, EmptySeq
    <3> QED
      BY <1>4, <2>1, <2>2, <3>1 DEF Delete
  <2>3. CASE e.f \notin reg
    BY <1>4, <2>3 DEF Delete
  <2> QED
    BY <2>2, <2>3
<1>5. ASSUME UNCHANGED <<reg, owner, queue>>
      PROVE  OneTask'
  BY <1>5
<1>6. ASSUME NEW f \in Fds, Fire(f) \/ Event(f)
      PROVE  UNCHANGED <<reg, owner, queue>>
  BY <1>6 DEF Fire, Event
<1>7. ASSUME \/ Wait \/ ReadPipe \/ FireCopy \/ FiresDone
             \/ EventCopy \/ EventsDone \/ Unhash \/ UNCHANGED vars
      PROVE  UNCHANGED <<reg, owner, queue>>
  BY <1>7 DEF Wait, ReadPipe, FireCopy, FiresDone, EventCopy, EventsDone, Unhash, vars
<1> QED
  BY <1>1, <1>2, <1>3, <1>4, <1>5, <1>6, <1>7, NextCases

(* The types and OneTask, whatever submit_task, fire_fd and epoll_loop do,  *)
(* for any descriptors and any number of messages in the pipe.              *)
THEOREM Invariance == Spec => []Inv
<1>1. Inv /\ [Next]_vars => Inv'
  BY TypeInductive, OneTaskInductive DEF Inv
<1> QED
  BY InitInv, <1>1, PTL DEF Spec

(* However fire_fd races with submit_task and with the events of the        *)
(* kernel, a descriptor has one task at a time.                             *)
THEOREM OneTaskHolds == Spec => []OneTask
<1>1. Inv => OneTask
  BY DEF Inv
<1> QED
  BY Invariance, <1>1, PTL

-----------------------------------------------------------------------------
(* Descriptors that nobody fires.  The reactor has one of them at hand only  *)
(* between EventCopy and Delete, when it is registered and out of the batch; *)
(* until it is registered its slot is the submitter's, afterwards the slot   *)
(* keeps what was submitted until the reactor clears it.                     *)
AtHand(f) == e.f = f /\ pc \in {"event_unhash", "event_del"}

(* The parts of QuietInv about one descriptor. *)
QuietOne(f) ==
  /\ AtHand(f) => f \in reg /\ f \notin batch /\ e.s.cb = sub[f]
  /\ f \in batch => f \in reg
  /\ owner[f] \in {"hashing", "adding"} => slot[f].fd = "set"
  /\ owner[f] = "adding" => slot[f].cb = sub[f]
  /\ owner[f] = "armed" => f \in reg \/ queue[f] # <<>>
  /\ f \in reg => slot[f].cb = sub[f] /\ (InTurn(f) \/ slot[f].fd = "set")
  /\ queue[f] # <<>> => Head(queue[f]) = sub[f]

QuietInv ==
  /\ pipe \in Seq(Firable)
  /\ fires \in Seq(Firable)
  /\ pc \in {"fire_unhash", "fire_del"} => e.f \in Firable
  /\ \A f \in Fds \ Firable : QuietOne(f)

(* At first every descriptor is its handler's.                              *)
LEMMA QuietInit == Init => QuietInv
<1> SUFFICES ASSUME Init
             PROVE  QuietInv
  OBVIOUS
<1>1. pipe \in Seq(Firable) /\ fires \in Seq(Firable) /\ pc = "wait"
  BY DEF Init
<1>2. ASSUME NEW f \in Fds \ Firable
      PROVE  QuietOne(f)
  BY <1>1 DEF Init, QuietOne, AtHand, InTurn
<1> QED
  BY <1>1, <1>2 DEF QuietInv

(* Messages name descriptors that are fired. *)
LEMMA QuietPipe ==
  ASSUME Inv, QuietInv, [Next]_vars
  PROVE  /\ pipe' \in Seq(Firable)
         /\ fires' \in Seq(Firable)
         /\ pc' \in {"fire_unhash", "fire_del"} => e'.f \in Firable
<1> USE DEF Inv, TypeOK, QuietInv, reactorVars
<1>1. ASSUME NEW f \in Fds, SubmitFd(f) \/ SubmitCb(f) \/ SubmitAdd(f) \/ Event(f) \/ Run(f)
      PROVE  UNCHANGED <<pipe, fires, pc, e>>
  BY <1>1 DEF SubmitFd, SubmitCb, SubmitAdd, Event, Run
<1>2. ASSUME NEW f \in Fds, Fire(f)
      PROVE  pipe' \in Seq(Firable) /\ UNCHANGED <<fires, pc, e>>
  BY <1>2, AppendProperties DEF Fire
<1>3. CASE Wait
  BY <1>3 DEF Wait
<1>4. CASE ReadPipe
  BY <1>4 DEF ReadPipe
<1>5. CASE FireCopy
  <2>1. Head(fires) \in Firable /\ Tail(fires) \in Seq(Firable)
    BY <1>5, HeadTailProperties DEF FireCopy
  <2> QED
    BY <1>5, <2>1 DEF FireCopy
<1>6. CASE FiresDone \/ EventCopy \/ EventsDone
  BY <1>6 DEF FiresDone, EventCopy, EventsDone
<1>7. CASE Unhash \/ Delete
  BY <1>7 DEF Unhash, Delete
<1>8. CASE UNCHANGED vars
  BY <1>8 DEF vars
<1> QED
  BY <1>1, <1>2, <1>3, <1>4, <1>5, <1>6, <1>7, <1>8, NextCases

(* A step of submit_task: another descriptor keeps what it has, and this    *)
(* one has its slot filled before it is registered.                         *)
LEMMA QuietSubmit ==
  ASSUME Inv, QuietInv, NEW f \in Fds \ Firable, QuietOne(f), NEW g \in Fds,
         SubmitFd(g) \/ SubmitCb(g) \/ SubmitAdd(g)
  PROVE  QuietOne(f)'
<1> USE DEF Inv, TypeOK, OneTask, QuietOne, AtHand, InTurn, reactorVars, Slots
<1>1. CASE f # g
  BY <1>1 DEF SubmitFd, SubmitCb, SubmitAdd
<1>2. CASE f = g /\ SubmitFd(g)
  BY <1>2 DEF SubmitFd
<1>3. CASE f = g /\ SubmitCb(g)
  BY <1>3 DEF SubmitCb
<1>4. CASE f = g /\ SubmitAdd(g)
  BY <1>4 DEF SubmitAdd
<1> QED
  BY <1>1, <1>2, <1>3, <1>4

(* One task less than one is none.                                          *)
LEMMA OnlyTask ==
  ASSUME NEW q \in Seq({0, 1}), Len(q) = 1
  PROVE  Tail(q) = <<>>
<1>1. q # <<>> /\ Tail(q) \in Seq({0, 1}) /\ Len(Tail(q)) = 0
  BY HeadTailProperties, EmptySeq
<1> QED
  BY <1>1, EmptySeq

(* A task that runs was the only one of its descriptor.                     *)
LEMMA QuietRun ==
  ASSUME Inv, NEW f \in Fds \ Firable, QuietOne(f), NEW g \in Fds, Run(g)
  PROVE  QuietOne(f)'
<1> USE DEF Inv, TypeOK, OneTask, QuietOne, AtHand, InTurn, reactorVars
<1>1. CASE f # g
  BY <1>1 DEF Run
<1>2. CASE f = g
  <2>1. queue[g] # <<>> /\ queue[g] \in Seq({0, 1}) /\ Len(queue[g]) = 1
    BY DEF Run
  <2>2. Tail(queue[g]) = <<>>
    BY <2>1, OnlyTask
  <2> QED
    BY <1>2, <2>2 DEF Run
<1> QED
  BY <1>1, <1>2

(* The task that is put has the callback of the slot that was copied. *)
LEMMA QuietDelete ==
  ASSUME Inv, QuietInv, NEW f \in Fds \ Firable, QuietOne(f), Delete
  PROVE  QuietOne(f)'
<1> USE DEF Inv, TypeOK, OneTask, QuietOne, AtHand, InTurn
<1>1. e.f \in Fds /\ e.s.cb \in {0, 1}
  BY DEF Slots
<1>2. CASE f # e.f
  BY <1>1, <1>2 DEF Delete
<1>3. CASE f = e.f
  <2>1. pc = "event_del" /\ AtHand(f)
    BY <1>3 DEF Delete, QuietInv
  <2>2. f \in reg /\ queue[f] = <<>> /\ e.s.cb = sub[f]
    BY <2>1
  <2>3. Append(queue[f], e.s.cb) = <<sub[f]>>
    BY <2>2, <1>1
  <2>4. queue'[f] = <<sub[f]>> /\ reg' = reg \ {f} /\ pc' = "events"
    BY <1>3, <2>1, <2>2, <2>3 DEF Delete
  <2>5. Head(queue'[f]) = sub[f] /\ queue'[f] # <<>>
    BY <2>4
  <2> QED
    BY <1>3, <2>1, <2>2, <2>4, <2>5 DEF Delete
<1> QED
  BY <1>2, <1>3

(* The loop of the reactor thread, but for its deletions, keeps a           *)
(* descriptor nobody fires where it is.                                     *)
LEMMA QuietLoop ==
  ASSUME Inv, QuietInv, NEW f \in Fds \ Firable, QuietOne(f), Loop, ~ Delete
  PROVE  QuietOne(f)'
<1> USE DEF Inv, TypeOK, OneTask, QuietOne, AtHand, InTurn
<1>1. CASE Wait
  BY <1>1 DEF Wait
<1>2. CASE ReadPipe
  BY <1>2 DEF ReadPipe
<1>3. CASE FireCopy
  <2>1. Head(fires) \in Firable
    BY <1>3, HeadTailProperties DEF FireCopy, QuietInv
  <2> QED
    BY <1>3, <2>1 DEF FireCopy
<1>4. CASE FiresDone
  BY <1>4 DEF FiresDone
<1>5. CASE EventCopy
  BY <1>5 DEF EventCopy
<1>6. CASE EventsDone
  BY <1>6 DEF EventsDone
<1>7. CASE Unhash
  BY <1>7 DEF Unhash, QuietInv, Slots
<1> QED
  BY <1>1, <1>2, <1>3, <1>4, <1>5, <1>6, <1>7 DEF Loop

(* Every step keeps that of all of them.                                    *)
LEMMA QuietStep == Inv /\ QuietInv /\ [Next]_vars => QuietInv'
<1> SUFFICES ASSUME Inv, QuietInv, [Next]_vars
             PROVE  QuietInv'
  OBVIOUS
<1>1. ASSUME NEW f \in Fds \ Firable
      PROVE  QuietOne(f)'
  <2>1. QuietOne(f)
    BY DEF QuietInv
  <2>2. CASE UNCHANGED vars
    BY <2>1, <2>2 DEF vars, QuietOne, AtHand, InTurn
  <2>3. ASSUME NEW g \in Fds, Fire(g) \/ Event(g)
        PROVE  QuietOne(f)'
    BY <2>1, <2>3 DEF Fire, Event, QuietOne, AtHand, InTurn, reactorVars
  <2>4. CASE Loop
    BY <2>1, <2>4, QuietLoop, QuietDelete
  <2> QED
    BY <2>1, <2>2, <2>3, <2>4, QuietSubmit, QuietRun DEF Next, Submit
<1> QED
  BY <1>1, QuietPipe DEF QuietInv

(* The slot of a descriptor nobody fires is what was last submitted from    *)
(* its registration until the reactor thread has it at hand.                *)
THEOREM QuietInvariance == Spec => []QuietInv
  BY Invariance, QuietInit, QuietStep, PTL DEF Spec

(* Whatever is done to the descriptors that are fired, the others run the   *)
(* callback that was submitted last ...                                     *)
THEOREM FreshTaskHolds == Spec => []FreshTask
<1>1. QuietInv => FreshTask
  BY DEF QuietInv, QuietOne, FreshTask
<1> QED
  BY QuietInvariance, <1>1, PTL

(* ... and none of them is forgotten. *)
THEOREM QuietReachableHolds == Spec => []QuietReachable
<1>1. QuietInv => QuietReachable
  BY DEF QuietInv, QuietOne, QuietReachable, Reachable
<1> QED
  BY QuietInvariance, <1>1, PTL

(* The reactor implements the one-shot promise. *)
THEOREM Refinement == Spec => OneShotSpec
<1>1. Init => Abstract!Init
  BY DEF Init, Abstract!Init, Status
<1>2. ASSUME Inv, [Next]_vars
      PROVE  [Abstract!Next]_Status
  <2> USE <1>2 DEF Inv, TypeOK, OneTask, reactorVars
  <2>1. ASSUME UNCHANGED <<queue, owner>>
        PROVE  UNCHANGED Status
    BY <2>1 DEF Status
  <2>2. ASSUME NEW f \in Fds, SubmitFd(f) \/ SubmitCb(f)
        PROVE  UNCHANGED Status
    BY <2>2 DEF SubmitFd, SubmitCb, Status
  <2>3. ASSUME NEW f \in Fds, SubmitAdd(f)
        PROVE  Abstract!Submit(f)
    <3>1. queue[f] = <<>> /\ owner[f] = "adding"
      BY <2>3 DEF SubmitAdd
    <3>2. Status[f] = "owned" /\ Status' = [Status EXCEPT ![f] = "armed"]
      BY <2>3, <3>1 DEF SubmitAdd, Status
    <3> QED
      BY <3>2 DEF Abstract!Submit, Abstract!Move
  <2>4. ASSUME NEW f \in Fds, Run(f)
        PROVE  Abstract!Run(f)
    <3>1. Tail(queue[f]) = <<>>
      BY <2>4, HeadTailProperties, EmptySeq DEF Run
    <3>2. Status[f] = "queued" /\ Status' = [Status EXCEPT ![f] = "owned"]
      BY <2>4, <3>1 DEF Run, Status
    <3> QED
      BY <3>2 DEF Abstract!Run, Abstract!Move
  <2>5. ASSUME Delete, e.f \in reg
        PROVE  Abstract!Trigger(e.f)
    <3>1. e.f \in Fds /\ e.s.cb \in {0, 1}
      BY DEF Slots
    <3>2. Append(queue[e.f], e.s.cb) # <<>>
      <4>1. queue[e.f] \in Seq({0, 1})
        BY <3>1
      <4>2. Len(Append(queue[e.f], e.s.cb)) = Len(queue[e.f]) + 1 /\ Len(queue[e.f]) \in Nat
        BY <3>1, <4>1, AppendProperties, LenProperties
      <4>3. Append(queue[e.f], e.s.cb) \in Seq({0, 1})
        BY <3>1, <4>1, AppendProperties
      <4> DEFINE q == Append(queue[e.f], e.s.cb)
      <4>4. \A s \in Seq({0, 1}) : s = <<>> => Len(s) = 0
        BY EmptySeq
      <4>5. q \in Seq({0, 1}) /\ Len(q) # 0
        BY <4>2, <4>3
      <4> HIDE DEF q
      <4>6. q # <<>>
        BY <4>4, <4>5
      <4> QED
        BY <4>6 DEF q
    <3>3. queue' = [queue EXCEPT ![e.f] = Append(@, e.s.cb)] /\ owner' = owner
      BY <2>5 DEF Delete
    <3>4. queue[e.f] = <<>> /\ owner[e.f] = "armed"
      BY <2>5, <3>1
    <3>5. Status[e.f] = "armed"
      BY <3>1, <3>4 DEF Status
    <3>6. queue'[e.f] # <<>> /\ \A f \in Fds \ {e.f} : queue'[f] = queue[f]
      BY <3>1, <3>2, <3>3
    <3>7. Status' = [Status EXCEPT ![e.f] = "queued"]
      BY <3>1, <3>3, <3>6 DEF Status
    <3> QED
      BY <3>5, <3>7 DEF Abstract!Trigger, Abstract!Move
  <2>6. ASSUME Delete, e.f \notin reg
        PROVE  UNCHANGED <<queue, owner>>
    BY <2>6 DEF Delete
  <2>7. ASSUME \/ Wait \/ ReadPipe \/ FireCopy \/ FiresDone
               \/ EventCopy \/ EventsDone \/ Unhash \/ UNCHANGED vars
               \/ \E f \in Fds : Fire(f) \/ Event(f)
        PROVE  UNCHANGED <<queue, owner>>
    BY <2>7 DEF Wait, ReadPipe, FireCopy, FiresDone, EventCopy, EventsDone, Unhash,
                Fire, Event, vars
  <2>8. e.f \in Fds
    OBVIOUS
  <2> QED
    BY <2>1, <2>2, <2>3, <2>4, <2>5, <2>6, <2>7, <2>8, NextCases DEF Abstract!Next
<1> QED
  BY Invariance, <1>1, <1>2, PTL DEF Spec, OneShotSpec, Abstract!Spec
=============================================================================
