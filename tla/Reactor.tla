------------------------------- MODULE Reactor -------------------------------
(***************************************************************************)
(* src/core/reactor with the epoll back-end: one reactor thread waits for  *)
(* descriptors and puts their tasks in the dispatcher, while worker        *)
(* threads submit descriptors again (submit_task) and any thread wakes one *)
(* up (fire_fd).  A descriptor is described by a slot of fd_hash, which    *)
(* the submitting thread writes and the reactor thread reads and clears    *)
(* with no lock; what it is registered for is known to the kernel.         *)
(*                                                                         *)
(* fd_map.fd is modelled by what the code tests (zeroed, set, -1), the     *)
(* callback and its parameter by the parity of the submission that wrote   *)
(* them.  hash_fd_map writes fd first and cb, cb_param last, so the slot   *)
(* is written in two steps; the reactor copies it in one, since a copy     *)
(* that reads cb later sees what a later copy would.                       *)
(***************************************************************************)
EXTENDS Integers, Sequences

CONSTANTS Fds,       (* the descriptors *)
          Firable,   (* those some thread may wake with fire_fd *)
          MaxFires   (* bound on the messages in the control pipe *)

ASSUME ReactorAssumption == MaxFires \in Nat /\ Fds # {} /\ Firable \subseteq Fds

VARIABLES slot,    (* h->fd_hash *)
          reg,     (* the descriptors registered with epoll *)
          ready,   (* those with an event for their handler *)
          pipe,    (* h->control_pipe: the descriptors of FIRE_FD messages *)
          owner,   (* per descriptor: where the thread that submits it is *)
          sub,     (* per descriptor: parity of the last submission *)
          queue,   (* per descriptor: its tasks in the dispatcher *)
          pc,      (* where the reactor thread is in epoll_loop *)
          batch,   (* what epoll_wait returned and the second loop has not seen *)
          fires,   (* what was read from the pipe and not handled *)
          e        (* the local copy of a slot, with its descriptor *)

vars == <<slot, reg, ready, pipe, owner, sub, queue, pc, batch, fires, e>>
reactorVars == <<pc, batch, fires, e>>

Owners == {"handler", "hashing", "adding", "armed"}
Marks  == {"zero", "set", "free"}
Slots  == [fd : Marks, cb : {0, 1}]

Init ==
  /\ slot = [f \in Fds |-> [fd |-> "zero", cb |-> 0]]
  /\ reg = {}
  /\ ready = {}
  /\ pipe = <<>>
  /\ owner = [f \in Fds |-> "handler"]
  /\ sub = [f \in Fds |-> 0]
  /\ queue = [f \in Fds |-> <<>>]
  /\ pc = "wait"
  /\ batch = {}
  /\ fires = <<>>
  /\ e = [f |-> CHOOSE f \in Fds : TRUE, s |-> [fd |-> "free", cb |-> 0]]

-----------------------------------------------------------------------------
(* submit_task, in the thread that has the descriptor.  Definitions whose   *)
(* name ends in _bug are wrong variants of the one that follows them.       *)

(* The kernel is told before the slot is filled. *)
SubmitFd_bug(f) ==
  /\ owner[f] = "handler"
  /\ slot' = [slot EXCEPT ![f].fd = "set"]
  /\ sub' = [sub EXCEPT ![f] = 1 - @]
  /\ reg' = reg \union {f}
  /\ owner' = [owner EXCEPT ![f] = "hashing"]
  /\ UNCHANGED <<ready, pipe, queue, reactorVars>>

(* hash_fd_map: fd is written, cb is still that of an earlier submission. *)
SubmitFd(f) ==
  /\ owner[f] = "handler"
  /\ slot' = [slot EXCEPT ![f].fd = "set"]
  /\ sub' = [sub EXCEPT ![f] = 1 - @]
  /\ owner' = [owner EXCEPT ![f] = "hashing"]
  /\ UNCHANGED <<reg, ready, pipe, queue, reactorVars>>

SubmitCb(f) ==
  /\ owner[f] = "hashing"
  /\ slot' = [slot EXCEPT ![f].cb = sub[f]]
  /\ owner' = [owner EXCEPT ![f] = "adding"]
  /\ UNCHANGED <<reg, ready, pipe, sub, queue, reactorVars>>

(* An error of EPOLL_CTL_ADD nobody hears of. *)
SubmitAdd_bug(f) ==
  /\ owner[f] = "adding"
  /\ owner' = [owner EXCEPT ![f] = "armed"]
  /\ UNCHANGED <<slot, reg, ready, pipe, sub, queue, reactorVars>>

(* EPOLL_CTL_ADD.  submit_task is void: its caller goes on in any case. *)
SubmitAdd(f) ==
  /\ owner[f] = "adding"
  /\ reg' = reg \union {f}
  /\ owner' = [owner EXCEPT ![f] = "armed"]
  /\ UNCHANGED <<slot, ready, pipe, sub, queue, reactorVars>>

(* fire_fd, in any thread. *)
Fire(f) ==
  /\ f \in Firable
  /\ Len(pipe) < MaxFires
  /\ pipe' = Append(pipe, f)
  /\ UNCHANGED <<slot, reg, ready, owner, sub, queue, reactorVars>>

(* Data, room in the send buffer or an error on the socket. *)
Event(f) ==
  /\ f \notin ready
  /\ ready' = ready \union {f}
  /\ UNCHANGED <<slot, reg, pipe, owner, sub, queue, reactorVars>>

(* A worker runs the task: its handler consumes the event. *)
Run(f) ==
  /\ queue[f] # <<>>
  /\ queue' = [queue EXCEPT ![f] = Tail(@)]
  /\ ready' = ready \ {f}
  /\ owner' = [owner EXCEPT ![f] = "handler"]
  /\ UNCHANGED <<slot, reg, pipe, sub, reactorVars>>

-----------------------------------------------------------------------------
(* epoll_loop, in the reactor thread *)

Wait ==
  /\ pc = "wait"
  /\ reg \intersect ready # {} \/ pipe # <<>>
  /\ batch' = reg \intersect ready
  /\ pc' = IF pipe # <<>> THEN "control" ELSE "events"
  /\ UNCHANGED <<slot, reg, ready, pipe, owner, sub, queue, fires, e>>

(* One read takes all the messages: 4096 ints hold 1365 of them. *)
ReadPipe ==
  /\ pc = "control"
  /\ fires' = pipe
  /\ pipe' = <<>>
  /\ pc' = "fires"
  /\ UNCHANGED <<slot, reg, ready, owner, sub, queue, batch, e>>

FireCopy ==
  /\ pc = "fires"
  /\ fires # <<>>
  /\ e' = [f |-> Head(fires), s |-> slot[Head(fires)]]
  /\ fires' = Tail(fires)
  /\ pc' = IF slot[Head(fires)].fd = "free" THEN "fires" ELSE "fire_unhash"
  /\ UNCHANGED <<slot, reg, ready, pipe, owner, sub, queue, batch>>

FiresDone ==
  /\ pc = "fires"
  /\ fires = <<>>
  /\ pc' = "events"
  /\ UNCHANGED <<slot, reg, ready, pipe, owner, sub, queue, batch, fires, e>>

EventCopy ==
  /\ pc = "events"
  /\ \E f \in batch :
       /\ e' = [f |-> f, s |-> slot[f]]
       /\ batch' = batch \ {f}
       /\ pc' = IF slot[f].fd = "free" THEN "events" ELSE "event_unhash"
  /\ UNCHANGED <<slot, reg, ready, pipe, owner, sub, queue, fires>>

EventsDone ==
  /\ pc = "events"
  /\ batch = {}
  /\ pc' = "wait"
  /\ UNCHANGED <<slot, reg, ready, pipe, owner, sub, queue, batch, fires, e>>

(* epoll_del clears the slot first ... *)
Unhash ==
  /\ pc \in {"fire_unhash", "event_unhash"}
  /\ slot' = [slot EXCEPT ![e.f].fd = "free"]
  /\ pc' = IF pc = "fire_unhash" THEN "fire_del" ELSE "event_del"
  /\ UNCHANGED <<reg, ready, pipe, owner, sub, queue, batch, fires, e>>

(* The descriptor stays registered after its event. *)
Delete_bug ==
  /\ pc \in {"fire_del", "event_del"}
  /\ queue' = IF e.f \in reg THEN [queue EXCEPT ![e.f] = Append(@, e.s.cb)] ELSE queue
  /\ pc' = IF pc = "fire_del" THEN "fires" ELSE "events"
  /\ UNCHANGED <<slot, reg, ready, pipe, owner, sub, batch, fires, e>>

(* The result of EPOLL_CTL_DEL is not looked at. *)
Delete_bug2 ==
  /\ pc \in {"fire_del", "event_del"}
  /\ reg' = reg \ {e.f}
  /\ queue' = [queue EXCEPT ![e.f] = Append(@, e.s.cb)]
  /\ pc' = IF pc = "fire_del" THEN "fires" ELSE "events"
  /\ UNCHANGED <<slot, ready, pipe, owner, sub, batch, fires, e>>

(* ... then asks the kernel, which fails if the descriptor is not           *)
(* registered: then there is no task either.                                *)
Delete ==
  /\ pc \in {"fire_del", "event_del"}
  /\ reg' = reg \ {e.f}
  /\ queue' = IF e.f \in reg THEN [queue EXCEPT ![e.f] = Append(@, e.s.cb)] ELSE queue
  /\ pc' = IF pc = "fire_del" THEN "fires" ELSE "events"
  /\ UNCHANGED <<slot, ready, pipe, owner, sub, batch, fires, e>>

-----------------------------------------------------------------------------
Submit(f) == SubmitFd(f) \/ SubmitCb(f) \/ SubmitAdd(f)

Loop == \/ Wait \/ ReadPipe \/ FireCopy \/ FiresDone
        \/ EventCopy \/ EventsDone \/ Unhash \/ Delete

Next == \/ \E f \in Fds : Submit(f) \/ Fire(f) \/ Event(f) \/ Run(f)
        \/ Loop

Spec == Init /\ [][Next]_vars

(* The reactor thread runs, handlers end by submitting the descriptor and   *)
(* the workers get to every task.                                           *)
FairSpec == /\ Spec
            /\ WF_vars(Loop)
            /\ \A f \in Fds : WF_vars(Submit(f)) /\ WF_vars(Run(f))

-----------------------------------------------------------------------------
(* Properties *)

TypeOK ==
  /\ slot \in [Fds -> Slots]
  /\ reg \subseteq Fds
  /\ ready \subseteq Fds
  /\ pipe \in Seq(Fds)
  /\ owner \in [Fds -> Owners]
  /\ sub \in [Fds -> {0, 1}]
  /\ queue \in [Fds -> Seq({0, 1})]
  /\ pc \in {"wait", "control", "fires", "fire_unhash", "fire_del",
             "events", "event_unhash", "event_del"}
  /\ batch \subseteq Fds
  /\ fires \in Seq(Fds)
  /\ e \in [f : Fds, s : Slots]

(* A submission gives at most one task, however often the descriptor is     *)
(* fired: no two workers ever run the handler of one descriptor at a time,  *)
(* and the dispatcher never holds a descriptor twice.                       *)
OneTask ==
  \A f \in Fds :
    /\ f \in reg => owner[f] = "armed" /\ queue[f] = <<>>
    /\ queue[f] # <<>> => owner[f] = "armed" /\ Len(queue[f]) = 1

Inv == TypeOK /\ OneTask

(* The same as a promise: the tasks a descriptor gives and the submissions  *)
(* of its handler alternate.                                                *)
Status == [f \in Fds |-> IF queue[f] # <<>> THEN "queued"
                         ELSE IF owner[f] = "armed" THEN "armed" ELSE "owned"]

Abstract == INSTANCE OneShot WITH status <- Status

OneShotSpec == Abstract!Spec

(* submit_task is thread-safe: the task runs the callback that was          *)
(* submitted, not one an earlier user of the descriptor left in the slot,   *)
(* whatever happens meanwhile to the descriptors that are fired.            *)
FreshTask == \A f \in Fds \ Firable : queue[f] # <<>> => Head(queue[f]) = sub[f]

(* fire_fd is thread-safe: it never makes the reactor forget a descriptor   *)
(* that is submitted.  Outside of the reactor thread's turn with it, an     *)
(* armed descriptor has its task queued or its slot filled.  QuietReachable *)
(* states it for those that are never fired, StaysReachable for all.        *)
InTurn(f) == e.f = f /\ pc \in {"fire_del", "event_del"}

Reachable(f) ==
  owner[f] = "armed" /\ ~ InTurn(f) =>
    queue[f] # <<>> \/ (f \in reg /\ slot[f].fd = "set")

StaysReachable == \A f \in Fds : Reachable(f)

(* The descriptors that are never fired are not forgotten because others    *)
(* are, at any moment, from any thread.                                     *)
QuietReachable == \A f \in Fds \ Firable : Reachable(f)

(* An event on a submitted descriptor that is not fired always reaches its  *)
(* handler, even if the reactor thread is kept busy firing the others.      *)
EventsHandled == \A f \in Fds \ Firable : f \in ready ~> f \notin ready
=============================================================================
