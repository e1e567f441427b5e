------------------------------ MODULE PollReactor ------------------------------
(***************************************************************************)
(* The other back-ends of the reactor: src/core/reactor/poll.c, select.c   *)
(* and, for a reactor of type REACTOR_IN, kqueue.c, with general.c.        *)
(*                                                                         *)
(* For poll and select submit_task fills the slot of the descriptor and    *)
(* sends ADD_FD through the pipe; the reactor thread alone changes         *)
(* fd_array.  The slot is never cleared: a descriptor that is not in the   *)
(* array cannot be fired.  For kqueue the slot is filled, the kernel told, *)
(* and nobody reads the pipe.  The entry of the pipe itself is left out of *)
(* arr; not more than the 1365 messages a read has room for wait in it.    *)
(***************************************************************************)
EXTENDS Naturals, Sequences, SequencesExt, FiniteSets, FiniteSetsExt

CONSTANTS Fds,
          MaxSubmits,  (* calls of submit_task for a descriptor *)
          MaxFires     (* calls of fire_fd *)

VARIABLES back,    (* the back-end in use *)
          arr,     (* fd_array; for kqueue the kernel's list *)
          local,   (* local_set of select_loop, kq_array *)
          slot,    (* fd_hash: the submission it was filled for, 0 when free *)
          count,   (* submissions of each descriptor *)
          place,   (* who has it: "owner", "hashed" inside submit_task, or "reactor" *)
          pipe,    (* control_pipe *)
          batch,   (* buff: messages read and not handled *)
          put,     (* tasks in the dispatcher, of each descriptor *)
          ready,   (* descriptors that have something to read *)
          at, r, n, (* where the loop is *)
          fires

pollVars == <<back, arr, local, slot, count, place, pipe, batch, put, ready, at, r, n, fires>>

Registered == { arr[i].fd : i \in DOMAIN arr }
Index(fd) == SelectInSeq(arr, LAMBDA e : e.fd = fd)

-----------------------------------------------------------------------------
(* submit_task and fire_fd, in any thread *)

(* safe_add_to_hash *)
Hash(fd) ==
  /\ place[fd] = "owner" /\ count[fd] < MaxSubmits
  /\ count' = [count EXCEPT ![fd] = @ + 1]
  /\ slot' = [slot EXCEPT ![fd] = count'[fd]]
  /\ place' = [place EXCEPT ![fd] = "hashed"]
  /\ UNCHANGED <<back, arr, local, pipe, batch, put, ready, at, r, n, fires>>

(* revents is left as it was. *)
array_fd_add_bug(fd) == Append(arr, [fd |-> fd, revents |-> TRUE])

array_fd_add(fd) == Append(arr, [fd |-> fd, revents |-> FALSE])

(* poll_add, select_add; kqueue_add asks the kernel. *)
Add(fd) ==
  /\ place[fd] = "hashed"
  /\ place' = [place EXCEPT ![fd] = "reactor"]
  /\ IF back = "kqueue" THEN arr' = array_fd_add(fd) /\ UNCHANGED pipe
     ELSE pipe' = Append(pipe, <<"ADD_FD", fd>>) /\ UNCHANGED arr
  /\ UNCHANGED <<back, local, slot, count, batch, put, ready, at, r, n, fires>>

send_fire(fd) ==
  /\ fires < MaxFires
  /\ fires' = fires + 1
  /\ pipe' = Append(pipe, <<"FIRE_FD", fd>>)
  /\ UNCHANGED <<back, arr, local, slot, count, place, batch, put, ready, at, r, n>>

(* Something arrives; the callback reads it. *)
Arrival(fd) ==
  /\ fd \notin ready
  /\ ready' = ready \union {fd}
  /\ UNCHANGED <<back, arr, local, slot, count, place, pipe, batch, put, at, r, n, fires>>

RunTask(fd) ==
  /\ put[fd] # <<>>
  /\ put' = [put EXCEPT ![fd] = Tail(@)]
  /\ place' = [place EXCEPT ![fd] = "owner"]
  /\ ready' = ready \ {fd}
  /\ UNCHANGED <<back, arr, local, slot, count, pipe, batch, at, r, n, fires>>

-----------------------------------------------------------------------------
(* The reactor thread *)

Seen == Registered \intersect ready
(* The pipe is looked at when a descriptor is ready only. *)
PipeReadable_bug == pipe # <<>> /\ Seen # {} /\ back # "kqueue"

PipeReadable == pipe # <<>> /\ back # "kqueue"

(* poll, select, kevent: what there is when it returns. *)
Wait ==
  /\ at = "wait" /\ (Seen # {} \/ PipeReadable)
  /\ n' = Cardinality(Seen) + (IF PipeReadable THEN 1 ELSE 0)
  /\ r' = 1
  /\ local' = IF back = "poll" THEN {} ELSE Seen
  /\ arr' = IF back # "poll" THEN arr
            ELSE [i \in DOMAIN arr |-> [arr[i] EXCEPT !.revents = arr[i].fd \in Seen]]
  /\ IF PipeReadable THEN at' = "pipe" ELSE at' = "scan"
  /\ UNCHANGED <<back, slot, count, place, pipe, batch, put, ready, fires>>

ReadPipe ==
  /\ at = "pipe"
  /\ batch' = pipe /\ pipe' = <<>>
  /\ at' = "messages"
  /\ UNCHANGED <<back, arr, local, slot, count, place, put, ready, r, n, fires>>

array_fd_del(i) == arr' = RemoveAt(arr, i)
put_task(fd) == put' = [put EXCEPT ![fd] = Append(@, slot[fd])]

(* A descriptor is fired whether or not it is in the array. *)
Fired_bug(fd) == put_task(fd) /\ arr' = SelectSeq(arr, LAMBDA e : e.fd # fd)

(* The test of the slot's fd finds it -1 for none: no slot is ever freed,   *)
(* and those never filled are zero.                                         *)
Fired(fd) ==
  IF fd \in Registered THEN array_fd_del(Index(fd)) /\ put_task(fd) ELSE UNCHANGED <<arr, put>>

(* Select's copy of the set is changed with the set. *)
Message ==
  /\ at = "messages" /\ batch # <<>>
  /\ batch' = Tail(batch)
  /\ LET op == Head(batch)
     IN CASE op[1] = "ADD_FD" -> arr' = array_fd_add(op[2]) /\ UNCHANGED put
          [] op[1] = "FIRE_FD" -> Fired(op[2])
  /\ UNCHANGED <<back, local, slot, count, place, pipe, ready, at, r, n, fires>>

MessagesDone ==
  /\ at = "messages" /\ batch = <<>>
  /\ at' = "scan"
  /\ UNCHANGED <<back, arr, local, slot, count, place, pipe, batch, put, ready, r, n, fires>>

Reported(i) == IF back = "poll" THEN arr[i].revents ELSE arr[i].fd \in local

(* One turn of the second loop.  n counts the pipe, too. *)
Scan ==
  /\ at = "scan" /\ back # "kqueue" /\ n > 0 /\ r <= Len(arr)
  /\ IF Reported(r) THEN array_fd_del(r) /\ put_task(arr[r].fd) /\ n' = n - 1 /\ UNCHANGED r
     ELSE r' = r + 1 /\ UNCHANGED <<arr, put, n>>
  /\ UNCHANGED <<back, local, slot, count, place, pipe, batch, ready, at, fires>>

(* kqueue_loop: the slot is cleared and the kernel told before the task is  *)
(* put.                                                                     *)
KqueueEvent ==
  /\ at = "scan" /\ back = "kqueue" /\ local # {}
  /\ \E fd \in local : /\ local' = local \ {fd}
                       /\ slot' = [slot EXCEPT ![fd] = 0]
                       /\ array_fd_del(Index(fd))
                       /\ put_task(fd)
  /\ UNCHANGED <<back, count, place, pipe, batch, ready, at, r, n, fires>>

ScanDone ==
  /\ at = "scan"
  /\ IF back = "kqueue" THEN local = {} ELSE n = 0 \/ r > Len(arr)
  /\ at' = "wait"
  /\ UNCHANGED <<back, arr, local, slot, count, place, pipe, batch, put, ready, r, n, fires>>

-----------------------------------------------------------------------------
(* poll_init, select_init, kqueue_init *)
PollInit ==
  /\ back \in {"poll", "select", "kqueue"}
  /\ arr = <<>> /\ local = {} /\ pipe = <<>> /\ batch = <<>>
  /\ slot = [fd \in Fds |-> 0] /\ count = [fd \in Fds |-> 0]
  /\ place = [fd \in Fds |-> "owner"]
  /\ put = [fd \in Fds |-> <<>>] /\ ready = {}
  /\ at = "wait" /\ r = 1 /\ n = 0 /\ fires = 0

Loop == Wait \/ ReadPipe \/ Message \/ MessagesDone \/ Scan \/ KqueueEvent \/ ScanDone
Submitters == \E fd \in Fds : Hash(fd) \/ Add(fd) \/ send_fire(fd) \/ Arrival(fd)
Runs == \E fd \in Fds : RunTask(fd)

PollNext == Loop \/ Submitters \/ Runs

PollSpec == PollInit /\ [][PollNext]_pollVars

-----------------------------------------------------------------------------
(* Properties *)

(* A descriptor the reactor was given is in one place: on its way in the    *)
(* pipe, in the array or a task.  No fire, however late, makes it two.      *)
Adds(ops, fd) == Cardinality({ i \in DOMAIN ops : ops[i] = <<"ADD_FD", fd>> })
InOnePlace ==
  \A fd \in Fds :
    Adds(pipe, fd) + Adds(batch, fd) + Cardinality({ i \in DOMAIN arr : arr[i].fd = fd }) + Len(put[fd])
      = IF place[fd] = "reactor" THEN 1 ELSE 0

(* The task is the one submitted last. *)
Fresh == \A fd \in Fds : put[fd] \in {<<>>, <<count[fd]>>}

(* No event that was reported before a descriptor was fired, run and        *)
(* submitted again is taken for a new one.                                  *)
Honest == at \in {"messages", "scan"} => \A i \in DOMAIN arr : Reported(i) => arr[i].fd \in ready

(* A descriptor the reactor has is heard. *)
DescriptorsHeard == \A fd \in Fds : (fd \in ready /\ place[fd] = "reactor") ~> fd \notin ready
=============================================================================
