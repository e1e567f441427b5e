------------------------------- MODULE TcpConn -------------------------------
(***************************************************************************)
(* src/core/net/tcp: one TCP connection and the threads that share it: the *)
(* IN reactor's handler (tcp_event_read), the contexts that write on it    *)
(* (a_tcp_write), the task of the OUT reactor that connects and goes on    *)
(* with a blocked write, and the timer that ends a silent connection.      *)
(*                                                                         *)
(* A section under one lock is one step; the two places that take the      *)
(* state lock and hash_id_lock together keep them as variables.  The       *)
(* reactors are what module OneShot promises: a submitted connection gives *)
(* one task, and fire_fd on one that is not submitted does nothing.        *)
(*                                                                         *)
(* After free_tcp_conn nothing is assumed of the memory: a thread that     *)
(* would touch it takes no step, and NoUseAfterFree says there is none.    *)
(***************************************************************************)
EXTENDS Integers, Sequences, FiniteSets, TLC

CONSTANTS Writers,  (* the contexts that write to the peer, one message each *)
          Events,   (* what happens in the run, out of AllEvents             *)
          Nobody    (* no thread, no context                                 *)

(* Threads: the IN reactor's handler, the timer, and for each context the    *)
(* call of a_tcp_write and the OUT task that sends its message.              *)
reader  == <<"reader", Nobody>>
timer   == <<"timer", Nobody>>
NoThread == <<"none", Nobody>>
Call(w) == <<"call", w>>
Out(w)  == <<"out", w>>

Senders == {"call", "out"} \X Writers
Procs   == Senders \union {reader, timer}

(* The peer connects; a writer connects to the peer; the peer closes or     *)
(* sends what cannot be parsed; send fails; connect is refused; connect     *)
(* succeeds at once; the timeout expires; no memory for a queued write.     *)
AllEvents == {"accept", "open", "read", "send", "refuse", "instant", "timeout", "memory"}

ASSUME TcpAssumption ==
  /\ IsFiniteSet(Writers)
  /\ Events \subseteq AllEvents
  /\ Nobody \notin Writers

VARIABLES state,      (* conn->state, "NONE" before create_tcp_conn           *)
          ref,        (* conn->ref                                            *)
          links,      (* the hash tables the connection is in                 *)
          freed,      (* free_tcp_conn was called                             *)
          lock,       (* conn->state_lock                                     *)
          hlock,      (* hash_id_lock                                         *)
          active,     (* conn->write.active.ctx                               *)
          pending,    (* the contexts of the list conn->write.first           *)
          connecting, (* the OUT task is a_tcp_connect_done                   *)
          instant,    (* the writer that sends from a_tcp_connect             *)
          fires,      (* FIRE_FD messages under way, to "in" or "out"        *)
          pc,         (* where each thread is                                 *)
          ret,        (* what a_tcp_write returned to each context            *)
          resumed     (* how often each context was resumed                   *)

vars == <<state, ref, links, freed, lock, hlock, active, pending, connecting,
          instant, fires, pc, ret, resumed>>
mem   == <<ref, links, freed>>
locks == <<lock, hlock>>
out   == <<active, pending, connecting, instant>>
told  == <<ret, resumed>>

Init ==
  /\ state = "NONE"
  /\ ref = 0
  /\ links = {}
  /\ freed = FALSE
  /\ lock = NoThread
  /\ hlock = NoThread
  /\ active = Nobody
  /\ pending = <<>>
  /\ connecting = FALSE
  /\ instant = Nobody
  /\ fires = {}
  /\ pc = [p \in Procs |-> IF p[1] = "call" THEN "start" ELSE "off"]
  /\ ret = [w \in Writers |-> "none"]
  /\ resumed = [w \in Writers |-> 0]

Goto(p, step) == pc' = [pc EXCEPT ![p] = step]
End(p) == IF p[1] = "call" THEN "done" ELSE "off"
Return(w, r) == ret' = [ret EXCEPT ![w] = r]

(* create_tcp_conn: the connection is found by others from here on. *)
CreateConn(initState) ==
  /\ state = "NONE"
  /\ state' = initState
  /\ ref' = 1
  /\ links' = {"id", "ip"}
  /\ UNCHANGED <<freed, locks, out, fires, told>>

(* set_conn_state(conn, TCP_CONN_TERM).  The pending writes are resumed     *)
(* after the unlock, in the same step here: in TERM nobody else touches     *)
(* their list.                                                              *)
SetTerm ==
  /\ lock = NoThread
  /\ state' = "TERM"
  /\ resumed' = [w \in Writers |->
                   IF state = "WRITING" /\ w \in {pending[i] : i \in DOMAIN pending}
                   THEN resumed[w] + 1 ELSE resumed[w]]

(* The end of a_tcp_send.  An OUT task and an instant a_tcp_connect come    *)
(* from a_tcp_send_resume, which resumes the context, and returns 0.        *)
Answer(p, n) ==
  /\ ret' = IF p[1] = "out" THEN ret
            ELSE [ret EXCEPT ![p[2]] = IF p[2] = instant THEN "ok" ELSE n]
  /\ resumed' = IF p[1] = "out" \/ p[2] = instant
                THEN [resumed EXCEPT ![p[2]] = @ + 1] ELSE resumed

-----------------------------------------------------------------------------
(* The hash tables.  Definitions whose name ends in _bug are wrong variants *)
(* of the one they precede.                                                 *)

(* Steps that end in unref_tcp_conn.                                        *)
Unrefs == {"unref", "unref_locked", "unref_queued", "unref_lost", "unref_ok", "unref_fail"}

Unref(p) ==
  /\ ~ freed /\ hlock = NoThread
  /\ pc[p] \in Unrefs
  /\ ref' = ref - 1
  /\ freed' = (ref = 1)
  /\ Goto(p, IF pc[p] = "unref_locked" THEN "unlock" ELSE End(p))
  /\ CASE pc[p] = "unref_ok"     -> Answer(p, "ok")
       [] pc[p] = "unref_fail"   -> Answer(p, "fail")
       [] pc[p] = "unref_queued" -> Return(p[2], "async") /\ UNCHANGED resumed
       [] OTHER                  -> UNCHANGED told
  /\ UNCHANGED <<state, links, locks, out, fires>>

(* hash_ip_lock is kept across steps by search_tcp_conn only. *)
IpLockFree == \A w \in Writers : pc[Call(w)] # "matched"

(* remove_tcp_conn up to the release of hash_id_lock; extra_refs is 0 where *)
(* connect failed ("drop").  Unlinking twice is taken to change nothing.    *)
Unlink(p) ==
  /\ ~ freed /\ hlock = NoThread
  /\ pc[p] \in {"unlink", "drop"}
  /\ links' = links \ {"id"}
  /\ ref' = IF pc[p] = "unlink" THEN ref - 1 ELSE ref
  /\ Goto(p, IF pc[p] = "unlink" THEN "unlinked" ELSE "dropped")
  /\ UNCHANGED <<state, freed, locks, out, fires, told>>

(* The rest of it, with hash_ip_lock, reads the connection again. *)
RemoveEnd(p) ==
  /\ ~ freed /\ IpLockFree
  /\ pc[p] \in {"unlinked", "dropped"}
  /\ links' = links \ {"ip"}
  /\ freed' = (ref = 0)
  /\ Goto(p, IF pc[p] = "unlinked" /\ p \in Senders THEN "fire_in" ELSE End(p))
  /\ IF pc[p] = "dropped" THEN Answer(p, "refused") ELSE UNCHANGED told
  /\ UNCHANGED <<state, ref, locks, out, fires>>

-----------------------------------------------------------------------------
(* The IN reactor: tcp_accept and tcp_event_read *)

Accept ==
  /\ "accept" \in Events
  /\ CreateConn("READY")
  /\ Goto(reader, "accepted")

SubmitIn ==
  /\ pc[reader] = "accepted"
  /\ Goto(reader, "armed")
  /\ UNCHANGED <<state, mem, locks, out, fires, told>>

(* Data, the end of the stream or an error on the socket. *)
InEvent ==
  /\ pc[reader] = "armed"
  /\ Goto(reader, "task")
  /\ UNCHANGED <<state, mem, locks, out, fires, told>>

(* The reader forgets its reference. *)
ReadStart_bug ==
  /\ ~ freed
  /\ pc[reader] = "task"
  /\ Goto(reader, IF state = "TERM" THEN "off" ELSE "reading")
  /\ UNCHANGED <<state, mem, locks, out, fires, told>>

ReadStart ==
  /\ ~ freed
  /\ pc[reader] = "task"
  /\ Goto(reader, IF state = "TERM" THEN "unref" ELSE "reading")
  /\ UNCHANGED <<state, mem, locks, out, fires, told>>

ReadResult ==
  /\ ~ freed
  /\ pc[reader] = "reading"
  /\ \/ Goto(reader, "resubmit")
     \/ "read" \in Events /\ Goto(reader, "terminate")
  /\ UNCHANGED <<state, mem, locks, out, fires, told>>

(* The connection is unrefed under its state lock. *)
Resubmit ==
  /\ ~ freed /\ lock = NoThread
  /\ pc[reader] = "resubmit"
  /\ IF state = "TERM" THEN lock' = reader /\ Goto(reader, "unref_locked")
                       ELSE UNCHANGED lock /\ Goto(reader, "armed")
  /\ UNCHANGED <<state, mem, hlock, out, fires, told>>

Unlock(p) ==
  /\ ~ freed
  /\ pc[p] = "unlock"
  /\ lock' = NoThread
  /\ Goto(p, End(p))
  /\ UNCHANGED <<state, mem, hlock, out, fires, told>>

(* Whoever comes second removes the connection again. *)
Terminate_bug ==
  /\ ~ freed
  /\ pc[reader] = "terminate"
  /\ SetTerm
  /\ Goto(reader, "unlink")
  /\ UNCHANGED <<mem, locks, out, fires, ret>>

(* The label terminate_conn. *)
Terminate ==
  /\ ~ freed
  /\ pc[reader] = "terminate"
  /\ SetTerm
  /\ Goto(reader, IF state = "TERM" THEN "off" ELSE "unlink")
  /\ UNCHANGED <<mem, locks, out, fires, ret>>

-----------------------------------------------------------------------------
(* a_tcp_write, in the thread of context w *)

(* search_tcp_conn finds it by its address, with hash_ip_lock, and waits    *)
(* for hash_id_lock; what is matched may change meanwhile.                  *)
Match(w) ==
  /\ ~ freed /\ IpLockFree
  /\ pc[Call(w)] = "start"
  /\ "ip" \in links /\ state # "TERM"
  /\ Goto(Call(w), "matched")
  /\ UNCHANGED <<state, mem, locks, out, fires, told>>

(* It is returned without a reference. *)
Search_bug(w) ==
  /\ ~ freed /\ hlock = NoThread
  /\ \/ pc[Call(w)] = "matched"
     \/ pc[Call(w)] = "start" /\ "id" \in links /\ state # "TERM"
  /\ Goto(Call(w), "found")
  /\ UNCHANGED <<state, mem, locks, out, fires, told>>

(* By its id it is found with hash_id_lock alone. *)
Search(w) ==
  /\ ~ freed /\ hlock = NoThread
  /\ \/ pc[Call(w)] = "matched"
     \/ pc[Call(w)] = "start" /\ "id" \in links /\ state # "TERM"
  /\ ref' = ref + 1
  /\ Goto(Call(w), "found")
  /\ UNCHANGED <<state, links, freed, locks, out, fires, told>>

(* It is not found, and another connection is opened. *)
SearchFails(w) ==
  /\ pc[Call(w)] = "start"
  /\ state = "TERM" \/ (state # "NONE" /\ "ip" \notin links)
  /\ Goto(Call(w), "done")
  /\ Return(w, "elsewhere")
  /\ UNCHANGED <<state, mem, locks, out, fires, resumed>>

Create(w) ==
  /\ "open" \in Events
  /\ pc[Call(w)] = "start"
  /\ CreateConn("WRITING")
  /\ Goto(Call(w), "created")

(* A writer that finds nothing queued does not wait for the one before. *)
SetWriting_bug(w) ==
  /\ ~ freed /\ lock = NoThread
  /\ pc[Call(w)] = "found"
  /\ IF state = "WRITING" /\ pending # <<>>
     THEN pending' = Append(pending, w) /\ Goto(Call(w), "unref_queued") /\ UNCHANGED state
     ELSE /\ state' = IF state = "READY" THEN "WRITING" ELSE state
          /\ Goto(Call(w), "send")
          /\ UNCHANGED pending
  /\ UNCHANGED <<mem, locks, active, connecting, instant, fires, told>>

(* unref_tcp_conn before unlock_tcp_conn. *)
SetWriting_bug2(w) ==
  /\ ~ freed /\ lock = NoThread
  /\ pc[Call(w)] = "found"
  /\ IF state = "WRITING"
     THEN /\ pending' = Append(pending, w)
          /\ Goto(Call(w), "unref_locked")
          /\ lock' = Call(w)
          /\ UNCHANGED state
     ELSE /\ state' = IF state = "READY" THEN "WRITING" ELSE state
          /\ Goto(Call(w), "send")
          /\ UNCHANGED <<pending, lock>>
  /\ UNCHANGED <<mem, hlock, active, connecting, instant, fires, told>>

(* The connection's state and list under the state lock; in TERM a_tcp_send *)
(* is called all the same.                                                  *)
SetWriting(w) ==
  /\ ~ freed /\ lock = NoThread
  /\ pc[Call(w)] = "found"
  /\ CASE state = "READY" ->
            state' = "WRITING" /\ Goto(Call(w), "send") /\ UNCHANGED <<pending, ret>>
       [] state = "WRITING" ->
            /\ UNCHANGED state
            /\ \/ /\ pending' = Append(pending, w)
                  /\ Goto(Call(w), "unref_queued")
                  /\ UNCHANGED ret
               \/ /\ "memory" \in Events
                  /\ Goto(Call(w), "unref_fail")
                  /\ UNCHANGED <<pending, ret>>
       [] state = "TERM" ->
            Goto(Call(w), "send") /\ UNCHANGED <<state, pending, ret>>
  /\ UNCHANGED <<mem, locks, active, connecting, instant, fires, resumed>>

(* The rest of a_tcp_connect: connect is under way, done, or refused. *)
Connect(w) ==
  /\ ~ freed
  /\ pc[Call(w)] = "created"
  /\ active' = w
  /\ \/ /\ pc' = [pc EXCEPT ![Call(w)] = "done", ![Out(w)] = "armed"]
        /\ Return(w, "async")
        /\ connecting' = TRUE
        /\ UNCHANGED instant
     \/ /\ "instant" \in Events
        /\ Goto(Call(w), "send")
        /\ instant' = w
        /\ UNCHANGED <<connecting, ret>>
     \/ /\ "refuse" \in Events
        /\ Goto(Call(w), "drop")
        /\ UNCHANGED <<connecting, instant, ret>>
  /\ UNCHANGED <<state, mem, locks, pending, fires, resumed>>

-----------------------------------------------------------------------------
(* The OUT reactor: a_tcp_connect_done and a_tcp_send_resume *)

(* The socket is connected, or takes data again. *)
OutEvent(w) ==
  /\ pc[Out(w)] = "armed"
  /\ Goto(Out(w), "task")
  /\ UNCHANGED <<state, mem, locks, out, fires, told>>

OutStart(w) ==
  /\ ~ freed
  /\ pc[Out(w)] = "task"
  /\ Goto(Out(w), IF ~ connecting THEN "send"
                 ELSE IF state = "TERM" THEN "unref_lost" ELSE "connect")
  /\ UNCHANGED <<state, mem, locks, out, fires, told>>

ConnectAgain(w) ==
  /\ ~ freed
  /\ pc[Out(w)] = "connect"
  /\ Goto(Out(w), "armed")
  /\ UNCHANGED <<state, mem, locks, out, fires, told>>

(* A reference more, for the reader that is submitted here. *)
ConnectOk(w) ==
  /\ ~ freed /\ hlock = NoThread
  /\ pc[Out(w)] = "connect"
  /\ ref' = ref + 1
  /\ connecting' = FALSE
  /\ pc' = [pc EXCEPT ![Out(w)] = "send", ![reader] = "armed"]
  /\ UNCHANGED <<state, links, freed, locks, active, pending, instant, fires, told>>

(* The result of set_conn_state is not looked at. *)
ConnectFails(w) ==
  /\ ~ freed
  /\ "refuse" \in Events
  /\ pc[Out(w)] = "connect"
  /\ SetTerm
  /\ Goto(Out(w), "drop")
  /\ UNCHANGED <<mem, locks, out, fires, ret>>

-----------------------------------------------------------------------------
(* a_tcp_send, in a writer's thread or in the OUT task *)

SendStart(p) ==
  /\ ~ freed
  /\ pc[p] = "send"
  /\ Goto(p, IF state = "TERM" THEN "unref_fail" ELSE "sending")
  /\ UNCHANGED <<state, mem, locks, out, fires, told>>

(* The calls of send that end the loop. *)
SendResult(p) ==
  /\ ~ freed
  /\ pc[p] = "sending"
  /\ \/ Goto(p, "block")
     \/ Goto(p, "complete")
     \/ "send" \in Events /\ Goto(p, "error")
  /\ UNCHANGED <<state, mem, locks, out, fires, told>>

(* The reference goes to the OUT task. *)
Block(p) ==
  /\ ~ freed /\ lock = NoThread
  /\ pc[p] = "block"
  /\ IF state = "TERM"
     THEN Goto(p, "unref_fail") /\ UNCHANGED <<active, ret>>
     ELSE /\ active' = p[2]
          /\ pc' = [pc EXCEPT ![p] = End(p), ![Out(p[2])] = "armed"]
          /\ IF p[1] = "out" THEN UNCHANGED ret ELSE Return(p[2], "async")
  /\ UNCHANGED <<state, mem, locks, pending, connecting, instant, fires, resumed>>

(* The uploaded write stays in the list. *)
Complete_bug(p) ==
  /\ ~ freed /\ lock = NoThread
  /\ pc[p] = "complete"
  /\ IF state = "WRITING" /\ pending # <<>>
     THEN /\ active' = Head(pending)
          /\ pc' = [pc EXCEPT ![p] = End(p), ![Out(Head(pending))] = "task"]
          /\ Answer(p, "ok")
          /\ UNCHANGED state
     ELSE /\ state' = IF state = "WRITING" THEN "READY" ELSE state
          /\ Goto(p, "unref_ok")
          /\ UNCHANGED <<active, told>>
  /\ UNCHANGED <<mem, locks, pending, connecting, instant, fires>>

(* set_conn_state(conn, TCP_CONN_READY), conn_upload_next_write and the     *)
(* resume task, which gets the reference.                                   *)
Complete(p) ==
  /\ ~ freed /\ lock = NoThread
  /\ pc[p] = "complete"
  /\ IF state = "WRITING" /\ pending # <<>>
     THEN /\ active' = Head(pending)
          /\ pending' = Tail(pending)
          /\ pc' = [pc EXCEPT ![p] = End(p), ![Out(Head(pending))] = "task"]
          /\ Answer(p, "ok")
          /\ UNCHANGED state
     ELSE /\ state' = IF state = "WRITING" THEN "READY" ELSE state
          /\ Goto(p, "unref_ok")
          /\ UNCHANGED <<active, pending, told>>
  /\ UNCHANGED <<mem, locks, connecting, instant, fires>>

(* If the connection is terminated already nobody gives up the reference. *)
SendError(p) ==
  /\ ~ freed
  /\ pc[p] = "error"
  /\ IF state = "TERM"
     THEN lock = NoThread /\ Goto(p, End(p)) /\ Answer(p, "fail") /\ UNCHANGED state
     ELSE SetTerm /\ Goto(p, "unlink") /\ UNCHANGED ret
  /\ UNCHANGED <<mem, locks, out, fires>>

(* conn->socket is read after remove_tcp_conn. *)
FireIn(p) ==
  /\ ~ freed
  /\ pc[p] = "fire_in"
  /\ fires' = fires \union {"in"}
  /\ Goto(p, End(p))
  /\ Answer(p, "fail")
  /\ UNCHANGED <<state, mem, locks, out>>

-----------------------------------------------------------------------------
(* tcp_timer_routine, and the reactors' side of fire_fd *)

TimerScan ==
  /\ "timeout" \in Events
  /\ ~ freed /\ hlock = NoThread
  /\ pc[timer] = "off"
  /\ "id" \in links
  /\ hlock' = timer
  /\ Goto(timer, "expired")
  /\ UNCHANGED <<state, mem, lock, out, fires, told>>

(* The state lock inside of hash_id_lock. *)
TimerTerm ==
  /\ ~ freed
  /\ pc[timer] = "expired"
  /\ SetTerm
  /\ ref' = IF state = "TERM" THEN ref ELSE ref + 1
  /\ hlock' = NoThread
  /\ Goto(timer, IF state = "TERM" THEN "off" ELSE "fire")
  /\ UNCHANGED <<links, freed, lock, out, fires, ret>>

(* Only the reader is told. *)
TimerFire_bug ==
  /\ ~ freed
  /\ pc[timer] = "fire"
  /\ fires' = fires \union {"in"}
  /\ Goto(timer, "unlink")
  /\ UNCHANGED <<state, mem, locks, out, told>>

TimerFire ==
  /\ ~ freed
  /\ pc[timer] = "fire"
  /\ fires' = fires \union {"in", "out"}
  /\ Goto(timer, "unlink")
  /\ UNCHANGED <<state, mem, locks, out, told>>

HandleFire(x) ==
  /\ x \in fires
  /\ fires' = fires \ {x}
  /\ pc' = [p \in Procs |-> IF pc[p] = "armed" /\ (x = "in" <=> p = reader)
                            THEN "task" ELSE pc[p]]
  /\ UNCHANGED <<state, mem, locks, out, told>>

-----------------------------------------------------------------------------
Send(p) == \/ SendStart(p) \/ SendResult(p) \/ Block(p) \/ Complete(p)
           \/ SendError(p) \/ FireIn(p)

Reader == \/ SubmitIn \/ ReadStart \/ ReadResult \/ Resubmit \/ Terminate
Write(w) == SetWriting(w) \/ Connect(w)
Resume(w) == OutStart(w) \/ ConnectAgain(w) \/ ConnectOk(w) \/ ConnectFails(w)
Timer == TimerTerm \/ TimerFire

Common(p) == Unref(p) \/ Unlink(p) \/ RemoveEnd(p) \/ Unlock(p)

(* What the peer, the users of the connection and the clock decide. *)
Environment == \/ Accept \/ InEvent \/ TimerScan
               \/ \E w \in Writers : \/ Match(w) \/ Search(w) \/ SearchFails(w)
                                      \/ Create(w) \/ OutEvent(w)

Next == \/ Environment
        \/ Reader \/ Timer
        \/ \E w \in Writers : Write(w) \/ Resume(w)
        \/ \E p \in Senders : Send(p)
        \/ \E p \in Procs : Common(p)
        \/ \E x \in {"in", "out"} : HandleFire(x)

Spec == Init /\ [][Next]_vars

(* Threads go on, tasks are run and fire messages arrive.  The timer takes  *)
(* hash_id_lock now and then, as long as the connection is in the hash:     *)
(* whoever waits for the lock to remove it gets it in the end.              *)
(* A connection that is writing expires: only progress of the write extends *)
(* its timeout, reads do not.  The peer may be silent for ever.             *)
FairSpec ==
  /\ Spec
  /\ WF_vars(Reader) /\ WF_vars(Timer)
  /\ \A w \in Writers : /\ WF_vars(Write(w)) /\ WF_vars(Resume(w))
                        /\ WF_vars(Search(w) /\ pc[Call(w)] = "matched")
  /\ \A p \in Senders : WF_vars(Send(p))
  /\ \A p \in Procs : WF_vars(Common(p))
  /\ \A x \in {"in", "out"} : WF_vars(HandleFire(x))
  /\ SF_vars(\E p \in Procs : Unlink(p))
  /\ WF_vars(TimerScan /\ state = "WRITING")

-----------------------------------------------------------------------------
(* Properties *)

SendSteps == {"send", "sending", "block", "complete", "error", "unref_ok", "unref_fail",
              "unlink", "unlinked", "drop", "dropped", "fire_in"}
CallSteps == SendSteps \union {"start", "matched", "found", "created", "unref_queued", "done"}
OutSteps  == SendSteps \union {"off", "armed", "task", "connect", "unref_lost"}
ReaderSteps == {"off", "accepted", "armed", "task", "reading", "resubmit", "unref",
                "unref_locked", "unlock", "terminate", "unlink", "unlinked"}
TimerSteps == {"off", "expired", "fire", "unlink", "unlinked"}
Steps == CallSteps \union OutSteps \union ReaderSteps \union TimerSteps

PcOK ==
  /\ pc \in [Procs -> Steps]
  /\ pc[reader] \in ReaderSteps /\ pc[timer] \in TimerSteps
  /\ \A w \in Writers : pc[Call(w)] \in CallSteps /\ pc[Out(w)] \in OutSteps

TypeOK ==
  /\ state \in {"NONE", "READY", "WRITING", "TERM"}
  /\ ref \in Nat
  /\ links \subseteq {"id", "ip"}
  /\ freed \in BOOLEAN
  /\ lock \in Procs \union {NoThread}
  /\ hlock \in {timer, NoThread}
  /\ active \in Writers \union {Nobody}
  /\ pending \in Seq(Writers)
  /\ connecting \in BOOLEAN
  /\ instant \in Writers \union {Nobody}
  /\ fires \subseteq {"in", "out"}
  /\ PcOK
  /\ ret \in [Writers -> {"none", "ok", "fail", "refused", "async", "elsewhere"}]
  /\ resumed \in [Writers -> Nat]

(* Threads that have a reference: the IN reactor's handler from the         *)
(* submission on, a write until it ends, is queued or goes to the OUT task, *)
(* the timer from TERM until it removes the connection.                     *)
NoRef == {"start", "matched", "off", "done", "unlock", "unlinked", "dropped", "fire_in", "expired"}

Holders == {p \in Procs : pc[p] \notin NoRef}

(* No thread's reference is given up by another. *)
RefsHeld == ~ freed => ref >= Cardinality(Holders)

(* None is forgotten: the connection is freed when its last user is done.   *)
RefsExact == ~ freed => ref = Cardinality(Holders)

(* At most one thread sends on the connection, and the write that waits for *)
(* the socket is the one conn->write.active describes.                      *)
Sending == {"sending", "block", "complete", "error"}

OneWriter ==
  /\ \A p, q \in Senders : pc[p] \in Sending /\ pc[q] \in Sending => p = q
  /\ \A w \in Writers : pc[Out(w)] \in {"armed", "task"} => active = w

Answered(r) == r \in {"ok", "fail", "refused"}

(* A context hears of the end of its write at most once, unless it is the   *)
(* one that writes from the a_tcp_connect that connected at once.           *)
ToldOnce ==
  \A w \in Writers :
    w # instant => resumed[w] + (IF Answered(ret[w]) THEN 1 ELSE 0) <= 1

(* Whoever ends it, of the timer, the reader and the senders, removes it    *)
(* from the hash tables once: only a connect that fails may find it removed *)
(* by the timer, or leave it to the timer to remove again.                  *)
Refused ==
  \E w \in Writers :
    \/ ret[w] = "refused"
    \/ pc[Call(w)] \in {"drop", "dropped"} \/ pc[Out(w)] \in {"drop", "dropped"}
    \/ connecting /\ resumed[w] > 0

RemovedOnce ==
  \A p \in Procs : pc[p] = "unlink" => links = {"id", "ip"} \/ Refused

(* Nobody touches the connection after free_tcp_conn, or finds it.          *)
NoUseAfterFree ==
  freed => /\ links = {}
           /\ \A p \in Procs : pc[p] \in {"start", "off", "done"}

(* The reader, with the state lock, and the timer, with hash_id_lock, never *)
(* wait for each other.                                                     *)
NoLockCycle ==
  ~ (pc[timer] = "expired" /\ \E p \in Procs : pc[p] = "unref_locked" /\ lock = p)

(* Every write is answered, but where search_tcp_conn has matched a         *)
(* connection that was freed since: NoUseAfterFree is about that.           *)
Told(w) == Answered(ret[w]) \/ ret[w] = "elsewhere" \/ resumed[w] > 0
LostMatch(w) == freed /\ pc[Call(w)] = "matched"

AllTold == \A w \in Writers : pc[Call(w)] # "start" ~> Told(w) \/ LostMatch(w)

(* No writer differs from another. *)
Symmetry == Permutations(Writers)
=============================================================================
