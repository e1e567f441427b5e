-------------------------------- MODULE MsgFlow --------------------------------
(***************************************************************************)
(* A message from the socket to its memory being freed: udp_read           *)
(* (src/core/net/udp/udp.c), handle_new_msg and handle_msg_continue        *)
(* (msg_handler.c), the context and async (context.c, context.h).          *)
(*                                                                         *)
(* Every worker may run any of these.  The descriptor is one-shot: the     *)
(* reactor takes it out of the set and queues udp_read, which puts it back *)
(* when it has read.  The resolver answers each question once, maybe       *)
(* before it returns.  A write to UDP ends at once; one to TCP may be left *)
(* to the connection, which then resumes the context in some worker.       *)
(***************************************************************************)
EXTENDS Naturals, Sequences, SequencesExt, FiniteSets

CONSTANTS Workers,
          Messages,   (* the datagrams, and the messages TCP has read *)
          Kinds       (* what a message may be *)

ASSUME MessagesAssumption == Messages \intersect {"nothing", "lost", "stream"} = {}

VARIABLES kind,     (* of each message *)
          wire,     (* the datagrams in the socket *)
          listened, (* the descriptor is in the reactor *)
          reads,    (* calls of udp_read in the dispatcher *)
          work,     (* each worker: where it is, with which message *)
          len,      (* m->len of each message: the datagram whose length it is *)
          heap,     (* what is allocated: <<message, block>> *)
          resume,   (* ctx->resume_f of each message, and buf, its parameter *)
          queued,   (* messages the resolver or a connection has for the workers *)
          wrong,    (* something freed was used or freed *)
          failed,   (* a call of udp_read has failed before it put the descriptor back *)
          dead      (* the process was killed by a null pointer *)

flowVars == <<kind, wire, listened, reads, work, len, heap, resume, queued, wrong, failed, dead>>

Nothing == "nothing"
Idle == [at |-> "idle", on |-> Nothing]
Goto(w, at, m) == work' = [work EXCEPT ![w] = IF at = "idle" THEN Idle ELSE [at |-> at, on |-> m]]
At(w, at) == ~ dead /\ work[w].at = at
Unseen(m) == len[m] = Nothing /\ ~ \E i \in DOMAIN wire : wire[i] = m

Free(blocks) == /\ heap' = heap \ blocks
                /\ wrong' = (wrong \/ ~ blocks \subseteq heap)
Use(block) == wrong' = (wrong \/ block \notin heap)

-----------------------------------------------------------------------------
(* udp_read *)

Arrive(m) == /\ ~ dead /\ Unseen(m)
             /\ wire' = Append(wire, m)
             /\ UNCHANGED <<kind, listened, reads, work, len, heap, resume, queued, wrong, failed, dead>>

(* The reactor sees the event. *)
Event == /\ ~ dead /\ listened /\ wire # <<>>
         /\ listened' = FALSE /\ reads' = reads + 1
         /\ UNCHANGED <<kind, wire, work, len, heap, resume, queued, wrong, failed, dead>>

Peek_bug(w) == /\ At(w, "idle") /\ reads > 0 /\ wire # <<>>
               /\ reads' = reads - 1 /\ listened' = TRUE
               /\ Goto(w, "peeked", Head(wire))
               /\ UNCHANGED <<kind, wire, len, heap, resume, queued, wrong, failed, dead>>

(* The length of the first datagram.  EINTR and the like are tried again.   *)
Peek(w) == /\ At(w, "idle") /\ reads > 0 /\ wire # <<>>
           /\ reads' = reads - 1
           /\ \/ Goto(w, "peeked", Head(wire)) /\ UNCHANGED failed
              \/ Goto(w, "idle", Nothing) /\ failed' = TRUE
           /\ UNCHANGED <<kind, wire, listened, len, heap, resume, queued, wrong, dead>>

(* Without memory the datagram is read away, and the descriptor not put     *)
(* back.                                                                    *)
Allocate(w) ==
  /\ At(w, "peeked")
  /\ \/ Goto(w, "read", work[w].on) /\ UNCHANGED <<wire, len, failed>>
     \/ /\ wire # <<>> /\ wire' = Tail(wire)
        /\ len' = [len EXCEPT ![Head(wire)] = "lost"]
        /\ Goto(w, "idle", Nothing) /\ failed' = TRUE
  /\ UNCHANGED <<kind, listened, reads, heap, resume, queued, wrong, dead>>

(* The datagram itself, into a buffer of the length seen before. *)
Read(w) ==
  /\ At(w, "read") /\ wire # <<>>
  /\ \/ /\ wire' = Tail(wire)
        /\ len' = [len EXCEPT ![Head(wire)] = work[w].on]
        /\ heap' = heap \union {<<Head(wire), "msg">>}
        /\ Goto(w, "submit", Head(wire)) /\ UNCHANGED failed
     \/ Goto(w, "idle", Nothing) /\ failed' = TRUE /\ UNCHANGED <<wire, len, heap>>
  /\ UNCHANGED <<kind, listened, reads, resume, queued, wrong, dead>>

Submit_bug(w) == /\ At(w, "submit")
                 /\ listened' = (kind[work[w].on] # "short")
                 /\ Goto(w, "parse", work[w].on)
                 /\ UNCHANGED <<kind, wire, reads, len, heap, resume, queued, wrong, failed, dead>>

Submit(w) == /\ At(w, "submit")
             /\ listened' = TRUE
             /\ Goto(w, "parse", work[w].on)
             /\ UNCHANGED <<kind, wire, reads, len, heap, resume, queued, wrong, failed, dead>>

(* Too short, from port 0, not whole or not a message: freed at once. *)
Parse(w) ==
  /\ At(w, "parse")
  /\ IF kind[work[w].on] \in {"short", "bad"}
     THEN Free({<<work[w].on, "msg">>}) /\ Goto(w, "idle", Nothing)
     ELSE Goto(w, "handle", work[w].on) /\ UNCHANGED <<heap, wrong>>
  /\ UNCHANGED <<kind, wire, listened, reads, len, resume, queued, failed, dead>>

(* What tcp_event_read does with a whole message. *)
FromTcp(w, m) ==
  /\ At(w, "idle") /\ Unseen(m) /\ kind[m] \in {"request", "reply", "misrouted"}
  /\ len' = [len EXCEPT ![m] = "stream"]
  /\ heap' = heap \union {<<m, "msg">>}
  /\ Goto(w, "handle", m)
  /\ UNCHANGED <<kind, wire, listened, reads, resume, queued, wrong, failed, dead>>

-----------------------------------------------------------------------------
(* The context *)

context_create(m) == heap' = heap \union {<<m, "ctx">>}
context_destroy(m) == {<<m, "ctx">>, <<m, "msg">>}

(* cleanup and context_destroy: the buffer, when there is one, the message  *)
(* and the context.                                                         *)
Cleanup_bug(m, sent) == Free({<<m, "ctx">>} \union IF sent THEN {<<m, "buf">>} ELSE {<<m, "msg">>})
Cleanup(m, sent) == Free(context_destroy(m) \union IF sent THEN {<<m, "buf">>} ELSE {})

(* handle_new_msg: a context that could not be created is used all the      *)
(* same.  A message that leads nowhere is dropped.                          *)
handle_new_msg(w) ==
  /\ At(w, "handle")
  /\ LET m == work[w].on
     IN \/ dead' = TRUE /\ UNCHANGED <<work, heap, wrong, queued>>
        \/ /\ kind[m] = "misrouted"
           /\ Free({<<m, "msg">>}) /\ Goto(w, "idle", Nothing) /\ UNCHANGED <<queued, dead>>
        \/ /\ kind[m] # "misrouted"
           /\ context_create(m)
           /\ \/ Goto(w, "idle", Nothing) /\ queued' = queued \union {<<m, "answer">>}
              \/ Goto(w, "answer", m) /\ UNCHANGED queued
           /\ UNCHANGED <<wrong, dead>>
  /\ UNCHANGED <<kind, wire, listened, reads, len, resume, failed>>

(* Some worker hears from the resolver. *)
Answer(w) ==
  /\ At(w, "idle")
  /\ \E q \in queued : q[2] = "answer" /\ Goto(w, "answer", q[1]) /\ queued' = queued \ {q}
  /\ UNCHANGED <<kind, wire, listened, reads, len, heap, resume, wrong, failed, dead>>

(* handle_msg_continue: with an address the message is built anew and the   *)
(* address freed; it is not when the message cannot be built.               *)
handle_msg_continue(w) ==
  /\ At(w, "answer")
  /\ LET m == work[w].on
     IN \/ Cleanup(m, FALSE) /\ Goto(w, "idle", Nothing)
        \/ /\ heap' = (heap \ context_destroy(m)) \union {<<m, "addr">>}
           /\ wrong' = (wrong \/ ~ context_destroy(m) \subseteq heap)
           /\ Goto(w, "idle", Nothing)
        \/ /\ Use(<<m, "msg">>)
           /\ heap' = heap \union {<<m, "buf">>}
           /\ Goto(w, "async", m)
  /\ UNCHANGED <<kind, wire, listened, reads, len, resume, queued, failed, dead>>

(* async: where to resume is in the context before the function is called,  *)
(* and the context is not looked at after it returned 1.                    *)
Async_bug(w) ==
  /\ At(w, "async")
  /\ Goto(w, "write", work[w].on)
  /\ UNCHANGED <<kind, wire, listened, reads, len, heap, resume, queued, wrong, failed, dead>>

Async(w) ==
  /\ At(w, "async")
  /\ Use(<<work[w].on, "ctx">>)
  /\ resume' = [resume EXCEPT ![work[w].on] = "cleanup"]
  /\ Goto(w, "write", work[w].on)
  /\ UNCHANGED <<kind, wire, listened, reads, len, heap, queued, failed, dead>>

(* udp_write, and tcp_write when it is done or fails at once: any number    *)
(* but 1.  Else the connection the message came by will resume the context. *)
WriteNow(w) ==
  /\ At(w, "write")
  /\ Goto(w, "wrote", work[w].on)
  /\ UNCHANGED <<kind, wire, listened, reads, len, heap, resume, queued, wrong, failed, dead>>

WriteLater(w) ==
  /\ At(w, "write") /\ len[work[w].on] = "stream"
  /\ queued' = queued \union {<<work[w].on, "written">>}
  /\ Goto(w, "returned", work[w].on)
  /\ UNCHANGED <<kind, wire, listened, reads, len, heap, resume, wrong, failed, dead>>

Returned_bug(w) ==
  /\ At(w, "returned")
  /\ Use(<<work[w].on, "ctx">>)
  /\ Goto(w, "idle", Nothing)
  /\ UNCHANGED <<kind, wire, listened, reads, len, heap, resume, queued, failed, dead>>

Returned(w) ==
  /\ At(w, "returned")
  /\ Goto(w, "idle", Nothing)
  /\ UNCHANGED <<kind, wire, listened, reads, len, heap, resume, queued, wrong, failed, dead>>

Wrote(w) ==
  /\ At(w, "wrote")
  /\ Cleanup(work[w].on, TRUE)
  /\ Goto(w, "idle", Nothing)
  /\ UNCHANGED <<kind, wire, listened, reads, len, resume, queued, failed, dead>>

(* context_resume *)
context_resume(w) ==
  /\ At(w, "idle")
  /\ \E q \in queued :
       /\ q[2] = "written"
       /\ queued' = queued \ {q}
       /\ Cleanup(q[1], resume[q[1]] = "cleanup")
  /\ UNCHANGED <<kind, wire, listened, reads, work, len, resume, failed, dead>>

-----------------------------------------------------------------------------
FlowInit == /\ kind \in [Messages -> Kinds]
            /\ wire = <<>> /\ listened = TRUE /\ reads = 0
            /\ work = [w \in Workers |-> Idle]
            /\ len = [m \in Messages |-> Nothing]
            /\ heap = {} /\ queued = {}
            /\ resume = [m \in Messages |-> Nothing]
            /\ wrong = FALSE /\ failed = FALSE /\ dead = FALSE

FlowNext == \/ Event
            \/ \E m \in Messages : Arrive(m)
            \/ \E w \in Workers : \/ Peek(w) \/ Allocate(w) \/ Read(w) \/ Submit(w) \/ Parse(w)
                                  \/ \E m \in Messages : FromTcp(w, m)
                                  \/ handle_new_msg(w) \/ Answer(w) \/ handle_msg_continue(w)
                                  \/ Async(w) \/ WriteNow(w) \/ WriteLater(w) \/ Returned(w) \/ Wrote(w)
                                  \/ context_resume(w)

FlowSpec == FlowInit /\ [][FlowNext]_flowVars

-----------------------------------------------------------------------------
(* Properties *)

(* No message, context or buffer is used or freed after it was freed.       *)
NoUseAfterFree == ~ wrong

(* Once nobody is busy with a message all that it took is freed, but for    *)
(* the address it could not be sent to.                                     *)
Busy(m) == (\E w \in Workers : work[w].on = m) \/ (\E q \in queued : q[1] = m)
AllFreed == \A b \in heap : Busy(b[1]) \/ b[2] = "addr"

(* The length a message is given is that of the datagram that is read: only *)
(* one worker is between the two calls of recvfrom.                         *)
LengthRight == \A m \in Messages : len[m] \in {Nothing, "lost", "stream", m}

(* The socket is listened on, or about to be, unless a read has failed.     *)
Listening == dead \/ failed \/ listened \/ reads > 0
             \/ \E w \in Workers : work[w].at \in {"peeked", "read", "submit"}

(* udp.c, msg_handler.c, context.c: what a message takes is freed once,     *)
(* when nobody uses it any longer; the socket is heard, by one worker.      *)
MessagesRight == NoUseAfterFree /\ AllFreed /\ LengthRight /\ Listening
=============================================================================
