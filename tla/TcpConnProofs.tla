---------------------------- MODULE TcpConnProofs ----------------------------
(***************************************************************************)
(* Proofs about TcpConn, for any finite set of writers and any events.     *)
(***************************************************************************)
EXTENDS TcpConn, FiniteSetTheorems, TLAPS

(* Nobody has the connection before it is created. *)
Fresh == state = "NONE" => /\ links = {}
                           /\ \A p \in Procs : pc[p] \in {"start", "off"}

(* The threads that are sending, or may be when they go on. *)
Owner(p) == pc[p] \in Sending \union {"created", "armed", "task", "connect"}
Busy(p)  == Owner(p) \/ pc[p] = "send"

(* Until TERM a writer has the connection for itself from set_conn_state    *)
(* on; after it some may have gone on to a_tcp_send, to be turned away.     *)
Exclusive ==
  /\ \A p, q \in Senders : Owner(p) /\ Owner(q) => p = q
  /\ state # "TERM" => \A p, q \in Senders : Busy(p) /\ Busy(q) => p = q
  /\ state \in {"NONE", "READY"} => \A p \in Senders : ~ Busy(p)
  /\ \A w \in Writers : pc[Out(w)] \in {"armed", "task", "connect"} => active = w

IInv == TypeOK /\ Fresh /\ RefsHeld /\ Exclusive

(* The contexts of a list. *)
Elements(s) == {s[i] : i \in DOMAIN s}
Waiting == Elements(pending)

(* A write is in one place: its call, the list, its OUT task, or ended. *)
OnePlace ==
  /\ \A i, j \in DOMAIN pending : pending[i] = pending[j] => i = j
  /\ pending # <<>> => state \in {"WRITING", "TERM"}
  /\ \A w \in Writers :
       /\ pc[Call(w)] \notin {"done", "unref_queued"} =>
            pc[Out(w)] = "off" /\ w \notin Waiting /\ resumed[w] = 0
       /\ pc[Call(w)] # "done" => ret[w] = "none"
       /\ pc[Out(w)] # "off" => w \notin Waiting

(* It is answered once at most: what remains due has not been. *)
Due ==
  \A w \in Writers : w # instant =>
    /\ Answered(ret[w]) => resumed[w] = 0 /\ pc[Out(w)] = "off" /\ w \notin Waiting
    /\ pc[Out(w)] # "off" => resumed[w] = 0
    /\ w \in Waiting /\ state # "TERM" => resumed[w] = 0
    /\ resumed[w] <= 1

(* One writer at most creates the connection and sends from a_tcp_connect. *)
InstantOnce == state = "NONE" \/ (\E w \in Writers : pc[Call(w)] = "created") => instant = Nobody

(* A connect was refused: the writer in a_tcp_connect or its OUT task. *)
Drop == {"drop", "dropped"}
NoOwner == \A p \in Senders : ~ Owner(p)
AfterRefusal == connecting /\ state = "TERM" /\ NoOwner

(* It is the OUT task of the connect that was under way, and the last to send. *)
Drops ==
  \A w \in Writers :
    /\ pc[Call(w)] \in Drop => w # instant
    /\ pc[Out(w)] = "connect" => connecting
    /\ pc[Out(w)] \in Drop => AfterRefusal

(* ... some time before. *)
RefusedFor ==
  \/ \E w \in Writers : ret[w] = "refused" \/ pc[Call(w)] \in Drop \/ pc[Out(w)] \in Drop
  \/ AfterRefusal /\ \E w \in Writers : resumed[w] > 0

(* The threads that have ended the connection and remove it. *)
Removes(p) == pc[p] \in {"fire", "unlink", "unlinked"}

(* They remove it once, from both tables unless a connect was refused. *)
OneRemover ==
  /\ \A p, q \in Procs : Removes(p) /\ Removes(q) => p = q
  /\ \A p \in Procs : Removes(p) => state = "TERM"
  /\ \A p \in Procs : pc[p] \in {"fire", "unlink"} => links = {"id", "ip"} \/ RefusedFor
  /\ state \in {"READY", "WRITING"} => links = {"id", "ip"} \/ RefusedFor

-----------------------------------------------------------------------------
(* Thread names *)

(* The names of different threads differ. *)
LEMMA Names ==
  /\ reader \in Procs /\ timer \in Procs /\ reader # timer
  /\ reader \notin Senders /\ timer \notin Senders
  /\ Senders \subseteq Procs
  /\ \A p \in Procs : p \in Senders \/ p = reader \/ p = timer
  /\ \A w \in Writers : Call(w) \in Senders /\ Out(w) \in Senders
  /\ \A v, w \in Writers : Call(v) # Out(w) /\ (v # w => Call(v) # Call(w) /\ Out(v) # Out(w))
  /\ \A p \in Senders : p[2] \in Writers /\ (p = Call(p[2]) \/ p = Out(p[2]))
  /\ \A w \in Writers : Call(w)[1] = "call" /\ Call(w)[2] = w /\ Out(w)[1] = "out" /\ Out(w)[2] = w
  /\ reader[1] = "reader" /\ timer[1] = "timer"
  BY DEF reader, timer, Call, Out, Senders, Procs

(* There are finitely many threads. *)
LEMMA ProcsFinite == IsFiniteSet(Procs)
<1>1. IsFiniteSet({"call", "out"} \X Writers)
  <2>1. IsFiniteSet({"call", "out"})
    <3>1. IsFiniteSet({} \union {"call"})
      BY FS_AddElement, FS_EmptySet
    <3>2. IsFiniteSet(({} \union {"call"}) \union {"out"})
      BY <3>1, FS_AddElement
    <3>3. {"call", "out"} = ({} \union {"call"}) \union {"out"}
      OBVIOUS
    <3> QED
      BY <3>2, <3>3
  <2> QED
    BY <2>1, FS_Product, TcpAssumption
<1>2. Procs = (({"call", "out"} \X Writers) \union {reader}) \union {timer}
  BY DEF Procs, Senders
<1> QED
  BY <1>1, <1>2, FS_AddElement

(* Counting the threads with a reference: at most those in S, with one that *)
(* gave its reference up and one that got one.                              *)
LEMMA Counting ==
  ASSUME NEW S \in SUBSET Procs, NEW T \in SUBSET Procs, NEW p \in S, NEW q
  PROVE  /\ Cardinality(S) \in Nat /\ Cardinality(T) \in Nat
         /\ Cardinality(S) >= 1
         /\ T \subseteq S => Cardinality(T) <= Cardinality(S)
         /\ T \subseteq S \ {p} => Cardinality(T) <= Cardinality(S) - 1
         /\ T \subseteq (S \ {p}) \union {q} => Cardinality(T) <= Cardinality(S)
<1>1. IsFiniteSet(S) /\ IsFiniteSet(T)
  BY ProcsFinite, FS_Subset
<1>2. Cardinality(S) \in Nat /\ Cardinality(T) \in Nat
  BY <1>1, FS_CardinalityType
<1>3. IsFiniteSet(S \ {p}) /\ Cardinality(S \ {p}) = Cardinality(S) - 1
  BY <1>1, FS_RemoveElement
<1>4. Cardinality(S \ {p}) \in Nat
  BY <1>3, FS_CardinalityType
<1>5. /\ IsFiniteSet((S \ {p}) \union {q})
      /\ \/ Cardinality((S \ {p}) \union {q}) = Cardinality(S \ {p})
         \/ Cardinality((S \ {p}) \union {q}) = Cardinality(S \ {p}) + 1
  BY <1>3, FS_AddElement
<1>6. \A U, V : IsFiniteSet(V) /\ U \subseteq V => Cardinality(U) <= Cardinality(V)
  BY FS_Subset
<1>7. T \subseteq S => Cardinality(T) <= Cardinality(S)
  BY <1>1, <1>6
<1>8. T \subseteq S \ {p} => Cardinality(T) <= Cardinality(S \ {p})
  BY <1>3, <1>6
<1>9. T \subseteq (S \ {p}) \union {q} => Cardinality(T) <= Cardinality((S \ {p}) \union {q})
  BY <1>5, <1>6
<1> QED
  BY <1>2, <1>3, <1>4, <1>5, <1>7, <1>8, <1>9

-----------------------------------------------------------------------------
(* Types *)

(* The reader goes on to a step of its code. *)
LEMMA ReaderTyped ==
  ASSUME PcOK, NEW x \in ReaderSteps, pc' = [pc EXCEPT ![reader] = x]
  PROVE  PcOK'
  BY Names DEF PcOK, Steps, SendSteps, CallSteps, OutSteps, ReaderSteps, TimerSteps

(* A call of a_tcp_write does. *)
LEMMA CallTyped ==
  ASSUME PcOK, NEW w \in Writers, NEW x \in CallSteps, pc' = [pc EXCEPT ![Call(w)] = x]
  PROVE  PcOK'
  BY Names DEF PcOK, Steps, SendSteps, CallSteps, OutSteps, ReaderSteps, TimerSteps

(* A thread in a_tcp_send does. *)
LEMMA SenderTyped ==
  ASSUME PcOK, NEW p \in Senders, NEW x \in SendSteps \union {End(p)}, pc' = [pc EXCEPT ![p] = x]
  PROVE  PcOK'
  BY Names DEF PcOK, End, Steps, SendSteps, CallSteps, OutSteps, ReaderSteps, TimerSteps

(* A write is handed to its OUT task. *)
LEMMA HandOverTyped ==
  ASSUME PcOK, NEW p \in Senders, NEW w \in Writers, NEW x \in {"armed", "task"},
         pc' = [pc EXCEPT ![p] = End(p), ![Out(w)] = x]
  PROVE  PcOK'
<1>1. End(p) \in Steps /\ x \in Steps /\ x \in OutSteps
  BY DEF End, Steps, CallSteps, OutSteps
<1>2. pc' \in [Procs -> Steps] /\ pc'[reader] = pc[reader] /\ pc'[timer] = pc[timer]
  BY <1>1, Names DEF PcOK
<1>3. ASSUME NEW v \in Writers PROVE pc'[Call(v)] \in CallSteps /\ pc'[Out(v)] \in OutSteps
  <2>1. pc'[Call(v)] = IF p = Call(v) THEN End(p) ELSE pc[Call(v)]
    BY Names DEF PcOK
  <2>2. pc'[Out(v)] = IF v = w THEN x ELSE IF p = Out(v) THEN End(p) ELSE pc[Out(v)]
    BY Names DEF PcOK
  <2>3. (p = Call(v) => End(p) \in CallSteps) /\ (p = Out(v) => End(p) \in OutSteps)
    BY Names DEF End, CallSteps, OutSteps
  <2> QED
    BY <1>1, <2>1, <2>2, <2>3 DEF PcOK
<1> QED
  BY <1>2, <1>3 DEF PcOK

(* The program counters stay in the code of their thread. *)
LEMMA PcStep == IInv /\ Next => PcOK'
<1> SUFFICES ASSUME IInv, Next PROVE PcOK'
  OBVIOUS
<1>1. ASSUME Accept PROVE PcOK'
  BY <1>1, Names DEF Accept, PcOK, TypeOK, IInv, Goto, End, Unrefs, CreateConn, SendSteps, CallSteps, OutSteps, ReaderSteps, TimerSteps, Steps
<1>2. ASSUME InEvent PROVE PcOK'
  BY <1>2, Names DEF InEvent, PcOK, TypeOK, IInv, Goto, End, Unrefs, CreateConn, SendSteps, CallSteps, OutSteps, ReaderSteps, TimerSteps, Steps
<1>3. ASSUME TimerScan PROVE PcOK'
  BY <1>3, Names DEF TimerScan, PcOK, TypeOK, IInv, Goto, End, Unrefs, CreateConn, SendSteps, CallSteps, OutSteps, ReaderSteps, TimerSteps, Steps
<1>4. ASSUME NEW w \in Writers, Search(w) PROVE PcOK'
  BY <1>4, Names DEF Search, PcOK, TypeOK, IInv, Goto, End, Unrefs, CreateConn, SendSteps, CallSteps, OutSteps, ReaderSteps, TimerSteps, Steps
<1>32. ASSUME NEW w \in Writers, Match(w) PROVE PcOK'
  BY <1>32, Names DEF Match, IpLockFree, PcOK, TypeOK, IInv, Goto, End, Unrefs, CreateConn, SendSteps, CallSteps, OutSteps, ReaderSteps, TimerSteps, Steps
<1>5. ASSUME NEW w \in Writers, SearchFails(w) PROVE PcOK'
  BY <1>5, Names DEF SearchFails, PcOK, TypeOK, IInv, Goto, End, Unrefs, CreateConn, SendSteps, CallSteps, OutSteps, ReaderSteps, TimerSteps, Steps
<1>6. ASSUME NEW w \in Writers, Create(w) PROVE PcOK'
  BY <1>6, Names DEF Create, PcOK, TypeOK, IInv, Goto, End, Unrefs, CreateConn, SendSteps, CallSteps, OutSteps, ReaderSteps, TimerSteps, Steps
<1>7. ASSUME NEW w \in Writers, OutEvent(w) PROVE PcOK'
  BY <1>7, Names DEF OutEvent, PcOK, TypeOK, IInv, Goto, End, Unrefs, CreateConn, SendSteps, CallSteps, OutSteps, ReaderSteps, TimerSteps, Steps
<1>8. ASSUME SubmitIn PROVE PcOK'
  BY <1>8, Names DEF SubmitIn, PcOK, TypeOK, IInv, Goto, End, Unrefs, CreateConn, SendSteps, CallSteps, OutSteps, ReaderSteps, TimerSteps, Steps
<1>9. ASSUME ReadStart PROVE PcOK'
  BY <1>9, Names DEF ReadStart, PcOK, TypeOK, IInv, Goto, End, Unrefs, CreateConn, SendSteps, CallSteps, OutSteps, ReaderSteps, TimerSteps, Steps
<1>10. ASSUME ReadResult PROVE PcOK'
  <2>1. PICK x \in ReaderSteps : pc' = [pc EXCEPT ![reader] = x]
    BY <1>10, Names DEF ReadResult, Goto, End, ReaderSteps
  <2> QED
    BY <2>1, ReaderTyped DEF IInv, TypeOK
<1>11. ASSUME Resubmit PROVE PcOK'
  <2>1. PICK x \in ReaderSteps : pc' = [pc EXCEPT ![reader] = x]
    BY <1>11, Names DEF Resubmit, Goto, End, ReaderSteps
  <2> QED
    BY <2>1, ReaderTyped DEF IInv, TypeOK
<1>12. ASSUME Terminate PROVE PcOK'
  BY <1>12, Names DEF Terminate, PcOK, TypeOK, IInv, Goto, End, Unrefs, CreateConn, SendSteps, CallSteps, OutSteps, ReaderSteps, TimerSteps, Steps
<1>13. ASSUME TimerTerm PROVE PcOK'
  BY <1>13, Names DEF TimerTerm, PcOK, TypeOK, IInv, Goto, End, Unrefs, CreateConn, SendSteps, CallSteps, OutSteps, ReaderSteps, TimerSteps, Steps
<1>14. ASSUME TimerFire PROVE PcOK'
  BY <1>14, Names DEF TimerFire, PcOK, TypeOK, IInv, Goto, End, Unrefs, CreateConn, SendSteps, CallSteps, OutSteps, ReaderSteps, TimerSteps, Steps
<1>15. ASSUME NEW w \in Writers, SetWriting(w) PROVE PcOK'
  <2>0. state \in {"READY", "WRITING", "TERM"}
    BY <1>15, Names DEF IInv, Fresh, TypeOK, SetWriting
  <2>1. PICK x \in CallSteps : pc' = [pc EXCEPT ![Call(w)] = x]
    BY <1>15, <2>0, Names DEF SetWriting, Goto, End, SendSteps, CallSteps
  <2> QED
    BY <2>1, CallTyped DEF IInv, TypeOK
<1>16. ASSUME NEW w \in Writers, Connect(w) PROVE PcOK'
  <2>1. CASE pc' = [pc EXCEPT ![Call(w)] = "done", ![Out(w)] = "armed"]
    <3>1. pc' = [pc EXCEPT ![Call(w)] = End(Call(w)), ![Out(w)] = "armed"]
      BY <2>1, Names DEF End
    <3> QED
      BY <3>1, Names, HandOverTyped DEF IInv, TypeOK
  <2>2. CASE Goto(Call(w), "send") \/ Goto(Call(w), "drop")
    <3>1. "send" \in CallSteps /\ "drop" \in CallSteps
      BY DEF SendSteps, CallSteps
    <3> QED
      BY <2>2, <3>1, CallTyped DEF IInv, TypeOK, Goto
  <2> QED
    BY <1>16, <2>1, <2>2 DEF Connect
<1>17. ASSUME NEW w \in Writers, OutStart(w) PROVE PcOK'
  BY <1>17, Names DEF OutStart, PcOK, TypeOK, IInv, Goto, End, Unrefs, CreateConn, SendSteps, CallSteps, OutSteps, ReaderSteps, TimerSteps, Steps
<1>18. ASSUME NEW w \in Writers, ConnectAgain(w) PROVE PcOK'
  BY <1>18, Names DEF ConnectAgain, PcOK, TypeOK, IInv, Goto, End, Unrefs, CreateConn, SendSteps, CallSteps, OutSteps, ReaderSteps, TimerSteps, Steps
<1>19. ASSUME NEW w \in Writers, ConnectOk(w) PROVE PcOK'
  <2>1. pc' = [pc EXCEPT ![Out(w)] = "send", ![reader] = "armed"]
    BY <1>19 DEF ConnectOk
  <2>2. pc' \in [Procs -> Steps]
    <3>1. "send" \in Steps /\ "armed" \in Steps
      BY DEF Steps, ReaderSteps, OutSteps, SendSteps
    <3> QED
      BY <2>1, <3>1 DEF IInv, TypeOK, PcOK
  <2>3. pc'[timer] = pc[timer] /\ pc'[reader] = "armed"
    BY <2>1, Names DEF IInv, TypeOK, PcOK
  <2>4. ASSUME NEW v \in Writers
        PROVE  /\ pc'[Call(v)] = pc[Call(v)]
               /\ pc'[Out(v)] = IF v = w THEN "send" ELSE pc[Out(v)]
    BY <2>1, Names DEF IInv, TypeOK, PcOK
  <2> QED
    BY <2>2, <2>3, <2>4 DEF IInv, TypeOK, PcOK, ReaderSteps, OutSteps, SendSteps
<1>20. ASSUME NEW w \in Writers, ConnectFails(w) PROVE PcOK'
  BY <1>20, Names DEF ConnectFails, PcOK, TypeOK, IInv, Goto, End, Unrefs, CreateConn, SendSteps, CallSteps, OutSteps, ReaderSteps, TimerSteps, Steps
<1>21. ASSUME NEW p \in Senders, SendStart(p) PROVE PcOK'
  BY <1>21, Names DEF SendStart, PcOK, TypeOK, IInv, Goto, End, Unrefs, CreateConn, SendSteps, CallSteps, OutSteps, ReaderSteps, TimerSteps, Steps
<1>22. ASSUME NEW p \in Senders, SendResult(p) PROVE PcOK'
  <2>1. PICK x \in SendSteps : pc' = [pc EXCEPT ![p] = x]
    BY <1>22, Names DEF SendResult, Goto, End, SendSteps
  <2> QED
    BY <2>1, SenderTyped DEF IInv, TypeOK
<1>23. ASSUME NEW p \in Senders, Block(p) PROVE PcOK'
  <2>1. CASE state = "TERM"
    BY <1>23, <2>1, SenderTyped DEF Block, IInv, TypeOK, Goto, SendSteps
  <2>2. CASE state # "TERM"
    BY <1>23, <2>2, Names, HandOverTyped DEF Block, IInv, TypeOK
  <2> QED
    BY <2>1, <2>2
<1>24. ASSUME NEW p \in Senders, Complete(p) PROVE PcOK'
  <2>1. CASE state = "WRITING" /\ pending # <<>>
    <3>1. Head(pending) \in Writers
      BY <2>1 DEF IInv, TypeOK
    <3> QED
      BY <1>24, <2>1, <3>1, HandOverTyped DEF Complete, IInv, TypeOK
  <2>2. CASE ~ (state = "WRITING" /\ pending # <<>>)
    BY <1>24, <2>2, SenderTyped DEF Complete, IInv, TypeOK, Goto, SendSteps
  <2> QED
    BY <2>1, <2>2
<1>25. ASSUME NEW p \in Senders, SendError(p) PROVE PcOK'
  <2>1. Goto(p, End(p)) \/ Goto(p, "unlink")
    BY <1>25 DEF SendError
  <2> QED
    BY <2>1, SenderTyped DEF IInv, TypeOK, Goto, SendSteps
<1>26. ASSUME NEW p \in Senders, FireIn(p) PROVE PcOK'
  BY <1>26, Names DEF FireIn, PcOK, TypeOK, IInv, Goto, End, Unrefs, CreateConn, SendSteps, CallSteps, OutSteps, ReaderSteps, TimerSteps, Steps
<1>27. ASSUME NEW p \in Procs, Unref(p) PROVE PcOK'
  BY <1>27, Names DEF Unref, PcOK, TypeOK, IInv, Goto, End, Unrefs, CreateConn, SendSteps, CallSteps, OutSteps, ReaderSteps, TimerSteps, Steps
<1>28. ASSUME NEW p \in Procs, Unlink(p) PROVE PcOK'
  BY <1>28, Names DEF Unlink, PcOK, TypeOK, IInv, Goto, End, Unrefs, CreateConn, SendSteps, CallSteps, OutSteps, ReaderSteps, TimerSteps, Steps
<1>29. ASSUME NEW p \in Procs, RemoveEnd(p) PROVE PcOK'
  BY <1>29, Names DEF RemoveEnd, IpLockFree, PcOK, TypeOK, IInv, Goto, End, Unrefs, CreateConn, SendSteps, CallSteps, OutSteps, ReaderSteps, TimerSteps, Steps
<1>30. ASSUME NEW p \in Procs, Unlock(p) PROVE PcOK'
  BY <1>30, Names DEF Unlock, PcOK, TypeOK, IInv, Goto, End, Unrefs, CreateConn, SendSteps, CallSteps, OutSteps, ReaderSteps, TimerSteps, Steps
<1>31. ASSUME NEW x \in {"in", "out"}, HandleFire(x) PROVE PcOK'
  BY <1>31, Names DEF HandleFire, PcOK, TypeOK, IInv, Goto, End, Unrefs, CreateConn, SendSteps, CallSteps, OutSteps, ReaderSteps, TimerSteps, Steps
<1> QED
  BY <1>1, <1>2, <1>3, <1>4, <1>5, <1>6, <1>7, <1>8, <1>9, <1>10, <1>11, <1>12, <1>13, <1>14, <1>15, <1>16, <1>17, <1>18, <1>19, <1>20, <1>21, <1>22, <1>23, <1>24, <1>25, <1>26, <1>27, <1>28, <1>29, <1>30, <1>31, <1>32
     DEF Next, Environment, Reader, Timer, Write, Resume, Send, Common

(* A thread that has a reference is counted in ref. *)
LEMMA HolderCounted ==
  ASSUME IInv, ~ freed, NEW p \in Procs, pc[p] \notin NoRef
  PROVE  ref - 1 \in Nat
<1>1. Holders \in SUBSET Procs /\ p \in Holders
  BY DEF Holders
<1>2. Cardinality(Holders) \in Nat /\ Cardinality(Holders) >= 1
  BY <1>1, Counting
<1> QED
  BY <1>2 DEF IInv, TypeOK, RefsHeld

(* The answers of a write that ends. *)
LEMMA AnswerTyped ==
  ASSUME TypeOK, NEW p \in Senders, NEW n \in {"ok", "fail", "refused"}, Answer(p, n)
  PROVE  /\ ret' \in [Writers -> {"none", "ok", "fail", "refused", "async", "elsewhere"}]
         /\ resumed' \in [Writers -> Nat]
  BY Names DEF TypeOK, Answer

(* Type correctness is kept; ref stays a natural number because every thread
   that gives a reference up is counted in it. *)
LEMMA TypeStep == IInv /\ Next => TypeOK'
<1> SUFFICES ASSUME IInv, Next PROVE TypeOK'
  OBVIOUS
<1>1. ASSUME Accept PROVE TypeOK'
  BY <1>1, PcStep, Names DEF Accept, IInv, TypeOK, Goto, End, Return, CreateConn, SetTerm, Answer, mem, locks, out, told
<1>2. ASSUME InEvent PROVE TypeOK'
  BY <1>2, PcStep, Names DEF InEvent, IInv, TypeOK, Goto, End, Return, CreateConn, SetTerm, Answer, mem, locks, out, told
<1>3. ASSUME TimerScan PROVE TypeOK'
  BY <1>3, PcStep, Names DEF TimerScan, IInv, TypeOK, Goto, End, Return, CreateConn, SetTerm, Answer, mem, locks, out, told
<1>4. ASSUME NEW w \in Writers, Search(w) PROVE TypeOK'
  BY <1>4, PcStep, Names DEF Search, IInv, TypeOK, Goto, End, Return, CreateConn, SetTerm, Answer, mem, locks, out, told
<1>32. ASSUME NEW w \in Writers, Match(w) PROVE TypeOK'
  BY <1>32, PcStep, Names DEF Match, IpLockFree, IInv, TypeOK, Goto, End, Return, CreateConn, SetTerm, Answer, mem, locks, out, told
<1>5. ASSUME NEW w \in Writers, SearchFails(w) PROVE TypeOK'
  BY <1>5, PcStep, Names DEF SearchFails, IInv, TypeOK, Goto, End, Return, CreateConn, SetTerm, Answer, mem, locks, out, told
<1>6. ASSUME NEW w \in Writers, Create(w) PROVE TypeOK'
  BY <1>6, PcStep, Names DEF Create, IInv, TypeOK, Goto, End, Return, CreateConn, SetTerm, Answer, mem, locks, out, told
<1>7. ASSUME NEW w \in Writers, OutEvent(w) PROVE TypeOK'
  BY <1>7, PcStep, Names DEF OutEvent, IInv, TypeOK, Goto, End, Return, CreateConn, SetTerm, Answer, mem, locks, out, told
<1>8. ASSUME SubmitIn PROVE TypeOK'
  BY <1>8, PcStep, Names DEF SubmitIn, IInv, TypeOK, Goto, End, Return, CreateConn, SetTerm, Answer, mem, locks, out, told
<1>9. ASSUME ReadStart PROVE TypeOK'
  BY <1>9, PcStep, Names DEF ReadStart, IInv, TypeOK, Goto, End, Return, CreateConn, SetTerm, Answer, mem, locks, out, told
<1>10. ASSUME ReadResult PROVE TypeOK'
  BY <1>10, PcStep, Names DEF ReadResult, IInv, TypeOK, Goto, End, Return, CreateConn, SetTerm, Answer, mem, locks, out, told
<1>11. ASSUME Resubmit PROVE TypeOK'
  BY <1>11, PcStep, Names DEF Resubmit, IInv, TypeOK, Goto, End, Return, CreateConn, SetTerm, Answer, mem, locks, out, told
<1>12. ASSUME Terminate PROVE TypeOK'
  BY <1>12, PcStep, Names DEF Terminate, IInv, TypeOK, Goto, End, Return, CreateConn, SetTerm, Answer, mem, locks, out, told
<1>13. ASSUME TimerTerm PROVE TypeOK'
  BY <1>13, PcStep, Names DEF TimerTerm, IInv, TypeOK, Goto, End, Return, CreateConn, SetTerm, Answer, mem, locks, out, told
<1>14. ASSUME TimerFire PROVE TypeOK'
  BY <1>14, PcStep, Names DEF TimerFire, IInv, TypeOK, Goto, End, Return, CreateConn, SetTerm, Answer, mem, locks, out, told
<1>15. ASSUME NEW w \in Writers, SetWriting(w) PROVE TypeOK'
  <2>1. state \in {"READY", "WRITING", "TERM"}
    BY <1>15, Names DEF IInv, Fresh, TypeOK, SetWriting
  <2>2. pending' \in Seq(Writers) /\ state' \in {"READY", "WRITING", "TERM"} /\ ret' = ret
    <3>1. Append(pending, w) \in Seq(Writers)
      BY DEF IInv, TypeOK
    <3> QED
      BY <1>15, <2>1, <3>1 DEF SetWriting, IInv, TypeOK
  <2> QED
    BY <1>15, <2>2, PcStep DEF SetWriting, IInv, TypeOK, mem, locks
<1>16. ASSUME NEW w \in Writers, Connect(w) PROVE TypeOK'
  <2>1. /\ ret' \in [Writers -> {"none", "ok", "fail", "refused", "async", "elsewhere"}]
        /\ connecting' \in BOOLEAN
        /\ instant' \in Writers \union {Nobody}
    BY <1>16 DEF Connect, Return, IInv, TypeOK
  <2> QED
    BY <1>16, <2>1, PcStep DEF Connect, IInv, TypeOK, mem, locks
<1>17. ASSUME NEW w \in Writers, OutStart(w) PROVE TypeOK'
  BY <1>17, PcStep, Names DEF OutStart, IInv, TypeOK, Goto, End, Return, CreateConn, SetTerm, Answer, mem, locks, out, told
<1>18. ASSUME NEW w \in Writers, ConnectAgain(w) PROVE TypeOK'
  BY <1>18, PcStep, Names DEF ConnectAgain, IInv, TypeOK, Goto, End, Return, CreateConn, SetTerm, Answer, mem, locks, out, told
<1>19. ASSUME NEW w \in Writers, ConnectOk(w) PROVE TypeOK'
  <2>1. ref' \in Nat
    BY <1>19 DEF ConnectOk, IInv, TypeOK
  <2> QED
    BY <1>19, <2>1, PcStep DEF ConnectOk, IInv, TypeOK, locks, told
<1>20. ASSUME NEW w \in Writers, ConnectFails(w) PROVE TypeOK'
  <2>1. state' = "TERM" /\ resumed' \in [Writers -> Nat]
    BY <1>20 DEF ConnectFails, SetTerm, IInv, TypeOK
  <2>2. PcOK' /\ ret' = ret
    BY <1>20, PcStep, Names DEF ConnectFails, IInv, TypeOK
  <2> QED
    BY <1>20, <2>1, <2>2 DEF ConnectFails, SetTerm, IInv, TypeOK, mem, locks, out
<1>21. ASSUME NEW p \in Senders, SendStart(p) PROVE TypeOK'
  BY <1>21, PcStep, Names DEF SendStart, IInv, TypeOK, Goto, End, Return, CreateConn, SetTerm, Answer, mem, locks, out, told
<1>22. ASSUME NEW p \in Senders, SendResult(p) PROVE TypeOK'
  BY <1>22, PcStep, Names DEF SendResult, IInv, TypeOK, Goto, End, Return, CreateConn, SetTerm, Answer, mem, locks, out, told
<1>23. ASSUME NEW p \in Senders, Block(p) PROVE TypeOK'
  <2>1. PcOK'
    BY <1>23, PcStep
  <2>2. ret' \in [Writers -> {"none", "ok", "fail", "refused", "async", "elsewhere"}]
    BY <1>23 DEF Block, Return, IInv, TypeOK
  <2>3. active' \in Writers \union {Nobody}
    BY <1>23, Names DEF Block, IInv, TypeOK
  <2> QED
    BY <1>23, <2>1, <2>2, <2>3 DEF Block, IInv, TypeOK, mem, locks
<1>24. ASSUME NEW p \in Senders, Complete(p) PROVE TypeOK'
  <2>1. CASE state = "WRITING" /\ pending # <<>>
    <3>1. Head(pending) \in Writers /\ Tail(pending) \in Seq(Writers)
      BY <2>1 DEF IInv, TypeOK
    <3>2. Answer(p, "ok")
      BY <1>24, <2>1 DEF Complete
    <3> QED
      BY <1>24, <2>1, <3>1, <3>2, AnswerTyped, PcStep DEF Complete, IInv, TypeOK, mem, locks
  <2>2. CASE ~ (state = "WRITING" /\ pending # <<>>)
    BY <1>24, <2>2, PcStep DEF Complete, IInv, TypeOK, mem, locks, told
  <2> QED
    BY <2>1, <2>2
<1>25. ASSUME NEW p \in Senders, SendError(p) PROVE TypeOK'
  <2>1. CASE state = "TERM"
    <3>1. Answer(p, "fail")
      BY <1>25, <2>1 DEF SendError
    <3> QED
      BY <1>25, <2>1, <3>1, AnswerTyped, PcStep DEF SendError, IInv, TypeOK, mem, locks, out
  <2>2. CASE state # "TERM"
    BY <1>25, <2>2, PcStep DEF SendError, SetTerm, IInv, TypeOK, mem, locks, out
  <2> QED
    BY <2>1, <2>2
<1>26. ASSUME NEW p \in Senders, FireIn(p) PROVE TypeOK'
  BY <1>26, PcStep, Names DEF FireIn, IInv, TypeOK, Goto, End, Return, CreateConn, SetTerm, Answer, mem, locks, out, told
<1>27. ASSUME NEW p \in Procs, Unref(p) PROVE TypeOK'
  <2>1. ref' \in Nat /\ freed' \in BOOLEAN
    <3>1. pc[p] \notin NoRef
      BY <1>27 DEF Unref, Unrefs, NoRef
    <3> QED
      BY <1>27, <3>1, HolderCounted DEF Unref
  <2>2. /\ ret' \in [Writers -> {"none", "ok", "fail", "refused", "async", "elsewhere"}]
        /\ resumed' \in [Writers -> Nat]
    <3>1. CASE pc[p] \in {"unref_ok", "unref_fail"}
      <4>1. p \in Senders
        BY <3>1, Names DEF IInv, TypeOK, PcOK, ReaderSteps, TimerSteps
      <4>2. Answer(p, "ok") \/ Answer(p, "fail")
        BY <1>27, <3>1 DEF Unref
      <4> QED
        BY <4>1, <4>2, AnswerTyped DEF IInv
    <3>2. CASE pc[p] = "unref_queued"
      BY <1>27, <3>2 DEF Unref, Return, IInv, TypeOK
    <3>3. CASE pc[p] \notin {"unref_ok", "unref_fail", "unref_queued"}
      BY <1>27, <3>3 DEF Unref, IInv, TypeOK, told
    <3> QED
      BY <3>1, <3>2, <3>3
  <2> QED
    BY <1>27, <2>1, <2>2, PcStep DEF Unref, IInv, TypeOK, locks, out
<1>28. ASSUME NEW p \in Procs, Unlink(p) PROVE TypeOK'
  <2>1. ref' \in Nat
    <3>1. pc[p] \notin NoRef
      BY <1>28 DEF Unlink, NoRef
    <3> QED
      BY <1>28, <3>1, HolderCounted DEF Unlink, IInv, TypeOK
  <2> QED
    BY <1>28, <2>1, PcStep DEF Unlink, IInv, TypeOK, locks, out, told
<1>29. ASSUME NEW p \in Procs, RemoveEnd(p) PROVE TypeOK'
  <2>1. /\ ret' \in [Writers -> {"none", "ok", "fail", "refused", "async", "elsewhere"}]
        /\ resumed' \in [Writers -> Nat]
    <3>1. CASE pc[p] = "dropped"
      <4>1. p \in Senders
        BY <3>1, Names DEF IInv, TypeOK, PcOK, ReaderSteps, TimerSteps
      <4> QED
        BY <1>29, <3>1, <4>1, AnswerTyped DEF RemoveEnd, IpLockFree, IInv
    <3>2. CASE pc[p] # "dropped"
      BY <1>29, <3>2 DEF RemoveEnd, IpLockFree, IInv, TypeOK, told
    <3> QED
      BY <3>1, <3>2
  <2> QED
    BY <1>29, <2>1, PcStep DEF RemoveEnd, IpLockFree, IInv, TypeOK, locks, out
<1>30. ASSUME NEW p \in Procs, Unlock(p) PROVE TypeOK'
  BY <1>30, PcStep, Names DEF Unlock, IInv, TypeOK, Goto, End, Return, CreateConn, SetTerm, Answer, mem, locks, out, told
<1>31. ASSUME NEW x \in {"in", "out"}, HandleFire(x) PROVE TypeOK'
  BY <1>31, PcStep, Names DEF HandleFire, IInv, TypeOK, Goto, End, Return, CreateConn, SetTerm, Answer, mem, locks, out, told
<1> QED
  BY <1>1, <1>2, <1>3, <1>4, <1>5, <1>6, <1>7, <1>8, <1>9, <1>10, <1>11, <1>12, <1>13, <1>14, <1>15, <1>16, <1>17, <1>18, <1>19, <1>20, <1>21, <1>22, <1>23, <1>24, <1>25, <1>26, <1>27, <1>28, <1>29, <1>30, <1>31, <1>32
     DEF Next, Environment, Reader, Timer, Write, Resume, Send, Common

-----------------------------------------------------------------------------
(* References *)

(* Until the connection is created every thread is where it started. *)
LEMMA FreshStep == IInv /\ Next => Fresh'
<1> SUFFICES ASSUME IInv, Next PROVE Fresh'
  OBVIOUS
<1>1. ASSUME Accept PROVE Fresh'
  BY <1>1, Names DEF Accept, IInv, TypeOK, PcOK, Fresh, Goto, CreateConn, Unrefs, mem, locks, out, told, SetTerm
<1>2. ASSUME InEvent PROVE Fresh'
  BY <1>2, Names DEF InEvent, IInv, TypeOK, PcOK, Fresh, Goto, CreateConn, Unrefs, mem, locks, out, told, SetTerm
<1>3. ASSUME TimerScan PROVE Fresh'
  BY <1>3, Names DEF TimerScan, IInv, TypeOK, PcOK, Fresh, Goto, CreateConn, Unrefs, mem, locks, out, told, SetTerm
<1>4. ASSUME NEW w \in Writers, Search(w) PROVE Fresh'
  BY <1>4, Names DEF Search, IInv, TypeOK, PcOK, Fresh, Goto, CreateConn, Unrefs, mem, locks, out, told, SetTerm
<1>32. ASSUME NEW w \in Writers, Match(w) PROVE Fresh'
  BY <1>32, Names DEF Match, IpLockFree, IInv, TypeOK, PcOK, Fresh, Goto, CreateConn, Unrefs, mem, locks, out, told, SetTerm
<1>5. ASSUME NEW w \in Writers, SearchFails(w) PROVE Fresh'
  BY <1>5, Names DEF SearchFails, IInv, TypeOK, PcOK, Fresh, Goto, CreateConn, Unrefs, mem, locks, out, told, SetTerm
<1>6. ASSUME NEW w \in Writers, Create(w) PROVE Fresh'
  BY <1>6, Names DEF Create, IInv, TypeOK, PcOK, Fresh, Goto, CreateConn, Unrefs, mem, locks, out, told, SetTerm
<1>7. ASSUME NEW w \in Writers, OutEvent(w) PROVE Fresh'
  BY <1>7, Names DEF OutEvent, IInv, TypeOK, PcOK, Fresh, Goto, CreateConn, Unrefs, mem, locks, out, told, SetTerm
<1>8. ASSUME SubmitIn PROVE Fresh'
  BY <1>8, Names DEF SubmitIn, IInv, TypeOK, PcOK, Fresh, Goto, CreateConn, Unrefs, mem, locks, out, told, SetTerm
<1>9. ASSUME ReadStart PROVE Fresh'
  BY <1>9, Names DEF ReadStart, IInv, TypeOK, PcOK, Fresh, Goto, CreateConn, Unrefs, mem, locks, out, told, SetTerm
<1>10. ASSUME ReadResult PROVE Fresh'
  BY <1>10, Names DEF ReadResult, IInv, TypeOK, PcOK, Fresh, Goto, CreateConn, Unrefs, mem, locks, out, told, SetTerm
<1>11. ASSUME Resubmit PROVE Fresh'
  BY <1>11, Names DEF Resubmit, IInv, TypeOK, PcOK, Fresh, Goto, CreateConn, Unrefs, mem, locks, out, told, SetTerm
<1>12. ASSUME Terminate PROVE Fresh'
  BY <1>12, Names DEF Terminate, IInv, TypeOK, PcOK, Fresh, Goto, CreateConn, Unrefs, mem, locks, out, told, SetTerm
<1>13. ASSUME TimerTerm PROVE Fresh'
  BY <1>13, Names DEF TimerTerm, IInv, TypeOK, PcOK, Fresh, Goto, CreateConn, Unrefs, mem, locks, out, told, SetTerm
<1>14. ASSUME TimerFire PROVE Fresh'
  BY <1>14, Names DEF TimerFire, IInv, TypeOK, PcOK, Fresh, Goto, CreateConn, Unrefs, mem, locks, out, told, SetTerm
<1>15. ASSUME NEW w \in Writers, SetWriting(w) PROVE Fresh'
  BY <1>15, Names DEF SetWriting, IInv, TypeOK, PcOK, Fresh, Goto, CreateConn, Unrefs, mem, locks, out, told, SetTerm
<1>16. ASSUME NEW w \in Writers, Connect(w) PROVE Fresh'
  BY <1>16, Names DEF Connect, IInv, TypeOK, PcOK, Fresh, Goto, CreateConn, Unrefs, mem, locks, out, told, SetTerm
<1>17. ASSUME NEW w \in Writers, OutStart(w) PROVE Fresh'
  BY <1>17, Names DEF OutStart, IInv, TypeOK, PcOK, Fresh, Goto, CreateConn, Unrefs, mem, locks, out, told, SetTerm
<1>18. ASSUME NEW w \in Writers, ConnectAgain(w) PROVE Fresh'
  BY <1>18, Names DEF ConnectAgain, IInv, TypeOK, PcOK, Fresh, Goto, CreateConn, Unrefs, mem, locks, out, told, SetTerm
<1>19. ASSUME NEW w \in Writers, ConnectOk(w) PROVE Fresh'
  BY <1>19, Names DEF ConnectOk, IInv, TypeOK, PcOK, Fresh, Goto, CreateConn, Unrefs, mem, locks, out, told, SetTerm
<1>20. ASSUME NEW w \in Writers, ConnectFails(w) PROVE Fresh'
  BY <1>20, Names DEF ConnectFails, IInv, TypeOK, PcOK, Fresh, Goto, CreateConn, Unrefs, mem, locks, out, told, SetTerm
<1>21. ASSUME NEW p \in Senders, SendStart(p) PROVE Fresh'
  BY <1>21, Names DEF SendStart, IInv, TypeOK, PcOK, Fresh, Goto, CreateConn, Unrefs, mem, locks, out, told, SetTerm
<1>22. ASSUME NEW p \in Senders, SendResult(p) PROVE Fresh'
  BY <1>22, Names DEF SendResult, IInv, TypeOK, PcOK, Fresh, Goto, CreateConn, Unrefs, mem, locks, out, told, SetTerm
<1>23. ASSUME NEW p \in Senders, Block(p) PROVE Fresh'
  BY <1>23, Names DEF Block, IInv, TypeOK, PcOK, Fresh, Goto, CreateConn, Unrefs, mem, locks, out, told, SetTerm
<1>24. ASSUME NEW p \in Senders, Complete(p) PROVE Fresh'
  BY <1>24, Names DEF Complete, IInv, TypeOK, PcOK, Fresh, Goto, CreateConn, Unrefs, mem, locks, out, told, SetTerm
<1>25. ASSUME NEW p \in Senders, SendError(p) PROVE Fresh'
  BY <1>25, Names DEF SendError, IInv, TypeOK, PcOK, Fresh, Goto, CreateConn, Unrefs, mem, locks, out, told, SetTerm
<1>26. ASSUME NEW p \in Senders, FireIn(p) PROVE Fresh'
  BY <1>26, Names DEF FireIn, IInv, TypeOK, PcOK, Fresh, Goto, CreateConn, Unrefs, mem, locks, out, told, SetTerm
<1>27. ASSUME NEW p \in Procs, Unref(p) PROVE Fresh'
  BY <1>27, Names DEF Unref, IInv, TypeOK, PcOK, Fresh, Goto, CreateConn, Unrefs, mem, locks, out, told, SetTerm
<1>28. ASSUME NEW p \in Procs, Unlink(p) PROVE Fresh'
  BY <1>28, Names DEF Unlink, IInv, TypeOK, PcOK, Fresh, Goto, CreateConn, Unrefs, mem, locks, out, told, SetTerm
<1>29. ASSUME NEW p \in Procs, RemoveEnd(p) PROVE Fresh'
  BY <1>29, Names DEF RemoveEnd, IpLockFree, IInv, TypeOK, PcOK, Fresh, Goto, CreateConn, Unrefs, mem, locks, out, told, SetTerm
<1>30. ASSUME NEW p \in Procs, Unlock(p) PROVE Fresh'
  BY <1>30, Names DEF Unlock, IInv, TypeOK, PcOK, Fresh, Goto, CreateConn, Unrefs, mem, locks, out, told, SetTerm
<1>31. ASSUME NEW x \in {"in", "out"}, HandleFire(x) PROVE Fresh'
  BY <1>31, Names DEF HandleFire, IInv, TypeOK, PcOK, Fresh, Goto, CreateConn, Unrefs, mem, locks, out, told, SetTerm
<1> QED
  BY <1>1, <1>2, <1>3, <1>4, <1>5, <1>6, <1>7, <1>8, <1>9, <1>10, <1>11, <1>12, <1>13, <1>14, <1>15, <1>16, <1>17, <1>18, <1>19, <1>20, <1>21, <1>22, <1>23, <1>24, <1>25, <1>26, <1>27, <1>28, <1>29, <1>30, <1>31, <1>32
     DEF Next, Environment, Reader, Timer, Write, Resume, Send, Common

(* One reference more for one thread more. *)
LEMMA CountingUp ==
  ASSUME NEW S \in SUBSET Procs, NEW T \in SUBSET Procs, NEW q, T \subseteq S \union {q}
  PROVE  Cardinality(S) \in Nat /\ Cardinality(T) \in Nat /\ Cardinality(T) <= Cardinality(S) + 1
<1>1. IsFiniteSet(S)
  BY ProcsFinite, FS_Subset
<1>2. /\ Cardinality(S) \in Nat
      /\ IsFiniteSet(S \union {q})
      /\ \/ Cardinality(S \union {q}) = Cardinality(S)
         \/ Cardinality(S \union {q}) = Cardinality(S) + 1
  BY <1>1, FS_AddElement, FS_CardinalityType
<1>3. IsFiniteSet(T) /\ Cardinality(T) <= Cardinality(S \union {q})
  BY <1>2, FS_Subset
<1> QED
  BY <1>2, <1>3, FS_CardinalityType

(* No thread more. *)
LEMMA CountingSame ==
  ASSUME NEW S \in SUBSET Procs, NEW T \in SUBSET S
  PROVE  Cardinality(S) \in Nat /\ Cardinality(T) \in Nat /\ Cardinality(T) <= Cardinality(S)
<1>1. IsFiniteSet(S) /\ IsFiniteSet(T)
  BY ProcsFinite, FS_Subset
<1> QED
  BY <1>1, FS_Subset, FS_CardinalityType

(* A step that leaves ref alone, and adds no holder. *)
LEMMA RefsSame ==
  ASSUME TypeOK, RefsHeld, Holders' \subseteq Holders, ref' = ref, freed => freed'
  PROVE  RefsHeld'
<1>1. Holders \in SUBSET Procs /\ Holders' \in SUBSET Holders
  BY DEF Holders
<1>2. /\ Cardinality(Holders) \in Nat /\ Cardinality(Holders') \in Nat
      /\ Cardinality(Holders') <= Cardinality(Holders)
  BY <1>1, CountingSame
<1> QED
  BY <1>2 DEF TypeOK, RefsHeld

(* One more, with at most one holder more. *)
LEMMA RefsUp ==
  ASSUME TypeOK, RefsHeld, NEW q \in Procs, Holders' \subseteq Holders \union {q},
         ref' = ref + 1, freed => freed'
  PROVE  RefsHeld'
<1>1. Holders \in SUBSET Procs /\ Holders' \in SUBSET Procs
  BY DEF Holders
<1>2. /\ Cardinality(Holders) \in Nat /\ Cardinality(Holders') \in Nat
      /\ Cardinality(Holders') <= Cardinality(Holders) + 1
  BY <1>1, CountingUp
<1> QED
  BY <1>2 DEF TypeOK, RefsHeld

(* One less, given up by a holder. *)
LEMMA RefsDown ==
  ASSUME TypeOK, RefsHeld, NEW p \in Holders, Holders' \subseteq Holders \ {p},
         ref' = ref - 1, freed => freed'
  PROVE  RefsHeld'
<1>1. Holders \in SUBSET Procs /\ Holders' \in SUBSET Procs
  BY DEF Holders
<1>2. /\ Cardinality(Holders) \in Nat /\ Cardinality(Holders') \in Nat
      /\ Cardinality(Holders') <= Cardinality(Holders) - 1
  BY <1>1, Counting
<1> QED
  BY <1>2 DEF TypeOK, RefsHeld

(* The same, when a holder hands it over. *)
LEMMA RefsMove ==
  ASSUME TypeOK, RefsHeld, NEW p \in Holders, NEW q,
         Holders' \subseteq (Holders \ {p}) \union {q}, ref' = ref, freed => freed'
  PROVE  RefsHeld'
<1>1. Holders \in SUBSET Procs /\ Holders' \in SUBSET Procs
  BY DEF Holders
<1>2. /\ Cardinality(Holders) \in Nat /\ Cardinality(Holders') \in Nat
      /\ Cardinality(Holders') <= Cardinality(Holders)
  BY <1>1, Counting
<1> QED
  BY <1>2 DEF TypeOK, RefsHeld

(* A reference is given up only by the thread that has it. *)
LEMMA RefsStep == IInv /\ Next => RefsHeld'
<1> SUFFICES ASSUME IInv, Next PROVE RefsHeld'
  OBVIOUS
<1>1. ASSUME Accept PROVE RefsHeld'
  <2>1. Holders = {} /\ Holders' \subseteq Holders \union {reader} /\ ref' = 1
    BY <1>1, Names DEF Accept, CreateConn, Fresh, IInv, TypeOK, PcOK, Holders, NoRef, Goto, End, mem
  <2>2. Cardinality(Holders) = 0
    BY <2>1, FS_EmptySet
  <2>3. Holders \in SUBSET Procs /\ Holders' \in SUBSET Procs
    BY DEF Holders
  <2>4. Cardinality(Holders') \in Nat /\ Cardinality(Holders') <= 1
    BY <2>1, <2>2, <2>3, CountingUp
  <2> QED
    BY <2>1, <2>4 DEF RefsHeld
<1>2. ASSUME InEvent PROVE RefsHeld'
  <2>1. Holders' \subseteq Holders /\ ref' = ref /\ (freed => freed')
    BY <1>2, Names DEF InEvent, IInv, TypeOK, PcOK, Holders, NoRef, Goto, End, mem
  <2> QED
    BY <2>1, RefsSame DEF IInv
<1>3. ASSUME TimerScan PROVE RefsHeld'
  <2>1. Holders' \subseteq Holders /\ ref' = ref /\ (freed => freed')
    BY <1>3, Names DEF TimerScan, IInv, TypeOK, PcOK, Holders, NoRef, Goto, End, mem
  <2> QED
    BY <2>1, RefsSame DEF IInv
<1>4. ASSUME NEW w \in Writers, Search(w) PROVE RefsHeld'
  <2>1. Holders' \subseteq Holders \union {Call(w)} /\ ref' = ref + 1 /\ (freed => freed')
    BY <1>4, Names DEF Search, IInv, TypeOK, PcOK, Holders, NoRef, Goto, End, mem
  <2> QED
    BY <2>1, Names, RefsUp DEF IInv
<1>32. ASSUME NEW w \in Writers, Match(w) PROVE RefsHeld'
  <2>1. Holders' \subseteq Holders /\ ref' = ref /\ (freed => freed')
    BY <1>32, Names DEF Match, IpLockFree, IInv, TypeOK, PcOK, Holders, NoRef, Goto, End, mem
  <2> QED
    BY <2>1, Names, RefsSame DEF IInv
<1>5. ASSUME NEW w \in Writers, SearchFails(w) PROVE RefsHeld'
  <2>1. Holders' \subseteq Holders /\ ref' = ref /\ (freed => freed')
    BY <1>5, Names DEF SearchFails, IInv, TypeOK, PcOK, Holders, NoRef, Goto, End, mem
  <2> QED
    BY <2>1, RefsSame DEF IInv
<1>6. ASSUME NEW w \in Writers, Create(w) PROVE RefsHeld'
  <2>1. Holders = {} /\ Holders' \subseteq Holders \union {Call(w)} /\ ref' = 1
    BY <1>6, Names DEF Create, CreateConn, Fresh, IInv, TypeOK, PcOK, Holders, NoRef, Goto, End, mem
  <2>2. Cardinality(Holders) = 0
    BY <2>1, FS_EmptySet
  <2>3. Holders \in SUBSET Procs /\ Holders' \in SUBSET Procs
    BY DEF Holders
  <2>4. Cardinality(Holders') \in Nat /\ Cardinality(Holders') <= 1
    BY <2>1, <2>2, <2>3, CountingUp
  <2> QED
    BY <2>1, <2>4 DEF RefsHeld
<1>7. ASSUME NEW w \in Writers, OutEvent(w) PROVE RefsHeld'
  <2>1. Holders' \subseteq Holders /\ ref' = ref /\ (freed => freed')
    BY <1>7, Names DEF OutEvent, IInv, TypeOK, PcOK, Holders, NoRef, Goto, End, mem
  <2> QED
    BY <2>1, RefsSame DEF IInv
<1>8. ASSUME SubmitIn PROVE RefsHeld'
  <2>1. Holders' \subseteq Holders /\ ref' = ref /\ (freed => freed')
    BY <1>8, Names DEF SubmitIn, IInv, TypeOK, PcOK, Holders, NoRef, Goto, End, mem
  <2> QED
    BY <2>1, RefsSame DEF IInv
<1>9. ASSUME ReadStart PROVE RefsHeld'
  <2>1. Holders' \subseteq Holders /\ ref' = ref /\ (freed => freed')
    BY <1>9, Names DEF ReadStart, IInv, TypeOK, PcOK, Holders, NoRef, Goto, End, mem
  <2> QED
    BY <2>1, RefsSame DEF IInv
<1>10. ASSUME ReadResult PROVE RefsHeld'
  <2>1. Holders' \subseteq Holders /\ ref' = ref /\ (freed => freed')
    BY <1>10, Names DEF ReadResult, IInv, TypeOK, PcOK, Holders, NoRef, Goto, End, mem
  <2> QED
    BY <2>1, RefsSame DEF IInv
<1>11. ASSUME Resubmit PROVE RefsHeld'
  <2>1. Holders' \subseteq Holders /\ ref' = ref /\ (freed => freed')
    BY <1>11, Names DEF Resubmit, IInv, TypeOK, PcOK, Holders, NoRef, Goto, End, mem
  <2> QED
    BY <2>1, RefsSame DEF IInv
<1>12. ASSUME Terminate PROVE RefsHeld'
  <2>1. Holders' \subseteq Holders /\ ref' = ref /\ (freed => freed')
    BY <1>12, Names DEF Terminate, IInv, TypeOK, PcOK, Holders, NoRef, Goto, End, mem
  <2> QED
    BY <2>1, RefsSame DEF IInv
<1>13. ASSUME TimerTerm PROVE RefsHeld'
  <2>1. CASE state = "TERM"
    <3>1. Holders' \subseteq Holders /\ ref' = ref /\ (freed => freed')
      BY <1>13, <2>1, Names DEF TimerTerm, IInv, TypeOK, PcOK, Holders, NoRef, Goto, End, mem
    <3> QED
      BY <3>1, RefsSame DEF IInv
  <2>2. CASE state # "TERM"
    <3>1. Holders' \subseteq Holders \union {timer} /\ ref' = ref + 1 /\ (freed => freed')
      BY <1>13, <2>2, Names DEF TimerTerm, IInv, TypeOK, PcOK, Holders, NoRef, Goto, End, mem
    <3> QED
      BY <3>1, Names, RefsUp DEF IInv
  <2> QED
    BY <2>1, <2>2
<1>14. ASSUME TimerFire PROVE RefsHeld'
  <2>1. Holders' \subseteq Holders /\ ref' = ref /\ (freed => freed')
    BY <1>14, Names DEF TimerFire, IInv, TypeOK, PcOK, Holders, NoRef, Goto, End, mem
  <2> QED
    BY <2>1, RefsSame DEF IInv
<1>15. ASSUME NEW w \in Writers, SetWriting(w) PROVE RefsHeld'
  <2>0. state \in {"READY", "WRITING", "TERM"}
    BY <1>15, Names DEF IInv, Fresh, TypeOK, SetWriting
  <2>1. PICK x \in CallSteps : pc' = [pc EXCEPT ![Call(w)] = x]
    BY <1>15, <2>0, Names DEF SetWriting, Goto, SendSteps, CallSteps
  <2>2. Call(w) \in Holders /\ ref' = ref /\ freed' = freed
    BY <1>15, Names DEF SetWriting, Holders, NoRef, mem
  <2>3. Holders' \subseteq Holders
    BY <2>1, <2>2, Names DEF IInv, TypeOK, PcOK, Holders
  <2> QED
    BY <2>2, <2>3, RefsSame DEF IInv
<1>16. ASSUME NEW w \in Writers, Connect(w) PROVE RefsHeld'
  <2>1. CASE pc' = [pc EXCEPT ![Call(w)] = "done", ![Out(w)] = "armed"]
    <3>1. /\ Call(w) \in Holders /\ ref' = ref /\ (freed => freed')
          /\ Holders' \subseteq (Holders \ {Call(w)}) \union {Out(w)}
      BY <1>16, <2>1, Names DEF Connect, IInv, TypeOK, PcOK, Holders, NoRef, Goto, End, mem
    <3> QED
      BY <3>1, RefsMove DEF IInv
  <2>2. CASE Goto(Call(w), "send") \/ Goto(Call(w), "drop")
    <3>1. Holders' \subseteq Holders /\ ref' = ref /\ (freed => freed')
      BY <1>16, <2>2, Names DEF Connect, IInv, TypeOK, PcOK, Holders, NoRef, Goto, End, mem
    <3> QED
      BY <3>1, RefsSame DEF IInv
  <2> QED
    BY <1>16, <2>1, <2>2 DEF Connect
<1>17. ASSUME NEW w \in Writers, OutStart(w) PROVE RefsHeld'
  <2>1. Holders' \subseteq Holders /\ ref' = ref /\ (freed => freed')
    BY <1>17, Names DEF OutStart, IInv, TypeOK, PcOK, Holders, NoRef, Goto, End, mem
  <2> QED
    BY <2>1, RefsSame DEF IInv
<1>18. ASSUME NEW w \in Writers, ConnectAgain(w) PROVE RefsHeld'
  <2>1. Holders' \subseteq Holders /\ ref' = ref /\ (freed => freed')
    BY <1>18, Names DEF ConnectAgain, IInv, TypeOK, PcOK, Holders, NoRef, Goto, End, mem
  <2> QED
    BY <2>1, RefsSame DEF IInv
<1>19. ASSUME NEW w \in Writers, ConnectOk(w) PROVE RefsHeld'
  <2>1. Holders' \subseteq Holders \union {reader} /\ ref' = ref + 1 /\ (freed => freed')
    BY <1>19, Names DEF ConnectOk, IInv, TypeOK, PcOK, Holders, NoRef, Goto, End, mem
  <2> QED
    BY <2>1, Names, RefsUp DEF IInv
<1>20. ASSUME NEW w \in Writers, ConnectFails(w) PROVE RefsHeld'
  <2>1. Holders' \subseteq Holders /\ ref' = ref /\ (freed => freed')
    BY <1>20, Names DEF ConnectFails, IInv, TypeOK, PcOK, Holders, NoRef, Goto, End, mem
  <2> QED
    BY <2>1, RefsSame DEF IInv
<1>21. ASSUME NEW p \in Senders, SendStart(p) PROVE RefsHeld'
  <2>1. Holders' \subseteq Holders /\ ref' = ref /\ (freed => freed')
    BY <1>21, Names DEF SendStart, IInv, TypeOK, PcOK, Holders, NoRef, Goto, End, mem
  <2> QED
    BY <2>1, RefsSame DEF IInv
<1>22. ASSUME NEW p \in Senders, SendResult(p) PROVE RefsHeld'
  <2>1. Holders' \subseteq Holders /\ ref' = ref /\ (freed => freed')
    BY <1>22, Names DEF SendResult, IInv, TypeOK, PcOK, Holders, NoRef, Goto, End, mem
  <2> QED
    BY <2>1, RefsSame DEF IInv
<1>23. ASSUME NEW p \in Senders, Block(p) PROVE RefsHeld'
  <2>1. CASE state # "TERM"
    <3>1. /\ p \in Holders /\ ref' = ref /\ (freed => freed')
          /\ Holders' \subseteq (Holders \ {p}) \union {Out(p[2])}
      BY <1>23, <2>1, Names DEF Block, IInv, TypeOK, PcOK, Holders, NoRef, Goto, End, mem
    <3> QED
      BY <3>1, RefsMove DEF IInv
  <2>2. CASE state = "TERM"
    <3>1. Holders' \subseteq Holders /\ ref' = ref /\ (freed => freed')
      BY <1>23, <2>2, Names DEF Block, IInv, TypeOK, PcOK, Holders, NoRef, Goto, End, mem
    <3> QED
      BY <3>1, RefsSame DEF IInv
  <2> QED
    BY <1>23, <2>1, <2>2 DEF Block
<1>24. ASSUME NEW p \in Senders, Complete(p) PROVE RefsHeld'
  <2>1. CASE state = "WRITING" /\ pending # <<>>
    <3>1. /\ p \in Holders /\ ref' = ref /\ (freed => freed')
          /\ Holders' \subseteq (Holders \ {p}) \union {Out(Head(pending))}
      BY <1>24, <2>1, Names DEF Complete, IInv, TypeOK, PcOK, Holders, NoRef, Goto, End, mem
    <3> QED
      BY <3>1, RefsMove DEF IInv
  <2>2. CASE ~ (state = "WRITING" /\ pending # <<>>)
    <3>1. Holders' \subseteq Holders /\ ref' = ref /\ (freed => freed')
      BY <1>24, <2>2, Names DEF Complete, IInv, TypeOK, PcOK, Holders, NoRef, Goto, End, mem
    <3> QED
      BY <3>1, RefsSame DEF IInv
  <2> QED
    BY <1>24, <2>1, <2>2 DEF Complete
<1>25. ASSUME NEW p \in Senders, SendError(p) PROVE RefsHeld'
  <2>1. Holders' \subseteq Holders /\ ref' = ref /\ (freed => freed')
    BY <1>25, Names DEF SendError, IInv, TypeOK, PcOK, Holders, NoRef, Goto, End, mem
  <2> QED
    BY <2>1, RefsSame DEF IInv
<1>26. ASSUME NEW p \in Senders, FireIn(p) PROVE RefsHeld'
  <2>1. Holders' \subseteq Holders /\ ref' = ref /\ (freed => freed')
    BY <1>26, Names DEF FireIn, IInv, TypeOK, PcOK, Holders, NoRef, Goto, End, mem
  <2> QED
    BY <2>1, RefsSame DEF IInv
<1>27. ASSUME NEW p \in Procs, Unref(p) PROVE RefsHeld'
  <2>1. p \in Holders /\ Holders' \subseteq Holders \ {p} /\ ref' = ref - 1 /\ (freed => freed')
    BY <1>27, Names DEF Unref, IInv, TypeOK, PcOK, Holders, NoRef, Goto, End, mem, Unrefs
  <2> QED
    BY <2>1, RefsDown DEF IInv
<1>28. ASSUME NEW p \in Procs, Unlink(p) PROVE RefsHeld'
  <2>1. CASE pc[p] = "unlink"
    <3>1. p \in Holders /\ Holders' \subseteq Holders \ {p} /\ ref' = ref - 1 /\ (freed => freed')
      BY <1>28, <2>1 DEF Unlink, IInv, TypeOK, PcOK, Holders, NoRef, Goto, End, mem
    <3> QED
      BY <3>1, RefsDown DEF IInv
  <2>2. CASE pc[p] = "drop"
    <3>1. Holders' \subseteq Holders /\ ref' = ref /\ (freed => freed')
      BY <1>28, <2>2 DEF Unlink, IInv, TypeOK, PcOK, Holders, NoRef, Goto, End, mem
    <3> QED
      BY <3>1, RefsSame DEF IInv
  <2> QED
    BY <1>28, <2>1, <2>2 DEF Unlink
<1>29. ASSUME NEW p \in Procs, RemoveEnd(p) PROVE RefsHeld'
  <2>1. Holders' \subseteq Holders /\ ref' = ref /\ (freed => freed')
    BY <1>29, Names DEF RemoveEnd, IpLockFree, IInv, TypeOK, PcOK, Holders, NoRef, Goto, End, mem
  <2> QED
    BY <2>1, RefsSame DEF IInv
<1>30. ASSUME NEW p \in Procs, Unlock(p) PROVE RefsHeld'
  <2>1. Holders' \subseteq Holders /\ ref' = ref /\ (freed => freed')
    BY <1>30, Names DEF Unlock, IInv, TypeOK, PcOK, Holders, NoRef, Goto, End, mem
  <2> QED
    BY <2>1, RefsSame DEF IInv
<1>31. ASSUME NEW x \in {"in", "out"}, HandleFire(x) PROVE RefsHeld'
  <2>1. Holders' \subseteq Holders /\ ref' = ref /\ (freed => freed')
    BY <1>31, Names DEF HandleFire, IInv, TypeOK, PcOK, Holders, NoRef, Goto, End, mem
  <2> QED
    BY <2>1, RefsSame DEF IInv
<1> QED
  BY <1>1, <1>2, <1>3, <1>4, <1>5, <1>6, <1>7, <1>8, <1>9, <1>10, <1>11, <1>12, <1>13, <1>14, <1>15, <1>16, <1>17, <1>18, <1>19, <1>20, <1>21, <1>22, <1>23, <1>24, <1>25, <1>26, <1>27, <1>28, <1>29, <1>30, <1>31, <1>32
     DEF Next, Environment, Reader, Timer, Write, Resume, Send, Common

-----------------------------------------------------------------------------
(* One writer *)

(* A step after which no thread is sending that was not before. *)
LEMMA ExclusiveShrink ==
  ASSUME Exclusive, state' \in {state, "TERM"}, active' = active,
         \A p \in Senders : (Owner(p)' => Owner(p)) /\ (Busy(p)' => Busy(p)),
         \A w \in Writers : pc'[Out(w)] \in {"armed", "task", "connect"}
                            => pc[Out(w)] \in {"armed", "task", "connect"}
  PROVE  Exclusive'
  BY DEF Exclusive

(* A step after which only q may be sending. *)
LEMMA ExclusiveOnly ==
  ASSUME NEW q \in Senders, state' \notin {"NONE", "READY"},
         \A p \in Senders : Owner(p)' => p = q,
         state' # "TERM" => \A p \in Senders : Busy(p)' => p = q,
         \A w \in Writers : pc'[Out(w)] \in {"armed", "task", "connect"} => active' = w
  PROVE  Exclusive'
  BY DEF Exclusive

(* Of the threads that want to write one gets the connection, until TERM. *)
LEMMA ExclusiveStep == IInv /\ Next => Exclusive'
<1> SUFFICES ASSUME IInv, Next PROVE Exclusive'
  OBVIOUS
<1>1. ASSUME Accept PROVE Exclusive'
  BY <1>1, Names DEF Accept, IInv, TypeOK, PcOK, Exclusive, Owner, Busy, Sending, Goto, End, mem, locks, out, SetTerm, CreateConn, Unrefs
<1>2. ASSUME InEvent PROVE Exclusive'
  BY <1>2, Names DEF InEvent, IInv, TypeOK, PcOK, Exclusive, Owner, Busy, Sending, Goto, End, mem, locks, out, SetTerm, CreateConn, Unrefs
<1>3. ASSUME TimerScan PROVE Exclusive'
  BY <1>3, Names DEF TimerScan, IInv, TypeOK, PcOK, Exclusive, Owner, Busy, Sending, Goto, End, mem, locks, out, SetTerm, CreateConn, Unrefs
<1>4. ASSUME NEW w \in Writers, Search(w) PROVE Exclusive'
  BY <1>4, Names DEF Search, IInv, TypeOK, PcOK, Exclusive, Owner, Busy, Sending, Goto, End, mem, locks, out, SetTerm, CreateConn, Unrefs
<1>32. ASSUME NEW w \in Writers, Match(w) PROVE Exclusive'
  BY <1>32, Names DEF Match, IpLockFree, IInv, TypeOK, PcOK, Exclusive, Owner, Busy, Sending, Goto, End, mem, locks, out, SetTerm, CreateConn, Unrefs
<1>5. ASSUME NEW w \in Writers, SearchFails(w) PROVE Exclusive'
  BY <1>5, Names DEF SearchFails, IInv, TypeOK, PcOK, Exclusive, Owner, Busy, Sending, Goto, End, mem, locks, out, SetTerm, CreateConn, Unrefs
<1>6. ASSUME NEW w \in Writers, Create(w) PROVE Exclusive'
  BY <1>6, Names DEF Create, IInv, TypeOK, PcOK, Exclusive, Owner, Busy, Sending, Goto, End, mem, locks, out, SetTerm, CreateConn, Unrefs
<1>7. ASSUME NEW w \in Writers, OutEvent(w) PROVE Exclusive'
  BY <1>7, Names DEF OutEvent, IInv, TypeOK, PcOK, Exclusive, Owner, Busy, Sending, Goto, End, mem, locks, out, SetTerm, CreateConn, Unrefs
<1>8. ASSUME SubmitIn PROVE Exclusive'
  BY <1>8, Names DEF SubmitIn, IInv, TypeOK, PcOK, Exclusive, Owner, Busy, Sending, Goto, End, mem, locks, out, SetTerm, CreateConn, Unrefs
<1>9. ASSUME ReadStart PROVE Exclusive'
  BY <1>9, Names DEF ReadStart, IInv, TypeOK, PcOK, Exclusive, Owner, Busy, Sending, Goto, End, mem, locks, out, SetTerm, CreateConn, Unrefs
<1>10. ASSUME ReadResult PROVE Exclusive'
  <2>1. PICK x \in {"resubmit", "terminate"} : pc' = [pc EXCEPT ![reader] = x]
    BY <1>10, Names DEF ReadResult, Goto, End
  <2>2. pc[reader] = "reading"
    BY <1>10 DEF ReadResult
  <2>3. \A p0 \in Senders : (Owner(p0)' => Owner(p0)) /\ (Busy(p0)' => Busy(p0))
    BY <2>1, <2>2, Names DEF IInv, TypeOK, PcOK, Owner, Busy, Sending
  <2>4. \A v \in Writers : pc'[Out(v)] \in {"armed", "task", "connect"}
                           => pc[Out(v)] \in {"armed", "task", "connect"}
    BY <2>1, <2>2, Names DEF IInv, TypeOK, PcOK, Owner, Busy, Sending
  <2>5. state' \in {state, "TERM"} /\ active' = active
    BY <1>10 DEF ReadResult, SetTerm, out
  <2> QED
    BY <2>3, <2>4, <2>5, ExclusiveShrink DEF IInv
<1>11. ASSUME Resubmit PROVE Exclusive'
  BY <1>11, Names DEF Resubmit, IInv, TypeOK, PcOK, Exclusive, Owner, Busy, Sending, Goto, End, mem, locks, out, SetTerm, CreateConn, Unrefs
<1>12. ASSUME Terminate PROVE Exclusive'
  BY <1>12, Names DEF Terminate, IInv, TypeOK, PcOK, Exclusive, Owner, Busy, Sending, Goto, End, mem, locks, out, SetTerm, CreateConn, Unrefs
<1>13. ASSUME TimerTerm PROVE Exclusive'
  BY <1>13, Names DEF TimerTerm, IInv, TypeOK, PcOK, Exclusive, Owner, Busy, Sending, Goto, End, mem, locks, out, SetTerm, CreateConn, Unrefs
<1>14. ASSUME TimerFire PROVE Exclusive'
  BY <1>14, Names DEF TimerFire, IInv, TypeOK, PcOK, Exclusive, Owner, Busy, Sending, Goto, End, mem, locks, out, SetTerm, CreateConn, Unrefs
<1>15. ASSUME NEW w \in Writers, SetWriting(w) PROVE Exclusive'
  <2>0. state \in {"READY", "WRITING", "TERM"}
    BY <1>15, Names DEF IInv, Fresh, TypeOK, SetWriting
  <2>1. CASE state = "READY"
    <3>1. pc' = [pc EXCEPT ![Call(w)] = "send"] /\ state' = "WRITING"
      BY <1>15, <2>1 DEF SetWriting, Goto
    <3>2. \A p \in Senders : ~ Busy(p)
      BY <2>1 DEF IInv, Exclusive
    <3>3. \A p \in Senders : Busy(p)' => p = Call(w)
      BY <3>1, <3>2, Names DEF IInv, TypeOK, PcOK, Owner, Busy, Sending
    <3>4. \A v \in Writers : pc'[Out(v)] \notin {"armed", "task", "connect"}
      BY <3>1, <3>2, Names DEF IInv, TypeOK, PcOK, Owner, Busy, Sending
    <3> QED
      BY <3>1, <3>3, <3>4, Names, ExclusiveOnly DEF Busy
  <2>2. CASE state = "WRITING"
    <3>1. PICK x \in {"unref_queued", "unref_fail"} : pc' = [pc EXCEPT ![Call(w)] = x]
      BY <1>15, <2>2 DEF SetWriting, Goto
    <3>2. \A p \in Senders : (Owner(p)' => Owner(p)) /\ (Busy(p)' => Busy(p))
      BY <3>1, Names DEF IInv, TypeOK, PcOK, Owner, Busy, Sending
    <3>3. \A v \in Writers : pc'[Out(v)] = pc[Out(v)]
      BY <3>1, Names DEF IInv, TypeOK, PcOK, Owner, Busy, Sending
    <3> QED
      BY <1>15, <2>2, <3>2, <3>3, ExclusiveShrink DEF SetWriting, IInv
  <2>3. CASE state = "TERM"
    <3>1. pc' = [pc EXCEPT ![Call(w)] = "send"] /\ state' = state /\ active' = active
      BY <1>15, <2>3 DEF SetWriting, Goto
    <3>2. \A p \in Senders : Owner(p)' => Owner(p)
      BY <3>1, Names DEF IInv, TypeOK, PcOK, Owner, Busy, Sending
    <3>3. \A v \in Writers : pc'[Out(v)] = pc[Out(v)]
      BY <3>1, Names DEF IInv, TypeOK, PcOK, Owner, Busy, Sending
    <3> QED
      BY <2>3, <3>1, <3>2, <3>3 DEF IInv, Exclusive
  <2> QED
    BY <2>0, <2>1, <2>2, <2>3
<1>16. ASSUME NEW w \in Writers, Connect(w) PROVE Exclusive'
  <2>1. pc[Call(w)] = "created" /\ active' = w /\ state' = state
    BY <1>16 DEF Connect
  <2>2. /\ \A p \in Senders : Owner(p) => p = Call(w)
        /\ state # "TERM" => \A p \in Senders : Busy(p) => p = Call(w)
        /\ state \notin {"NONE", "READY"}
    BY <2>1, Names DEF IInv, Exclusive, Owner, Busy
  <2>3. CASE pc' = [pc EXCEPT ![Call(w)] = "done", ![Out(w)] = "armed"]
    <3>1. \A p \in Senders : /\ Owner(p)' => p = Out(w)
                             /\ Busy(p)' => p = Out(w) \/ (Busy(p) /\ p # Call(w))
      BY <2>2, <2>3, Names DEF IInv, TypeOK, PcOK, Owner, Busy, Sending
    <3>2. \A v \in Writers : pc'[Out(v)] \in {"armed", "task", "connect"} => active' = v
      BY <2>1, <3>1, Names DEF IInv, TypeOK, PcOK, Owner, Busy, Sending
    <3>3. state' # "TERM" => \A p \in Senders : Busy(p)' => p = Out(w)
      BY <2>1, <2>2, <3>1 DEF IInv, TypeOK, PcOK, Owner, Busy, Sending
    <3> QED
      BY <2>1, <2>2, <3>1, <3>2, <3>3, Names, ExclusiveOnly DEF Owner, Busy
  <2>4. CASE Goto(Call(w), "send") \/ Goto(Call(w), "drop")
    <3>1. PICK x \in {"send", "drop"} : pc' = [pc EXCEPT ![Call(w)] = x]
      BY <2>4 DEF Goto
    <3>2. \A p \in Senders : ~ Owner(p)' /\ (Busy(p)' => p = Call(w) \/ Busy(p))
      BY <2>2, <3>1, Names DEF IInv, TypeOK, PcOK, Owner, Busy, Sending
    <3>3. \A v \in Writers : pc'[Out(v)] \notin {"armed", "task", "connect"}
      BY <3>2, Names DEF Owner
    <3> QED
      BY <2>1, <2>2, <3>2, <3>3, Names, ExclusiveOnly
  <2> QED
    BY <1>16, <2>3, <2>4 DEF Connect
<1>17. ASSUME NEW w \in Writers, OutStart(w) PROVE Exclusive'
  BY <1>17, Names DEF OutStart, IInv, TypeOK, PcOK, Exclusive, Owner, Busy, Sending, Goto, End, mem, locks, out, SetTerm, CreateConn, Unrefs
<1>18. ASSUME NEW w \in Writers, ConnectAgain(w) PROVE Exclusive'
  BY <1>18, Names DEF ConnectAgain, IInv, TypeOK, PcOK, Exclusive, Owner, Busy, Sending, Goto, End, mem, locks, out, SetTerm, CreateConn, Unrefs
<1>19. ASSUME NEW w \in Writers, ConnectOk(w) PROVE Exclusive'
  <2>1. pc' = [pc EXCEPT ![Out(w)] = "send", ![reader] = "armed"] /\ pc[Out(w)] = "connect"
    BY <1>19 DEF ConnectOk
  <2>2. \A p \in Senders : (Owner(p)' => Owner(p)) /\ (Busy(p)' => Busy(p))
    BY <2>1, Names DEF IInv, TypeOK, PcOK, Owner, Busy, Sending
  <2>3. \A v \in Writers : pc'[Out(v)] \in {"armed", "task", "connect"}
                           => pc[Out(v)] \in {"armed", "task", "connect"}
    BY <2>1, Names DEF IInv, TypeOK, PcOK, Owner, Busy, Sending
  <2> QED
    BY <1>19, <2>2, <2>3, ExclusiveShrink DEF ConnectOk, IInv
<1>20. ASSUME NEW w \in Writers, ConnectFails(w) PROVE Exclusive'
  BY <1>20, Names DEF ConnectFails, IInv, TypeOK, PcOK, Exclusive, Owner, Busy, Sending, Goto, End, mem, locks, out, SetTerm, CreateConn, Unrefs
<1>21. ASSUME NEW p \in Senders, SendStart(p) PROVE Exclusive'
  BY <1>21, Names DEF SendStart, IInv, TypeOK, PcOK, Exclusive, Owner, Busy, Sending, Goto, End, mem, locks, out, SetTerm, CreateConn, Unrefs
<1>22. ASSUME NEW p \in Senders, SendResult(p) PROVE Exclusive'
  <2>1. PICK x \in {"block", "complete", "error"} : pc' = [pc EXCEPT ![p] = x]
    BY <1>22, Names DEF SendResult, Goto, End
  <2>2. pc[p] = "sending"
    BY <1>22 DEF SendResult
  <2>3. \A p0 \in Senders : (Owner(p0)' => Owner(p0)) /\ (Busy(p0)' => Busy(p0))
    BY <2>1, <2>2, Names DEF IInv, TypeOK, PcOK, Owner, Busy, Sending
  <2>4. \A v \in Writers : pc'[Out(v)] \in {"armed", "task", "connect"}
                           => pc[Out(v)] \in {"armed", "task", "connect"}
    BY <2>1, <2>2, Names DEF IInv, TypeOK, PcOK, Owner, Busy, Sending
  <2>5. state' \in {state, "TERM"} /\ active' = active
    BY <1>22 DEF SendResult, SetTerm, out
  <2> QED
    BY <2>3, <2>4, <2>5, ExclusiveShrink DEF IInv
<1>23. ASSUME NEW p \in Senders, Block(p) PROVE Exclusive'
  <2>1. CASE state # "TERM"
    <3>1. /\ pc' = [pc EXCEPT ![p] = End(p), ![Out(p[2])] = "armed"]
          /\ state' = state /\ active' = p[2] /\ pc[p] = "block"
      BY <1>23, <2>1 DEF Block
    <3>2. Out(p[2]) \in Senders /\ Out(p[2])[2] = active' /\ state \notin {"NONE", "READY", "TERM"}
      BY <2>1, <3>1, Names DEF IInv, TypeOK, Exclusive, Owner, Busy, Sending
    <3>3. \A q \in Senders : Busy(q) => q = p
      BY <3>1, <3>2 DEF IInv, Exclusive, Owner, Busy, Sending
    <3>4. \A q \in Senders : Busy(q)' => q = Out(p[2])
      BY <3>1, <3>3, Names DEF IInv, TypeOK, PcOK, Owner, Busy, Sending, End
    <3>5. \A v \in Writers : pc'[Out(v)] \in {"armed", "task", "connect"} => active' = v
      BY <3>2, <3>4, Names DEF Owner, Busy
    <3> QED
      BY <3>1, <3>2, <3>4, <3>5, ExclusiveOnly DEF Busy
  <2>2. CASE state = "TERM"
    <3>1. pc' = [pc EXCEPT ![p] = "unref_fail"] /\ state' = state /\ active' = active
      BY <1>23, <2>2 DEF Block, Goto
    <3>2. \A q \in Senders : (Owner(q)' => Owner(q)) /\ (Busy(q)' => Busy(q))
      BY <3>1, Names DEF IInv, TypeOK, PcOK, Owner, Busy, Sending
    <3>3. \A v \in Writers : pc'[Out(v)] \in {"armed", "task", "connect"}
                             => pc[Out(v)] \in {"armed", "task", "connect"}
      BY <3>1, Names DEF IInv, TypeOK, PcOK, Owner, Busy, Sending
    <3> QED
      BY <3>1, <3>2, <3>3, ExclusiveShrink DEF IInv
  <2> QED
    BY <2>1, <2>2
<1>24. ASSUME NEW p \in Senders, Complete(p) PROVE Exclusive'
  <2>1. CASE state = "WRITING" /\ pending # <<>>
    <3>1. /\ pc' = [pc EXCEPT ![p] = End(p), ![Out(Head(pending))] = "task"]
          /\ state' = state /\ active' = Head(pending) /\ pc[p] = "complete"
      BY <1>24, <2>1 DEF Complete
    <3>2. Out(Head(pending)) \in Senders /\ Out(Head(pending))[2] = active' /\ state \notin {"NONE", "READY", "TERM"}
      BY <2>1, <3>1, Names DEF IInv, TypeOK, Exclusive, Owner, Busy, Sending
    <3>3. \A q \in Senders : Busy(q) => q = p
      BY <3>1, <3>2 DEF IInv, Exclusive, Owner, Busy, Sending
    <3>4. \A q \in Senders : Busy(q)' => q = Out(Head(pending))
      <4> SUFFICES ASSUME NEW q \in Senders, Busy(q)', q # Out(Head(pending)) PROVE FALSE
        OBVIOUS
      <4>1. q # p
        BY <3>1, Names DEF IInv, TypeOK, PcOK, Owner, Busy, Sending, End
      <4>2. pc'[q] = pc[q]
        BY <3>1, <4>1, Names DEF IInv, TypeOK, PcOK
      <4> QED
        BY <3>3, <4>1, <4>2 DEF Owner, Busy
    <3>5. \A v \in Writers : pc'[Out(v)] \in {"armed", "task", "connect"} => active' = v
      BY <3>2, <3>4, Names DEF Owner, Busy
    <3> QED
      BY <3>1, <3>2, <3>4, <3>5, ExclusiveOnly DEF Busy
  <2>2. CASE ~ (state = "WRITING" /\ pending # <<>>)
    <3>1. /\ pc' = [pc EXCEPT ![p] = "unref_ok"] /\ active' = active /\ pc[p] = "complete"
          /\ state' = IF state = "WRITING" THEN "READY" ELSE state
      BY <1>24, <2>2 DEF Complete, Goto
    <3>2. \A q \in Senders : /\ Owner(q)' => Owner(q) /\ q # p
                             /\ Busy(q)' => Busy(q) /\ q # p
      BY <3>1, Names DEF IInv, TypeOK, PcOK, Owner, Busy, Sending
    <3>3. \A v \in Writers : pc'[Out(v)] \in {"armed", "task", "connect"}
                             => pc[Out(v)] \in {"armed", "task", "connect"}
      BY <3>1, Names DEF IInv, TypeOK, PcOK, Owner, Busy, Sending
    <3>4. Owner(p) /\ Busy(p)
      BY <3>1 DEF Owner, Busy, Sending
    <3>5. CASE state = "WRITING"
      <4>1. \A q \in Senders : Busy(q) => q = p
        BY <3>4, <3>5 DEF IInv, Exclusive
      <4>2. \A q \in Senders : ~ Busy(q)'
        BY <3>2, <4>1 DEF Owner, Busy
      <4> QED
        BY <3>1, <3>3, <4>2 DEF IInv, Exclusive, Busy
    <3>6. CASE state # "WRITING"
      <4>1. \A q \in Senders : (Owner(q)' => Owner(q)) /\ (Busy(q)' => Busy(q))
        BY <3>2 DEF Owner, Busy
      <4> QED
        BY <3>1, <3>3, <3>6, <4>1, ExclusiveShrink DEF IInv
    <3> QED
      BY <3>5, <3>6
  <2> QED
    BY <2>1, <2>2
<1>25. ASSUME NEW p \in Senders, SendError(p) PROVE Exclusive'
  <2>1. PICK x \in {"off", "done", "unlink"} : pc' = [pc EXCEPT ![p] = x]
    BY <1>25, Names DEF SendError, Goto, End
  <2>2. pc[p] = "error"
    BY <1>25 DEF SendError
  <2>3. \A p0 \in Senders : (Owner(p0)' => Owner(p0)) /\ (Busy(p0)' => Busy(p0))
    BY <2>1, <2>2, Names DEF IInv, TypeOK, PcOK, Owner, Busy, Sending
  <2>4. \A v \in Writers : pc'[Out(v)] \in {"armed", "task", "connect"}
                           => pc[Out(v)] \in {"armed", "task", "connect"}
    BY <2>1, <2>2, Names DEF IInv, TypeOK, PcOK, Owner, Busy, Sending
  <2>5. state' \in {state, "TERM"} /\ active' = active
    BY <1>25 DEF SendError, SetTerm, out
  <2> QED
    BY <2>3, <2>4, <2>5, ExclusiveShrink DEF IInv
<1>26. ASSUME NEW p \in Senders, FireIn(p) PROVE Exclusive'
  BY <1>26, Names DEF FireIn, IInv, TypeOK, PcOK, Exclusive, Owner, Busy, Sending, Goto, End, mem, locks, out, SetTerm, CreateConn, Unrefs
<1>27. ASSUME NEW p \in Procs, Unref(p) PROVE Exclusive'
  BY <1>27, Names DEF Unref, IInv, TypeOK, PcOK, Exclusive, Owner, Busy, Sending, Goto, End, mem, locks, out, SetTerm, CreateConn, Unrefs
<1>28. ASSUME NEW p \in Procs, Unlink(p) PROVE Exclusive'
  BY <1>28, Names DEF Unlink, IInv, TypeOK, PcOK, Exclusive, Owner, Busy, Sending, Goto, End, mem, locks, out, SetTerm, CreateConn, Unrefs
<1>29. ASSUME NEW p \in Procs, RemoveEnd(p) PROVE Exclusive'
  BY <1>29, Names DEF RemoveEnd, IpLockFree, IInv, TypeOK, PcOK, Exclusive, Owner, Busy, Sending, Goto, End, mem, locks, out, SetTerm, CreateConn, Unrefs
<1>30. ASSUME NEW p \in Procs, Unlock(p) PROVE Exclusive'
  BY <1>30, Names DEF Unlock, IInv, TypeOK, PcOK, Exclusive, Owner, Busy, Sending, Goto, End, mem, locks, out, SetTerm, CreateConn, Unrefs
<1>31. ASSUME NEW x \in {"in", "out"}, HandleFire(x) PROVE Exclusive'
  BY <1>31, Names DEF HandleFire, IInv, TypeOK, PcOK, Exclusive, Owner, Busy, Sending, Goto, End, mem, locks, out, SetTerm, CreateConn, Unrefs
<1> QED
  BY <1>1, <1>2, <1>3, <1>4, <1>5, <1>6, <1>7, <1>8, <1>9, <1>10, <1>11, <1>12, <1>13, <1>14, <1>15, <1>16, <1>17, <1>18, <1>19, <1>20, <1>21, <1>22, <1>23, <1>24, <1>25, <1>26, <1>27, <1>28, <1>29, <1>30, <1>31, <1>32
     DEF Next, Environment, Reader, Timer, Write, Resume, Send, Common

-----------------------------------------------------------------------------
(* Answers *)

(* A step after which no more writes are in their call or OUT task. *)
LEMMA FateSame ==
  ASSUME OnePlace, Due, pending' = pending, instant' = instant, ret' = ret, resumed' = resumed,
         pending # <<>> => state' \in {state, "TERM"},
         \A w \in Writers :
           /\ pc'[Call(w)] \notin {"done", "unref_queued"} => pc[Call(w)] \notin {"done", "unref_queued"}
           /\ pc'[Call(w)] # "done" => pc[Call(w)] # "done"
           /\ pc'[Out(w)] # "off" => pc[Out(w)] # "off"
  PROVE  OnePlace' /\ Due'
<1>1. Waiting' = Waiting
  BY DEF Waiting
<1>2. Waiting # {} => pending # <<>>
  BY DEF Waiting, Elements
<1>3. OnePlace'
  BY <1>1 DEF OnePlace
<1> QED
  BY <1>1, <1>2, <1>3 DEF Due

(* The end of a write. *)
LEMMA FateAnswer ==
  ASSUME IInv, OnePlace, Due, NEW p \in Senders, NEW n \in {"ok", "fail", "refused"}, Answer(p, n),
         pc[p] \notin {"off", "done", "unref_queued"}, pc' = [pc EXCEPT ![p] = End(p)],
         pending' = pending, instant' = instant, state' = state
  PROVE  OnePlace' /\ Due'
<1>1. CASE p = Call(p[2])
  BY <1>1, Names DEF OnePlace, Due, Waiting, Answer, End, Answered, IInv, TypeOK, PcOK
<1>2. CASE p = Out(p[2])
  BY <1>2, Names DEF OnePlace, Due, Waiting, Answer, End, Answered, IInv, TypeOK, PcOK
<1> QED
  BY <1>1, <1>2, Names

(* set_conn_state to TERM. *)
LEMMA FateTerm ==
  ASSUME IInv, OnePlace, Due, SetTerm, pending' = pending, instant' = instant, ret' = ret,
         \A w \in Writers :
           /\ pc'[Call(w)] \notin {"done", "unref_queued"} => pc[Call(w)] \notin {"done", "unref_queued"}
           /\ pc'[Call(w)] # "done" => pc[Call(w)] # "done"
           /\ pc'[Out(w)] # "off" => pc[Out(w)] # "off"
  PROVE  OnePlace' /\ Due'
<1>1. \A w \in Writers : resumed'[w] = IF state = "WRITING" /\ w \in Waiting THEN resumed[w] + 1 ELSE resumed[w]
  BY DEF SetTerm, Waiting, Elements
<1>2. Waiting' = Waiting
  BY DEF Waiting
<1>3. OnePlace'
  BY <1>1, <1>2 DEF OnePlace, SetTerm
<1>4. ASSUME NEW w \in Writers, w # instant
      PROVE  /\ Answered(ret[w]) => resumed'[w] = 0 /\ pc'[Out(w)] = "off" /\ w \notin Waiting
             /\ pc'[Out(w)] # "off" => resumed'[w] = 0
             /\ resumed'[w] <= 1
  BY <1>1, <1>4 DEF OnePlace, Due, IInv, TypeOK
<1> QED
  BY <1>2, <1>3, <1>4 DEF Due, SetTerm

(* The first of a list is in it. *)
LEMMA HeadWaits ==
  ASSUME NEW s \in Seq(Writers), s # <<>>
  PROVE  Head(s) \in Writers /\ Head(s) \in Elements(s)
<1>1. DOMAIN s = 1 .. Len(s) /\ Len(s) >= 1 /\ Head(s) = s[1] /\ s[1] \in Writers
  OBVIOUS
<1> QED
  BY <1>1 DEF Elements

(* A list with a context more at its end. *)
LEMMA WaitingAppend ==
  ASSUME NEW s \in Seq(Writers), NEW w \in Writers, NEW t, t = Append(s, w),
         \A i, j \in DOMAIN s : s[i] = s[j] => i = j,
         w \notin Elements(s)
  PROVE  /\ Elements(t) = Elements(s) \union {w}
         /\ \A i, j \in DOMAIN t : t[i] = t[j] => i = j
         /\ t # <<>>
<1>1. /\ Len(s) \in Nat /\ DOMAIN s = 1 .. Len(s) /\ DOMAIN t = 1 .. (Len(s) + 1)
      /\ \A i \in 1 .. Len(s) : t[i] = s[i]
      /\ t[Len(s) + 1] = w /\ t # <<>>
  OBVIOUS
<1>2. DOMAIN t = DOMAIN s \union {Len(s) + 1} /\ Len(s) + 1 \notin DOMAIN s
  BY <1>1
<1>3. Elements(t) = Elements(s) \union {w}
  BY <1>1, <1>2 DEF Elements
<1>4. \A i, j \in DOMAIN t : t[i] = t[j] => i = j
  <2>1. \A i \in DOMAIN s : s[i] # w /\ t[i] = s[i]
    BY <1>1 DEF Elements
  <2> QED
    BY <1>1, <1>2, <2>1
<1> QED
  BY <1>1, <1>3, <1>4

(* The same without its first. *)
LEMMA WaitingTail ==
  ASSUME NEW s \in Seq(Writers), s # <<>>, NEW t, t = Tail(s),
         \A i, j \in DOMAIN s : s[i] = s[j] => i = j
  PROVE  /\ Head(s) \in Writers /\ Head(s) \in Elements(s)
         /\ Elements(t) = Elements(s) \ {Head(s)}
         /\ \A i, j \in DOMAIN t : t[i] = t[j] => i = j
<1>1. /\ Len(s) \in Nat \ {0} /\ DOMAIN s = 1 .. Len(s) /\ DOMAIN t = 1 .. (Len(s) - 1)
      /\ \A i \in 1 .. (Len(s) - 1) : t[i] = s[i + 1]
      /\ Head(s) = s[1] /\ s[1] \in Writers
  OBVIOUS
<1>2. Elements(t) = Elements(s) \ {s[1]}
  <2>1. \A i \in DOMAIN t : i + 1 \in DOMAIN s /\ t[i] = s[i + 1] /\ i + 1 # 1
    BY <1>1
  <2>2. \A i \in DOMAIN s : i # 1 => i - 1 \in DOMAIN t /\ t[i - 1] = s[i]
    <3> SUFFICES ASSUME NEW i \in DOMAIN s, i # 1 PROVE i - 1 \in DOMAIN t /\ t[i - 1] = s[i]
      OBVIOUS
    <3>1. i - 1 \in 1 .. (Len(s) - 1) /\ (i - 1) + 1 = i
      BY <1>1
    <3> QED
      BY <1>1, <3>1
  <2>3. \A i \in DOMAIN t : t[i] # s[1]
    BY <1>1, <2>1
  <2>4. \A x : x \in Elements(t) => x \in Elements(s) \ {s[1]}
    BY <2>1, <2>3 DEF Elements
  <2>5. ASSUME NEW x, x \in Elements(s) \ {s[1]} PROVE x \in Elements(t)
    <3>1. PICK i \in DOMAIN s : s[i] = x
      BY <2>5 DEF Elements
    <3> QED
      BY <2>2, <2>5, <3>1 DEF Elements
  <2> QED
    BY <2>4, <2>5
<1>3. \A i, j \in DOMAIN t : t[i] = t[j] => i = j
  BY <1>1
<1>4. Head(s) \in Elements(s)
  BY <1>1 DEF Elements
<1> QED
  BY <1>1, <1>2, <1>3, <1>4

(* A call returns, with nothing said or with an answer that is not the end. *)
LEMMA FateDone ==
  ASSUME IInv, OnePlace, Due, NEW w \in Writers, NEW r, ~ Answered(r),
         pc' = [pc EXCEPT ![Call(w)] = "done"], ret' = [ret EXCEPT ![w] = r],
         pc[Call(w)] # "done", UNCHANGED <<state, pending, instant, resumed>>
  PROVE  OnePlace' /\ Due'
  BY Names DEF OnePlace, Due, Waiting, Answered, IInv, TypeOK, PcOK

(* A call leaves its write to the OUT task. *)
LEMMA FateAsync ==
  ASSUME IInv, OnePlace, Due, NEW w \in Writers, pc[Call(w)] \notin {"done", "unref_queued"},
         pc' = [pc EXCEPT ![Call(w)] = "done", ![Out(w)] = "armed"], ret' = [ret EXCEPT ![w] = "async"],
         UNCHANGED <<state, pending, instant, resumed>>
  PROVE  OnePlace' /\ Due'
  BY Names DEF OnePlace, Due, Waiting, Answered, IInv, TypeOK, PcOK

(* A write that ends makes the first of the list the next. *)
LEMMA FateNext ==
  ASSUME IInv, OnePlace, Due, NEW p \in Senders, NEW h \in Writers,
         pc[p] = "complete", h \in Waiting, h # p[2], pc[Out(h)] = "off", pc[Call(h)] \in {"done", "unref_queued"},
         state = "WRITING", state' = state, instant' = instant, Answer(p, "ok"),
         Waiting' = Waiting \ {h},
         \A i, j \in DOMAIN pending' : pending'[i] = pending'[j] => i = j,
         pc' = [pc EXCEPT ![p] = End(p), ![Out(h)] = "task"]
  PROVE  OnePlace' /\ Due'
<1>1. CASE p = Call(p[2])
  BY <1>1, Names DEF OnePlace, Due, Answer, End, Answered, IInv, TypeOK, PcOK
<1>2. CASE p = Out(p[2])
  BY <1>2, Names DEF OnePlace, Due, Answer, End, Answered, IInv, TypeOK, PcOK
<1> QED
  BY <1>1, <1>2, Names

(* Only the writer that created the connection becomes the instant one. *)
LEMMA InstantStep == IInv /\ InstantOnce /\ Next => InstantOnce'
<1> SUFFICES ASSUME IInv, InstantOnce, Next PROVE InstantOnce'
  OBVIOUS
<1>1. ASSUME Accept PROVE InstantOnce'
  BY <1>1, Names DEF Accept, InstantOnce, IInv, Exclusive, Owner, Fresh, TypeOK, PcOK, Goto, End, out, SetTerm, CreateConn, Unrefs
<1>2. ASSUME InEvent PROVE InstantOnce'
  BY <1>2, Names DEF InEvent, InstantOnce, IInv, Exclusive, Owner, Fresh, TypeOK, PcOK, Goto, End, out, SetTerm, CreateConn, Unrefs
<1>3. ASSUME TimerScan PROVE InstantOnce'
  BY <1>3, Names DEF TimerScan, InstantOnce, IInv, Exclusive, Owner, Fresh, TypeOK, PcOK, Goto, End, out, SetTerm, CreateConn, Unrefs
<1>4. ASSUME NEW w \in Writers, Search(w) PROVE InstantOnce'
  BY <1>4, Names DEF Search, InstantOnce, IInv, Exclusive, Owner, Fresh, TypeOK, PcOK, Goto, End, out, SetTerm, CreateConn, Unrefs
<1>5. ASSUME NEW w \in Writers, Match(w) PROVE InstantOnce'
  BY <1>5, Names DEF Match, IpLockFree, InstantOnce, IInv, Exclusive, Owner, Fresh, TypeOK, PcOK, Goto, End, out, SetTerm, CreateConn, Unrefs
<1>6. ASSUME NEW w \in Writers, SearchFails(w) PROVE InstantOnce'
  BY <1>6, Names DEF SearchFails, InstantOnce, IInv, Exclusive, Owner, Fresh, TypeOK, PcOK, Goto, End, out, SetTerm, CreateConn, Unrefs
<1>7. ASSUME NEW w \in Writers, Create(w) PROVE InstantOnce'
  BY <1>7, Names DEF Create, InstantOnce, IInv, Exclusive, Owner, Fresh, TypeOK, PcOK, Goto, End, out, SetTerm, CreateConn, Unrefs
<1>8. ASSUME NEW w \in Writers, OutEvent(w) PROVE InstantOnce'
  BY <1>8, Names DEF OutEvent, InstantOnce, IInv, Exclusive, Owner, Fresh, TypeOK, PcOK, Goto, End, out, SetTerm, CreateConn, Unrefs
<1>9. ASSUME SubmitIn PROVE InstantOnce'
  BY <1>9, Names DEF SubmitIn, InstantOnce, IInv, Exclusive, Owner, Fresh, TypeOK, PcOK, Goto, End, out, SetTerm, CreateConn, Unrefs
<1>10. ASSUME ReadStart PROVE InstantOnce'
  BY <1>10, Names DEF ReadStart, InstantOnce, IInv, Exclusive, Owner, Fresh, TypeOK, PcOK, Goto, End, out, SetTerm, CreateConn, Unrefs
<1>11. ASSUME ReadResult PROVE InstantOnce'
  BY <1>11, Names DEF ReadResult, InstantOnce, IInv, Exclusive, Owner, Fresh, TypeOK, PcOK, Goto, End, out, SetTerm, CreateConn, Unrefs
<1>12. ASSUME Resubmit PROVE InstantOnce'
  BY <1>12, Names DEF Resubmit, InstantOnce, IInv, Exclusive, Owner, Fresh, TypeOK, PcOK, Goto, End, out, SetTerm, CreateConn, Unrefs
<1>13. ASSUME Terminate PROVE InstantOnce'
  BY <1>13, Names DEF Terminate, InstantOnce, IInv, Exclusive, Owner, Fresh, TypeOK, PcOK, Goto, End, out, SetTerm, CreateConn, Unrefs
<1>14. ASSUME TimerTerm PROVE InstantOnce'
  BY <1>14, Names DEF TimerTerm, InstantOnce, IInv, Exclusive, Owner, Fresh, TypeOK, PcOK, Goto, End, out, SetTerm, CreateConn, Unrefs
<1>15. ASSUME TimerFire PROVE InstantOnce'
  BY <1>15, Names DEF TimerFire, InstantOnce, IInv, Exclusive, Owner, Fresh, TypeOK, PcOK, Goto, End, out, SetTerm, CreateConn, Unrefs
<1>16. ASSUME NEW w \in Writers, SetWriting(w) PROVE InstantOnce'
  <2>1. state \in {"READY", "WRITING", "TERM"} /\ state' # "NONE" /\ instant' = instant
    BY <1>16, Names DEF SetWriting, IInv, Fresh, TypeOK
  <2>2. PICK x \in {"send", "unref_queued", "unref_fail"} : pc' = [pc EXCEPT ![Call(w)] = x]
    BY <1>16, <2>1 DEF SetWriting, Goto
  <2> QED
    BY <2>1, <2>2, Names DEF InstantOnce, IInv, TypeOK, PcOK
<1>17. ASSUME NEW w \in Writers, Connect(w) PROVE InstantOnce'
  <2>1. pc[Call(w)] = "created" /\ state' = state /\ instant = Nobody
    BY <1>17 DEF Connect, InstantOnce
  <2>2. state # "NONE" /\ \A v \in Writers : pc[Call(v)] = "created" => v = w
    BY <2>1, Names DEF IInv, Fresh, Exclusive, Owner
  <2>3. pc'[Call(w)] # "created" /\ \A v \in Writers : v # w => pc'[Call(v)] = pc[Call(v)]
    BY <1>17, Names DEF Connect, Goto, IInv, TypeOK, PcOK
  <2> QED
    BY <2>1, <2>2, <2>3 DEF InstantOnce
<1>18. ASSUME NEW w \in Writers, OutStart(w) PROVE InstantOnce'
  BY <1>18, Names DEF OutStart, InstantOnce, IInv, Exclusive, Owner, Fresh, TypeOK, PcOK, Goto, End, out, SetTerm, CreateConn, Unrefs
<1>19. ASSUME NEW w \in Writers, ConnectAgain(w) PROVE InstantOnce'
  BY <1>19, Names DEF ConnectAgain, InstantOnce, IInv, Exclusive, Owner, Fresh, TypeOK, PcOK, Goto, End, out, SetTerm, CreateConn, Unrefs
<1>20. ASSUME NEW w \in Writers, ConnectOk(w) PROVE InstantOnce'
  BY <1>20, Names DEF ConnectOk, InstantOnce, IInv, Exclusive, Owner, Fresh, TypeOK, PcOK, Goto, End, out, SetTerm, CreateConn, Unrefs
<1>21. ASSUME NEW w \in Writers, ConnectFails(w) PROVE InstantOnce'
  BY <1>21, Names DEF ConnectFails, InstantOnce, IInv, Exclusive, Owner, Fresh, TypeOK, PcOK, Goto, End, out, SetTerm, CreateConn, Unrefs
<1>22. ASSUME NEW p \in Senders, SendStart(p) PROVE InstantOnce'
  BY <1>22, Names DEF SendStart, InstantOnce, IInv, Exclusive, Owner, Fresh, TypeOK, PcOK, Goto, End, out, SetTerm, CreateConn, Unrefs
<1>23. ASSUME NEW p \in Senders, SendResult(p) PROVE InstantOnce'
  BY <1>23, Names DEF SendResult, InstantOnce, IInv, Exclusive, Owner, Fresh, TypeOK, PcOK, Goto, End, out, SetTerm, CreateConn, Unrefs
<1>24. ASSUME NEW p \in Senders, Block(p) PROVE InstantOnce'
  BY <1>24, Names DEF Block, InstantOnce, IInv, Exclusive, Owner, Fresh, TypeOK, PcOK, Goto, End, out, SetTerm, CreateConn, Unrefs
<1>25. ASSUME NEW p \in Senders, Complete(p) PROVE InstantOnce'
  BY <1>25, Names DEF Complete, InstantOnce, IInv, Exclusive, Owner, Fresh, TypeOK, PcOK, Goto, End, out, SetTerm, CreateConn, Unrefs
<1>26. ASSUME NEW p \in Senders, SendError(p) PROVE InstantOnce'
  BY <1>26, Names DEF SendError, InstantOnce, IInv, Exclusive, Owner, Fresh, TypeOK, PcOK, Goto, End, out, SetTerm, CreateConn, Unrefs
<1>27. ASSUME NEW p \in Senders, FireIn(p) PROVE InstantOnce'
  BY <1>27, Names DEF FireIn, InstantOnce, IInv, Exclusive, Owner, Fresh, TypeOK, PcOK, Goto, End, out, SetTerm, CreateConn, Unrefs
<1>28. ASSUME NEW p \in Procs, Unref(p) PROVE InstantOnce'
  BY <1>28, Names DEF Unref, InstantOnce, IInv, Exclusive, Owner, Fresh, TypeOK, PcOK, Goto, End, out, SetTerm, CreateConn, Unrefs
<1>29. ASSUME NEW p \in Procs, Unlink(p) PROVE InstantOnce'
  BY <1>29, Names DEF Unlink, InstantOnce, IInv, Exclusive, Owner, Fresh, TypeOK, PcOK, Goto, End, out, SetTerm, CreateConn, Unrefs
<1>30. ASSUME NEW p \in Procs, RemoveEnd(p) PROVE InstantOnce'
  BY <1>30, Names DEF RemoveEnd, IpLockFree, InstantOnce, IInv, Exclusive, Owner, Fresh, TypeOK, PcOK, Goto, End, out, SetTerm, CreateConn, Unrefs
<1>31. ASSUME NEW p \in Procs, Unlock(p) PROVE InstantOnce'
  BY <1>31, Names DEF Unlock, InstantOnce, IInv, Exclusive, Owner, Fresh, TypeOK, PcOK, Goto, End, out, SetTerm, CreateConn, Unrefs
<1>32. ASSUME NEW x \in {"in", "out"}, HandleFire(x) PROVE InstantOnce'
  BY <1>32, Names DEF HandleFire, InstantOnce, IInv, Exclusive, Owner, Fresh, TypeOK, PcOK, Goto, End, out, SetTerm, CreateConn, Unrefs
<1> QED
  BY <1>1, <1>2, <1>3, <1>4, <1>5, <1>6, <1>7, <1>8, <1>9, <1>10, <1>11, <1>12, <1>13, <1>14, <1>15, <1>16, <1>17, <1>18, <1>19, <1>20, <1>21, <1>22, <1>23, <1>24, <1>25, <1>26, <1>27, <1>28, <1>29, <1>30, <1>31, <1>32
     DEF Next, Environment, Reader, Timer, Write, Resume, Send, Common

(* A write stays in one place and is answered there. *)
LEMMA FateStep == IInv /\ InstantOnce /\ OnePlace /\ Due /\ Next => (OnePlace' /\ Due')
<1> SUFFICES ASSUME IInv, InstantOnce, OnePlace, Due, Next PROVE (OnePlace' /\ Due')
  OBVIOUS
<1>1. ASSUME Accept PROVE (OnePlace' /\ Due')
  <2>1. pending = <<>>
    BY <1>1 DEF OnePlace, Accept, CreateConn
  <2> QED
    BY <1>1, <2>1, Names, FateSame DEF Accept, IInv, TypeOK, PcOK, Goto, out, told, CreateConn
<1>2. ASSUME InEvent PROVE (OnePlace' /\ Due')
  BY <1>2, Names, FateSame DEF InEvent, IInv, TypeOK, PcOK, Goto, End, out, told, CreateConn, Unrefs
<1>3. ASSUME TimerScan PROVE (OnePlace' /\ Due')
  BY <1>3, Names, FateSame DEF TimerScan, IInv, TypeOK, PcOK, Goto, End, out, told, CreateConn, Unrefs
<1>4. ASSUME NEW w \in Writers, Search(w) PROVE (OnePlace' /\ Due')
  BY <1>4, Names, FateSame DEF Search, IInv, TypeOK, PcOK, Goto, End, out, told, CreateConn, Unrefs
<1>5. ASSUME NEW w \in Writers, Match(w) PROVE (OnePlace' /\ Due')
  BY <1>5, Names, FateSame DEF Match, IpLockFree, IInv, TypeOK, PcOK, Goto, End, out, told, CreateConn, Unrefs
<1>6. ASSUME NEW w \in Writers, SearchFails(w) PROVE (OnePlace' /\ Due')
  <2>1. /\ pc' = [pc EXCEPT ![Call(w)] = "done"] /\ ret' = [ret EXCEPT ![w] = "elsewhere"]
        /\ pc[Call(w)] = "start" /\ UNCHANGED <<state, pending, instant, resumed>>
    BY <1>6 DEF SearchFails, Goto, Return, out
  <2> QED
    BY <2>1, Names, FateDone DEF IInv, TypeOK, PcOK, Answered
<1>7. ASSUME NEW w \in Writers, Create(w) PROVE (OnePlace' /\ Due')
  <2>1. pending = <<>>
    BY <1>7 DEF OnePlace, Create, CreateConn
  <2> QED
    BY <1>7, <2>1, Names, FateSame DEF Create, IInv, TypeOK, PcOK, Goto, out, told, CreateConn
<1>8. ASSUME NEW w \in Writers, OutEvent(w) PROVE (OnePlace' /\ Due')
  BY <1>8, Names, FateSame DEF OutEvent, IInv, TypeOK, PcOK, Goto, End, out, told, CreateConn, Unrefs
<1>9. ASSUME SubmitIn PROVE (OnePlace' /\ Due')
  BY <1>9, Names, FateSame DEF SubmitIn, IInv, TypeOK, PcOK, Goto, End, out, told, CreateConn, Unrefs
<1>10. ASSUME ReadStart PROVE (OnePlace' /\ Due')
  BY <1>10, Names, FateSame DEF ReadStart, IInv, TypeOK, PcOK, Goto, End, out, told, CreateConn, Unrefs
<1>11. ASSUME ReadResult PROVE (OnePlace' /\ Due')
  BY <1>11, Names, FateSame DEF ReadResult, IInv, TypeOK, PcOK, Goto, End, out, told, CreateConn, Unrefs
<1>12. ASSUME Resubmit PROVE (OnePlace' /\ Due')
  BY <1>12, Names, FateSame DEF Resubmit, IInv, TypeOK, PcOK, Goto, End, out, told, CreateConn, Unrefs
<1>13. ASSUME Terminate PROVE (OnePlace' /\ Due')
  BY <1>13, Names, FateTerm DEF Terminate, IInv, TypeOK, PcOK, Goto, out
<1>14. ASSUME TimerTerm PROVE (OnePlace' /\ Due')
  BY <1>14, Names, FateTerm DEF TimerTerm, IInv, TypeOK, PcOK, Goto, out
<1>15. ASSUME TimerFire PROVE (OnePlace' /\ Due')
  BY <1>15, Names, FateSame DEF TimerFire, IInv, TypeOK, PcOK, Goto, End, out, told, CreateConn, Unrefs
<1>16. ASSUME NEW w \in Writers, SetWriting(w) PROVE (OnePlace' /\ Due')
  <2>1. /\ pc[Call(w)] = "found" /\ UNCHANGED <<instant, told>> /\ state' \in {state, "WRITING"}
        /\ state \in {"READY", "WRITING", "TERM"}
    BY <1>16, Names DEF SetWriting, IInv, Fresh, TypeOK, told
  <2>2. CASE state = "WRITING" /\ pending' = Append(pending, w) /\ Goto(Call(w), "unref_queued")
    <3>1. /\ Waiting' = Waiting \union {w} /\ w \notin Waiting /\ pending' # <<>>
          /\ \A i, j \in DOMAIN pending' : pending'[i] = pending'[j] => i = j
      <4>1. w \notin Elements(pending) /\ \A i, j \in DOMAIN pending : pending[i] = pending[j] => i = j
        BY <2>1 DEF OnePlace, Waiting
      <4>2. pending \in Seq(Writers)
        BY DEF IInv, TypeOK
      <4> QED
        BY <2>2, <4>1, <4>2, WaitingAppend DEF Waiting
    <3> QED
      BY <1>16, <2>1, <2>2, <3>1, Names DEF SetWriting, OnePlace, Due, Goto, IInv, TypeOK, PcOK, told, Answered
  <2>3. CASE pending' = pending /\ (Goto(Call(w), "send") \/ Goto(Call(w), "unref_fail"))
    <3>1. pending # <<>> => state' = state
      BY <1>16, <2>1 DEF SetWriting, OnePlace
    <3> QED
      BY <2>1, <2>3, <3>1, Names, FateSame DEF Goto, IInv, TypeOK, PcOK, told
  <2> QED
    BY <1>16, <2>1, <2>2, <2>3 DEF SetWriting
<1>17. ASSUME NEW w \in Writers, Connect(w) PROVE (OnePlace' /\ Due')
  <2>1. pc[Call(w)] = "created" /\ UNCHANGED <<state, pending, resumed>> /\ instant' \in {instant, w}
    BY <1>17 DEF Connect
  <2>2. CASE pc' = [pc EXCEPT ![Call(w)] = "done", ![Out(w)] = "armed"] /\ Return(w, "async") /\ instant' = instant
    BY <2>1, <2>2, Names, FateAsync DEF Return
  <2>3. CASE (Goto(Call(w), "send") \/ Goto(Call(w), "drop")) /\ ret' = ret
    <3>1. PICK x \in {"send", "drop"} : pc' = [pc EXCEPT ![Call(w)] = x]
      BY <2>3 DEF Goto
    <3>2. \A v \in Writers : pc'[Out(v)] = pc[Out(v)] /\ pc'[Call(v)] = IF v = w THEN x ELSE pc[Call(v)]
      BY <3>1, Names DEF IInv, TypeOK, PcOK
    <3>3. instant \notin Writers
      BY <2>1, TcpAssumption DEF InstantOnce
    <3>4. ret[w] = "none" /\ resumed[w] = 0 /\ pc[Out(w)] = "off" /\ w \notin Waiting
      BY <2>1 DEF OnePlace
    <3>5. Waiting' = Waiting
      BY <2>1 DEF Waiting
    <3>6. OnePlace'
      BY <2>1, <2>3, <3>2, <3>5 DEF OnePlace
    <3> QED
      BY <2>1, <2>3, <3>2, <3>3, <3>4, <3>5, <3>6 DEF Due, Answered
  <2> QED
    BY <1>17, <2>1, <2>2, <2>3 DEF Connect
<1>18. ASSUME NEW w \in Writers, OutStart(w) PROVE (OnePlace' /\ Due')
  BY <1>18, Names, FateSame DEF OutStart, IInv, TypeOK, PcOK, Goto, End, out, told, CreateConn, Unrefs
<1>19. ASSUME NEW w \in Writers, ConnectAgain(w) PROVE (OnePlace' /\ Due')
  BY <1>19, Names, FateSame DEF ConnectAgain, IInv, TypeOK, PcOK, Goto, End, out, told, CreateConn, Unrefs
<1>20. ASSUME NEW w \in Writers, ConnectOk(w) PROVE (OnePlace' /\ Due')
  BY <1>20, Names, FateSame DEF ConnectOk, IInv, TypeOK, PcOK, Goto, End, out, told, CreateConn, Unrefs
<1>21. ASSUME NEW w \in Writers, ConnectFails(w) PROVE (OnePlace' /\ Due')
  BY <1>21, Names, FateTerm DEF ConnectFails, IInv, TypeOK, PcOK, Goto, out
<1>22. ASSUME NEW p \in Senders, SendStart(p) PROVE (OnePlace' /\ Due')
  BY <1>22, Names, FateSame DEF SendStart, IInv, TypeOK, PcOK, Goto, End, out, told, CreateConn, Unrefs
<1>23. ASSUME NEW p \in Senders, SendResult(p) PROVE (OnePlace' /\ Due')
  BY <1>23, Names, FateSame DEF SendResult, IInv, TypeOK, PcOK, Goto, End, out, told, CreateConn, Unrefs
<1>24. ASSUME NEW p \in Senders, Block(p) PROVE (OnePlace' /\ Due')
  <2>1. pc[p] = "block" /\ UNCHANGED <<state, pending, instant, resumed>>
    BY <1>24 DEF Block
  <2>2. CASE Goto(p, "unref_fail") /\ ret' = ret
    BY <2>1, <2>2, Names, FateSame DEF Goto, IInv, TypeOK, PcOK
  <2>3. CASE p = Call(p[2]) /\ state # "TERM"
    BY <1>24, <2>1, <2>3, Names, FateAsync DEF Block, Return, End
  <2>4. CASE p = Out(p[2]) /\ state # "TERM"
    BY <1>24, <2>1, <2>4, Names, FateSame DEF Block, End, IInv, TypeOK, PcOK
  <2> QED
    BY <1>24, <2>2, <2>3, <2>4, Names DEF Block
<1>25. ASSUME NEW p \in Senders, Complete(p) PROVE (OnePlace' /\ Due')
  <2>1. pc[p] = "complete" /\ instant' = instant
    BY <1>25 DEF Complete
  <2>2. CASE state = "WRITING" /\ pending # <<>>
    <3> DEFINE h == Head(pending)
    <3>1. /\ state' = state /\ pending' = Tail(pending) /\ Answer(p, "ok")
          /\ pc' = [pc EXCEPT ![p] = End(p), ![Out(h)] = "task"]
      BY <1>25, <2>2 DEF Complete
    <3>2. /\ h \in Writers /\ h \in Waiting /\ Waiting' = Waiting \ {h}
          /\ \A i, j \in DOMAIN pending' : pending'[i] = pending'[j] => i = j
      <4>1. \A i, j \in DOMAIN pending : pending[i] = pending[j] => i = j
        BY DEF OnePlace
      <4>2. pending \in Seq(Writers)
        BY DEF IInv, TypeOK
      <4>3. /\ h \in Writers /\ h \in Elements(pending)
            /\ Elements(pending') = Elements(pending) \ {h}
            /\ \A i, j \in DOMAIN pending' : pending'[i] = pending'[j] => i = j
        BY <2>2, <3>1, <4>1, <4>2, WaitingTail
      <4> QED
        BY <4>3 DEF Waiting
    <3>3. h # p[2] /\ p[2] \in Writers /\ pc[Out(h)] = "off" /\ pc[Call(h)] \in {"done", "unref_queued"}
      BY <2>1, <3>2, Names DEF OnePlace
    <3> QED
      BY <2>1, <2>2, <3>1, <3>2, <3>3, FateNext
  <2>3. CASE ~ (state = "WRITING" /\ pending # <<>>)
    BY <1>25, <2>1, <2>3, Names, FateSame DEF Complete, Goto, IInv, TypeOK, PcOK, told
  <2> QED
    BY <2>2, <2>3
<1>26. ASSUME NEW p \in Senders, SendError(p) PROVE (OnePlace' /\ Due')
  <2>1. CASE state = "TERM"
    BY <1>26, <2>1, FateAnswer DEF SendError, Goto, out
  <2>2. CASE state # "TERM"
    BY <1>26, <2>2, Names, FateTerm DEF SendError, Goto, out, IInv, TypeOK, PcOK
  <2> QED
    BY <2>1, <2>2
<1>27. ASSUME NEW p \in Senders, FireIn(p) PROVE (OnePlace' /\ Due')
  BY <1>27, FateAnswer DEF FireIn, Goto, out
<1>28. ASSUME NEW p \in Procs, Unref(p) PROVE (OnePlace' /\ Due')
  <2>1. UNCHANGED <<state, pending, instant>>
    BY <1>28 DEF Unref, out
  <2>2. CASE pc[p] \in {"unref_ok", "unref_fail"}
    <3>1. p \in Senders
      BY <2>2, Names DEF IInv, TypeOK, PcOK, ReaderSteps, TimerSteps
    <3>2. (Answer(p, "ok") \/ Answer(p, "fail")) /\ pc' = [pc EXCEPT ![p] = End(p)]
      BY <1>28, <2>2 DEF Unref, Goto
    <3> QED
      BY <2>1, <2>2, <3>1, <3>2, FateAnswer
  <2>3. CASE pc[p] = "unref_queued"
    <3>1. PICK w \in Writers : p = Call(w)
      <4>1. p # reader /\ p # timer /\ \A v \in Writers : p # Out(v)
        BY <2>3 DEF IInv, TypeOK, PcOK, ReaderSteps, TimerSteps, OutSteps, SendSteps
      <4> QED
        BY <4>1, Names
    <3>2. /\ pc' = [pc EXCEPT ![Call(w)] = "done"] /\ ret' = [ret EXCEPT ![w] = "async"] /\ resumed' = resumed
      BY <1>28, <2>3, <3>1, Names DEF Unref, Goto, Return, End
    <3> QED
      BY <2>1, <2>3, <3>1, <3>2, Names, FateDone DEF Answered
  <2>4. CASE pc[p] \notin {"unref_ok", "unref_fail", "unref_queued"}
    BY <1>28, <2>1, <2>4, Names, FateSame DEF Unref, Unrefs, Goto, End, told, IInv, TypeOK, PcOK
  <2> QED
    BY <2>2, <2>3, <2>4
<1>29. ASSUME NEW p \in Procs, Unlink(p) PROVE (OnePlace' /\ Due')
  BY <1>29, Names, FateSame DEF Unlink, IInv, TypeOK, PcOK, Goto, End, out, told, CreateConn, Unrefs
<1>30. ASSUME NEW p \in Procs, RemoveEnd(p) PROVE (OnePlace' /\ Due')
  <2>1. CASE pc[p] = "dropped"
    <3>1. p \in Senders
      BY <2>1, Names DEF IInv, TypeOK, PcOK, ReaderSteps, TimerSteps
    <3> QED
      BY <1>30, <2>1, <3>1, FateAnswer DEF RemoveEnd, Goto, out
  <2>2. CASE pc[p] = "unlinked"
    BY <1>30, <2>2, Names, FateSame DEF RemoveEnd, Goto, End, out, told, IInv, TypeOK, PcOK
  <2> QED
    BY <1>30, <2>1, <2>2 DEF RemoveEnd
<1>31. ASSUME NEW p \in Procs, Unlock(p) PROVE (OnePlace' /\ Due')
  BY <1>31, Names, FateSame DEF Unlock, IInv, TypeOK, PcOK, Goto, End, out, told, CreateConn, Unrefs
<1>32. ASSUME NEW x \in {"in", "out"}, HandleFire(x) PROVE (OnePlace' /\ Due')
  BY <1>32, Names, FateSame DEF HandleFire, IInv, TypeOK, PcOK, Goto, End, out, told, CreateConn, Unrefs
<1> QED
  BY <1>1, <1>2, <1>3, <1>4, <1>5, <1>6, <1>7, <1>8, <1>9, <1>10, <1>11, <1>12, <1>13, <1>14, <1>15, <1>16, <1>17, <1>18, <1>19, <1>20, <1>21, <1>22, <1>23, <1>24, <1>25, <1>26, <1>27, <1>28, <1>29, <1>30, <1>31, <1>32
     DEF Next, Environment, Reader, Timer, Write, Resume, Send, Common

-----------------------------------------------------------------------------
(* Removal *)

(* What SetWriting does in each state of the connection. *)
LEMMA WritingMoves ==
  ASSUME IInv, NEW w \in Writers, SetWriting(w)
  PROVE  /\ pc[Call(w)] = "found" /\ told' = told /\ UNCHANGED <<links, freed, connecting, instant>>
         /\ state \in {"READY", "WRITING", "TERM"}
         /\ state' = IF state = "READY" THEN "WRITING" ELSE state
         /\ \E x \in {"send", "unref_queued", "unref_fail"} : pc' = [pc EXCEPT ![Call(w)] = x]
<1>1. state \in {"READY", "WRITING", "TERM"}
  BY Names DEF SetWriting, IInv, Fresh, TypeOK
<1>2. CASE state = "READY"
  BY <1>2 DEF SetWriting, Goto, told, mem
<1>3. CASE state = "WRITING"
  BY <1>3 DEF SetWriting, Goto, told, mem
<1>4. CASE state = "TERM"
  BY <1>4 DEF SetWriting, Goto, told, mem
<1> QED
  BY <1>1, <1>2, <1>3, <1>4 DEF SetWriting

(* Who gives these references up. *)
LEMMA WhoEnds ==
  ASSUME IInv, NEW p \in Procs
  PROVE  /\ pc[p] \in {"unref_ok", "unref_fail", "drop", "dropped"} => p \in Senders
         /\ pc[p] = "unref_queued" => p \in Senders /\ p = Call(p[2])
         /\ pc[p] = "unref_lost" => p \in Senders /\ p = Out(p[2])
<1>1. /\ pc[p] \in {"unref_ok", "unref_fail", "unref_queued", "unref_lost", "drop", "dropped"} => p # reader /\ p # timer
      /\ pc[p] = "unref_queued" => \A v \in Writers : p # Out(v)
      /\ pc[p] = "unref_lost" => \A v \in Writers : p # Call(v)
  BY DEF IInv, TypeOK, PcOK, ReaderSteps, TimerSteps, OutSteps, CallSteps, SendSteps
<1> QED
  BY <1>1, Names

(* An answer takes nothing back. *)
LEMMA AnswerAdds ==
  ASSUME IInv, OnePlace, NEW p \in Senders, NEW n, Answer(p, n), pc[p] \notin {"off", "done"}
  PROVE  \A u \in Writers : (ret[u] # "none" => ret'[u] = ret[u]) /\ resumed'[u] >= resumed[u]
<1>1. p[1] = "out" \/ ret[p[2]] = "none"
  BY Names DEF OnePlace
<1> QED
  BY <1>1, Names DEF Answer, IInv, TypeOK

(* Nor does the end of the connection. *)
LEMMA TermAdds ==
  ASSUME IInv, SetTerm
  PROVE  \A u \in Writers : resumed'[u] >= resumed[u]
  BY DEF SetTerm, IInv, TypeOK

(* What a context has heard stays said. *)
LEMMA HeardStep == IInv /\ OnePlace /\ Next => (\A u \in Writers : (ret[u] # "none" => ret'[u] = ret[u]) /\ resumed'[u] >= resumed[u])
<1> SUFFICES ASSUME IInv, OnePlace, Next PROVE (\A u \in Writers : (ret[u] # "none" => ret'[u] = ret[u]) /\ resumed'[u] >= resumed[u])
  OBVIOUS
<1>1. ASSUME Accept PROVE (\A u \in Writers : (ret[u] # "none" => ret'[u] = ret[u]) /\ resumed'[u] >= resumed[u])
  BY <1>1 DEF Accept, CreateConn, told, IInv, TypeOK
<1>2. ASSUME InEvent PROVE (\A u \in Writers : (ret[u] # "none" => ret'[u] = ret[u]) /\ resumed'[u] >= resumed[u])
  BY <1>2, Names DEF InEvent, OnePlace, Return, told, out, IInv, TypeOK, PcOK
<1>3. ASSUME TimerScan PROVE (\A u \in Writers : (ret[u] # "none" => ret'[u] = ret[u]) /\ resumed'[u] >= resumed[u])
  BY <1>3, Names DEF TimerScan, OnePlace, Return, told, out, IInv, TypeOK, PcOK
<1>4. ASSUME NEW w \in Writers, Search(w) PROVE (\A u \in Writers : (ret[u] # "none" => ret'[u] = ret[u]) /\ resumed'[u] >= resumed[u])
  BY <1>4, Names DEF Search, OnePlace, Return, told, out, IInv, TypeOK, PcOK
<1>5. ASSUME NEW w \in Writers, Match(w) PROVE (\A u \in Writers : (ret[u] # "none" => ret'[u] = ret[u]) /\ resumed'[u] >= resumed[u])
  BY <1>5, Names DEF Match, IpLockFree, OnePlace, Return, told, out, IInv, TypeOK, PcOK
<1>6. ASSUME NEW w \in Writers, SearchFails(w) PROVE (\A u \in Writers : (ret[u] # "none" => ret'[u] = ret[u]) /\ resumed'[u] >= resumed[u])
  BY <1>6, Names DEF SearchFails, OnePlace, Return, told, out, IInv, TypeOK, PcOK
<1>7. ASSUME NEW w \in Writers, Create(w) PROVE (\A u \in Writers : (ret[u] # "none" => ret'[u] = ret[u]) /\ resumed'[u] >= resumed[u])
  BY <1>7 DEF Create, CreateConn, told, IInv, TypeOK
<1>8. ASSUME NEW w \in Writers, OutEvent(w) PROVE (\A u \in Writers : (ret[u] # "none" => ret'[u] = ret[u]) /\ resumed'[u] >= resumed[u])
  BY <1>8, Names DEF OutEvent, OnePlace, Return, told, out, IInv, TypeOK, PcOK
<1>9. ASSUME SubmitIn PROVE (\A u \in Writers : (ret[u] # "none" => ret'[u] = ret[u]) /\ resumed'[u] >= resumed[u])
  BY <1>9, Names DEF SubmitIn, OnePlace, Return, told, out, IInv, TypeOK, PcOK
<1>10. ASSUME ReadStart PROVE (\A u \in Writers : (ret[u] # "none" => ret'[u] = ret[u]) /\ resumed'[u] >= resumed[u])
  BY <1>10, Names DEF ReadStart, OnePlace, Return, told, out, IInv, TypeOK, PcOK
<1>11. ASSUME ReadResult PROVE (\A u \in Writers : (ret[u] # "none" => ret'[u] = ret[u]) /\ resumed'[u] >= resumed[u])
  BY <1>11, Names DEF ReadResult, OnePlace, Return, told, out, IInv, TypeOK, PcOK
<1>12. ASSUME Resubmit PROVE (\A u \in Writers : (ret[u] # "none" => ret'[u] = ret[u]) /\ resumed'[u] >= resumed[u])
  BY <1>12, Names DEF Resubmit, OnePlace, Return, told, out, IInv, TypeOK, PcOK
<1>13. ASSUME Terminate PROVE (\A u \in Writers : (ret[u] # "none" => ret'[u] = ret[u]) /\ resumed'[u] >= resumed[u])
  BY <1>13, TermAdds DEF Terminate
<1>14. ASSUME TimerTerm PROVE (\A u \in Writers : (ret[u] # "none" => ret'[u] = ret[u]) /\ resumed'[u] >= resumed[u])
  BY <1>14, TermAdds DEF TimerTerm
<1>15. ASSUME TimerFire PROVE (\A u \in Writers : (ret[u] # "none" => ret'[u] = ret[u]) /\ resumed'[u] >= resumed[u])
  BY <1>15, Names DEF TimerFire, OnePlace, Return, told, out, IInv, TypeOK, PcOK
<1>16. ASSUME NEW w \in Writers, SetWriting(w) PROVE (\A u \in Writers : (ret[u] # "none" => ret'[u] = ret[u]) /\ resumed'[u] >= resumed[u])
  BY <1>16, WritingMoves DEF told, IInv, TypeOK
<1>17. ASSUME NEW w \in Writers, Connect(w) PROVE (\A u \in Writers : (ret[u] # "none" => ret'[u] = ret[u]) /\ resumed'[u] >= resumed[u])
  BY <1>17, Names DEF Connect, OnePlace, Return, told, out, IInv, TypeOK, PcOK
<1>18. ASSUME NEW w \in Writers, OutStart(w) PROVE (\A u \in Writers : (ret[u] # "none" => ret'[u] = ret[u]) /\ resumed'[u] >= resumed[u])
  BY <1>18, Names DEF OutStart, OnePlace, Return, told, out, IInv, TypeOK, PcOK
<1>19. ASSUME NEW w \in Writers, ConnectAgain(w) PROVE (\A u \in Writers : (ret[u] # "none" => ret'[u] = ret[u]) /\ resumed'[u] >= resumed[u])
  BY <1>19, Names DEF ConnectAgain, OnePlace, Return, told, out, IInv, TypeOK, PcOK
<1>20. ASSUME NEW w \in Writers, ConnectOk(w) PROVE (\A u \in Writers : (ret[u] # "none" => ret'[u] = ret[u]) /\ resumed'[u] >= resumed[u])
  BY <1>20, Names DEF ConnectOk, OnePlace, Return, told, out, IInv, TypeOK, PcOK
<1>21. ASSUME NEW w \in Writers, ConnectFails(w) PROVE (\A u \in Writers : (ret[u] # "none" => ret'[u] = ret[u]) /\ resumed'[u] >= resumed[u])
  BY <1>21, TermAdds DEF ConnectFails
<1>22. ASSUME NEW p \in Senders, SendStart(p) PROVE (\A u \in Writers : (ret[u] # "none" => ret'[u] = ret[u]) /\ resumed'[u] >= resumed[u])
  BY <1>22, Names DEF SendStart, OnePlace, Return, told, out, IInv, TypeOK, PcOK
<1>23. ASSUME NEW p \in Senders, SendResult(p) PROVE (\A u \in Writers : (ret[u] # "none" => ret'[u] = ret[u]) /\ resumed'[u] >= resumed[u])
  BY <1>23, Names DEF SendResult, OnePlace, Return, told, out, IInv, TypeOK, PcOK
<1>24. ASSUME NEW p \in Senders, Block(p) PROVE (\A u \in Writers : (ret[u] # "none" => ret'[u] = ret[u]) /\ resumed'[u] >= resumed[u])
  <2>1. pc[p] = "block" /\ resumed' = resumed
    BY <1>24 DEF Block
  <2>2. ret' = ret \/ (p = Call(p[2]) /\ Return(p[2], "async"))
    BY <1>24, Names DEF Block
  <2> QED
    BY <2>1, <2>2, Names DEF OnePlace, Return, IInv, TypeOK
<1>25. ASSUME NEW p \in Senders, Complete(p) PROVE (\A u \in Writers : (ret[u] # "none" => ret'[u] = ret[u]) /\ resumed'[u] >= resumed[u])
  <2>1. told' = told \/ (Answer(p, "ok") /\ pc[p] = "complete")
    BY <1>25 DEF Complete, told
  <2> QED
    BY <2>1, AnswerAdds DEF told, IInv, TypeOK
<1>26. ASSUME NEW p \in Senders, SendError(p) PROVE (\A u \in Writers : (ret[u] # "none" => ret'[u] = ret[u]) /\ resumed'[u] >= resumed[u])
  <2>1. (Answer(p, "fail") \/ (SetTerm /\ ret' = ret)) /\ pc[p] = "error"
    BY <1>26 DEF SendError
  <2> QED
    BY <2>1, AnswerAdds, TermAdds
<1>27. ASSUME NEW p \in Senders, FireIn(p) PROVE (\A u \in Writers : (ret[u] # "none" => ret'[u] = ret[u]) /\ resumed'[u] >= resumed[u])
  BY <1>27, AnswerAdds DEF FireIn
<1>28. ASSUME NEW p \in Procs, Unref(p) PROVE (\A u \in Writers : (ret[u] # "none" => ret'[u] = ret[u]) /\ resumed'[u] >= resumed[u])
  <2>1. CASE pc[p] \in {"unref_ok", "unref_fail"}
    BY <1>28, <2>1, WhoEnds, AnswerAdds DEF Unref
  <2>2. CASE pc[p] = "unref_queued"
    BY <1>28, <2>2, WhoEnds, Names DEF Unref, Return, OnePlace, IInv, TypeOK
  <2>3. CASE pc[p] \notin {"unref_ok", "unref_fail", "unref_queued"}
    BY <1>28, <2>3 DEF Unref, told, IInv, TypeOK
  <2> QED
    BY <2>1, <2>2, <2>3
<1>29. ASSUME NEW p \in Procs, Unlink(p) PROVE (\A u \in Writers : (ret[u] # "none" => ret'[u] = ret[u]) /\ resumed'[u] >= resumed[u])
  BY <1>29, Names DEF Unlink, OnePlace, Return, told, out, IInv, TypeOK, PcOK
<1>30. ASSUME NEW p \in Procs, RemoveEnd(p) PROVE (\A u \in Writers : (ret[u] # "none" => ret'[u] = ret[u]) /\ resumed'[u] >= resumed[u])
  <2>1. CASE pc[p] = "dropped"
    BY <1>30, <2>1, WhoEnds, AnswerAdds DEF RemoveEnd
  <2>2. CASE pc[p] # "dropped"
    BY <1>30, <2>2 DEF RemoveEnd, told, IInv, TypeOK
  <2> QED
    BY <2>1, <2>2
<1>31. ASSUME NEW p \in Procs, Unlock(p) PROVE (\A u \in Writers : (ret[u] # "none" => ret'[u] = ret[u]) /\ resumed'[u] >= resumed[u])
  BY <1>31, Names DEF Unlock, OnePlace, Return, told, out, IInv, TypeOK, PcOK
<1>32. ASSUME NEW x \in {"in", "out"}, HandleFire(x) PROVE (\A u \in Writers : (ret[u] # "none" => ret'[u] = ret[u]) /\ resumed'[u] >= resumed[u])
  BY <1>32, Names DEF HandleFire, OnePlace, Return, told, out, IInv, TypeOK, PcOK
<1> QED
  BY <1>1, <1>2, <1>3, <1>4, <1>5, <1>6, <1>7, <1>8, <1>9, <1>10, <1>11, <1>12, <1>13, <1>14, <1>15, <1>16, <1>17, <1>18, <1>19, <1>20, <1>21, <1>22, <1>23, <1>24, <1>25, <1>26, <1>27, <1>28, <1>29, <1>30, <1>31, <1>32
     DEF Next, Environment, Reader, Timer, Write, Resume, Send, Common

(* A refused connect is dropped in two steps of its thread. *)
LEMMA DropGoes == IInv /\ OnePlace /\ Next => (\A q \in Senders : pc[q] \in Drop => pc'[q] \in Drop \/ (pc[q] = "dropped" /\ RemoveEnd(q)))
<1> SUFFICES ASSUME IInv, OnePlace, Next PROVE (\A q \in Senders : pc[q] \in Drop => pc'[q] \in Drop \/ (pc[q] = "dropped" /\ RemoveEnd(q)))
  OBVIOUS
<1>1. ASSUME Accept PROVE (\A q \in Senders : pc[q] \in Drop => pc'[q] \in Drop \/ (pc[q] = "dropped" /\ RemoveEnd(q)))
  BY <1>1, Names DEF Accept, OnePlace, Drop, Goto, IInv, TypeOK, PcOK, Unrefs
<1>2. ASSUME InEvent PROVE (\A q \in Senders : pc[q] \in Drop => pc'[q] \in Drop \/ (pc[q] = "dropped" /\ RemoveEnd(q)))
  BY <1>2, Names DEF InEvent, OnePlace, Drop, Goto, IInv, TypeOK, PcOK, Unrefs
<1>3. ASSUME TimerScan PROVE (\A q \in Senders : pc[q] \in Drop => pc'[q] \in Drop \/ (pc[q] = "dropped" /\ RemoveEnd(q)))
  BY <1>3, Names DEF TimerScan, OnePlace, Drop, Goto, IInv, TypeOK, PcOK, Unrefs
<1>4. ASSUME NEW w \in Writers, Search(w) PROVE (\A q \in Senders : pc[q] \in Drop => pc'[q] \in Drop \/ (pc[q] = "dropped" /\ RemoveEnd(q)))
  BY <1>4, Names DEF Search, OnePlace, Drop, Goto, IInv, TypeOK, PcOK, Unrefs
<1>5. ASSUME NEW w \in Writers, Match(w) PROVE (\A q \in Senders : pc[q] \in Drop => pc'[q] \in Drop \/ (pc[q] = "dropped" /\ RemoveEnd(q)))
  BY <1>5, Names DEF Match, IpLockFree, OnePlace, Drop, Goto, IInv, TypeOK, PcOK, Unrefs
<1>6. ASSUME NEW w \in Writers, SearchFails(w) PROVE (\A q \in Senders : pc[q] \in Drop => pc'[q] \in Drop \/ (pc[q] = "dropped" /\ RemoveEnd(q)))
  BY <1>6, Names DEF SearchFails, OnePlace, Drop, Goto, IInv, TypeOK, PcOK, Unrefs
<1>7. ASSUME NEW w \in Writers, Create(w) PROVE (\A q \in Senders : pc[q] \in Drop => pc'[q] \in Drop \/ (pc[q] = "dropped" /\ RemoveEnd(q)))
  BY <1>7, Names DEF Create, OnePlace, Drop, Goto, IInv, TypeOK, PcOK, Unrefs
<1>8. ASSUME NEW w \in Writers, OutEvent(w) PROVE (\A q \in Senders : pc[q] \in Drop => pc'[q] \in Drop \/ (pc[q] = "dropped" /\ RemoveEnd(q)))
  BY <1>8, Names DEF OutEvent, OnePlace, Drop, Goto, IInv, TypeOK, PcOK, Unrefs
<1>9. ASSUME SubmitIn PROVE (\A q \in Senders : pc[q] \in Drop => pc'[q] \in Drop \/ (pc[q] = "dropped" /\ RemoveEnd(q)))
  BY <1>9, Names DEF SubmitIn, OnePlace, Drop, Goto, IInv, TypeOK, PcOK, Unrefs
<1>10. ASSUME ReadStart PROVE (\A q \in Senders : pc[q] \in Drop => pc'[q] \in Drop \/ (pc[q] = "dropped" /\ RemoveEnd(q)))
  BY <1>10, Names DEF ReadStart, OnePlace, Drop, Goto, IInv, TypeOK, PcOK, Unrefs
<1>11. ASSUME ReadResult PROVE (\A q \in Senders : pc[q] \in Drop => pc'[q] \in Drop \/ (pc[q] = "dropped" /\ RemoveEnd(q)))
  BY <1>11, Names DEF ReadResult, OnePlace, Drop, Goto, IInv, TypeOK, PcOK, Unrefs
<1>12. ASSUME Resubmit PROVE (\A q \in Senders : pc[q] \in Drop => pc'[q] \in Drop \/ (pc[q] = "dropped" /\ RemoveEnd(q)))
  BY <1>12, Names DEF Resubmit, OnePlace, Drop, Goto, IInv, TypeOK, PcOK, Unrefs
<1>13. ASSUME Terminate PROVE (\A q \in Senders : pc[q] \in Drop => pc'[q] \in Drop \/ (pc[q] = "dropped" /\ RemoveEnd(q)))
  BY <1>13, Names DEF Terminate, OnePlace, Drop, Goto, IInv, TypeOK, PcOK, Unrefs
<1>14. ASSUME TimerTerm PROVE (\A q \in Senders : pc[q] \in Drop => pc'[q] \in Drop \/ (pc[q] = "dropped" /\ RemoveEnd(q)))
  BY <1>14, Names DEF TimerTerm, OnePlace, Drop, Goto, IInv, TypeOK, PcOK, Unrefs
<1>15. ASSUME TimerFire PROVE (\A q \in Senders : pc[q] \in Drop => pc'[q] \in Drop \/ (pc[q] = "dropped" /\ RemoveEnd(q)))
  BY <1>15, Names DEF TimerFire, OnePlace, Drop, Goto, IInv, TypeOK, PcOK, Unrefs
<1>16. ASSUME NEW w \in Writers, SetWriting(w) PROVE (\A q \in Senders : pc[q] \in Drop => pc'[q] \in Drop \/ (pc[q] = "dropped" /\ RemoveEnd(q)))
  <2>1. PICK x : pc' = [pc EXCEPT ![Call(w)] = x]
    BY <1>16, WritingMoves
  <2>2. pc[Call(w)] = "found"
    BY <1>16, WritingMoves
  <2> QED
    BY <2>1, <2>2, Names DEF Drop, IInv, TypeOK, PcOK
<1>17. ASSUME NEW w \in Writers, Connect(w) PROVE (\A q \in Senders : pc[q] \in Drop => pc'[q] \in Drop \/ (pc[q] = "dropped" /\ RemoveEnd(q)))
  <2>1. pc[Call(w)] = "created" /\ pc[Out(w)] = "off"
        /\ \A q \in Senders : q # Call(w) /\ q # Out(w) => pc'[q] = pc[q]
        /\ (pc'[Out(w)] = pc[Out(w)] \/ pc'[Out(w)] = "armed")
    BY <1>17, Names DEF Connect, OnePlace, Goto, IInv, TypeOK, PcOK
  <2> QED
    BY <2>1, Names DEF Drop
<1>18. ASSUME NEW w \in Writers, OutStart(w) PROVE (\A q \in Senders : pc[q] \in Drop => pc'[q] \in Drop \/ (pc[q] = "dropped" /\ RemoveEnd(q)))
  BY <1>18, Names DEF OutStart, OnePlace, Drop, Goto, IInv, TypeOK, PcOK, Unrefs
<1>19. ASSUME NEW w \in Writers, ConnectAgain(w) PROVE (\A q \in Senders : pc[q] \in Drop => pc'[q] \in Drop \/ (pc[q] = "dropped" /\ RemoveEnd(q)))
  BY <1>19, Names DEF ConnectAgain, OnePlace, Drop, Goto, IInv, TypeOK, PcOK, Unrefs
<1>20. ASSUME NEW w \in Writers, ConnectOk(w) PROVE (\A q \in Senders : pc[q] \in Drop => pc'[q] \in Drop \/ (pc[q] = "dropped" /\ RemoveEnd(q)))
  BY <1>20, Names DEF ConnectOk, OnePlace, Drop, Goto, IInv, TypeOK, PcOK, Unrefs
<1>21. ASSUME NEW w \in Writers, ConnectFails(w) PROVE (\A q \in Senders : pc[q] \in Drop => pc'[q] \in Drop \/ (pc[q] = "dropped" /\ RemoveEnd(q)))
  BY <1>21, Names DEF ConnectFails, OnePlace, Drop, Goto, IInv, TypeOK, PcOK, Unrefs
<1>22. ASSUME NEW p \in Senders, SendStart(p) PROVE (\A q \in Senders : pc[q] \in Drop => pc'[q] \in Drop \/ (pc[q] = "dropped" /\ RemoveEnd(q)))
  BY <1>22, Names DEF SendStart, OnePlace, Drop, Goto, IInv, TypeOK, PcOK, Unrefs
<1>23. ASSUME NEW p \in Senders, SendResult(p) PROVE (\A q \in Senders : pc[q] \in Drop => pc'[q] \in Drop \/ (pc[q] = "dropped" /\ RemoveEnd(q)))
  BY <1>23, Names DEF SendResult, OnePlace, Drop, Goto, IInv, TypeOK, PcOK, Unrefs
<1>24. ASSUME NEW p \in Senders, Block(p) PROVE (\A q \in Senders : pc[q] \in Drop => pc'[q] \in Drop \/ (pc[q] = "dropped" /\ RemoveEnd(q)))
  <2>1. /\ pc[p] = "block" /\ (p = Out(p[2]) \/ pc[Out(p[2])] = "off") /\ Out(p[2]) \in Senders
        /\ \A q \in Senders : q # p /\ q # Out(p[2]) => pc'[q] = pc[q]
        /\ p # Out(p[2]) => pc'[Out(p[2])] = pc[Out(p[2])] \/ pc'[Out(p[2])] = "armed"
    BY <1>24, Names DEF Block, OnePlace, Goto, IInv, TypeOK, PcOK
  <2> QED
    BY <2>1 DEF Drop
<1>25. ASSUME NEW p \in Senders, Complete(p) PROVE (\A q \in Senders : pc[q] \in Drop => pc'[q] \in Drop \/ (pc[q] = "dropped" /\ RemoveEnd(q)))
  <2>1. CASE state = "WRITING" /\ pending # <<>>
    <3> DEFINE h == Head(pending)
    <3>1. h \in Writers /\ h \in Waiting
      <4>1. pending \in Seq(Writers)
        BY DEF IInv, TypeOK
      <4> QED
        BY <2>1, <4>1, HeadWaits DEF Waiting
    <3>2. pc[Out(h)] = "off" /\ Out(h) \in Senders
      BY <3>1, Names DEF OnePlace
    <3>3. pc[p] = "complete" /\ \A q \in Senders : q # p /\ q # Out(h) => pc'[q] = pc[q]
      BY <1>25, <2>1, Names DEF Complete, IInv, TypeOK, PcOK
    <3> QED
      BY <3>2, <3>3 DEF Drop
  <2>2. CASE ~ (state = "WRITING" /\ pending # <<>>)
    BY <1>25, <2>2, Names DEF Complete, Drop, Goto, IInv, TypeOK, PcOK
  <2> QED
    BY <2>1, <2>2
<1>26. ASSUME NEW p \in Senders, SendError(p) PROVE (\A q \in Senders : pc[q] \in Drop => pc'[q] \in Drop \/ (pc[q] = "dropped" /\ RemoveEnd(q)))
  BY <1>26, Names DEF SendError, OnePlace, Drop, Goto, IInv, TypeOK, PcOK, Unrefs
<1>27. ASSUME NEW p \in Senders, FireIn(p) PROVE (\A q \in Senders : pc[q] \in Drop => pc'[q] \in Drop \/ (pc[q] = "dropped" /\ RemoveEnd(q)))
  BY <1>27, Names DEF FireIn, OnePlace, Drop, Goto, IInv, TypeOK, PcOK, Unrefs
<1>28. ASSUME NEW p \in Procs, Unref(p) PROVE (\A q \in Senders : pc[q] \in Drop => pc'[q] \in Drop \/ (pc[q] = "dropped" /\ RemoveEnd(q)))
  BY <1>28, Names DEF Unref, OnePlace, Drop, Goto, IInv, TypeOK, PcOK, Unrefs
<1>29. ASSUME NEW p \in Procs, Unlink(p) PROVE (\A q \in Senders : pc[q] \in Drop => pc'[q] \in Drop \/ (pc[q] = "dropped" /\ RemoveEnd(q)))
  BY <1>29, Names DEF Unlink, OnePlace, Drop, Goto, IInv, TypeOK, PcOK, Unrefs
<1>30. ASSUME NEW p \in Procs, RemoveEnd(p) PROVE (\A q \in Senders : pc[q] \in Drop => pc'[q] \in Drop \/ (pc[q] = "dropped" /\ RemoveEnd(q)))
  <2>1. pc[p] \in {"unlinked", "dropped"} /\ \A q \in Senders : q # p => pc'[q] = pc[q]
    BY <1>30, Names DEF RemoveEnd, Goto, IInv, TypeOK, PcOK
  <2> QED
    BY <1>30, <2>1 DEF Drop
<1>31. ASSUME NEW p \in Procs, Unlock(p) PROVE (\A q \in Senders : pc[q] \in Drop => pc'[q] \in Drop \/ (pc[q] = "dropped" /\ RemoveEnd(q)))
  BY <1>31, Names DEF Unlock, OnePlace, Drop, Goto, IInv, TypeOK, PcOK, Unrefs
<1>32. ASSUME NEW x \in {"in", "out"}, HandleFire(x) PROVE (\A q \in Senders : pc[q] \in Drop => pc'[q] \in Drop \/ (pc[q] = "dropped" /\ RemoveEnd(q)))
  BY <1>32, Names DEF HandleFire, OnePlace, Drop, Goto, IInv, TypeOK, PcOK, Unrefs
<1> QED
  BY <1>1, <1>2, <1>3, <1>4, <1>5, <1>6, <1>7, <1>8, <1>9, <1>10, <1>11, <1>12, <1>13, <1>14, <1>15, <1>16, <1>17, <1>18, <1>19, <1>20, <1>21, <1>22, <1>23, <1>24, <1>25, <1>26, <1>27, <1>28, <1>29, <1>30, <1>31, <1>32
     DEF Next, Environment, Reader, Timer, Write, Resume, Send, Common

(* After a connect that failed nobody sends any more. *)
LEMMA AfterStep == IInv /\ AfterRefusal /\ Next => AfterRefusal'
<1> SUFFICES ASSUME IInv, AfterRefusal, Next PROVE AfterRefusal'
  OBVIOUS
<1>1. ASSUME Accept PROVE AfterRefusal'
  BY <1>1, Names DEF Accept, AfterRefusal, NoOwner, IInv, Exclusive, Owner, Sending, Fresh, TypeOK, PcOK, Goto, End, out, SetTerm, CreateConn, Unrefs
<1>2. ASSUME InEvent PROVE AfterRefusal'
  BY <1>2, Names DEF InEvent, AfterRefusal, NoOwner, IInv, Exclusive, Owner, Sending, Fresh, TypeOK, PcOK, Goto, End, out, SetTerm, CreateConn, Unrefs
<1>3. ASSUME TimerScan PROVE AfterRefusal'
  BY <1>3, Names DEF TimerScan, AfterRefusal, NoOwner, IInv, Exclusive, Owner, Sending, Fresh, TypeOK, PcOK, Goto, End, out, SetTerm, CreateConn, Unrefs
<1>4. ASSUME NEW w \in Writers, Search(w) PROVE AfterRefusal'
  BY <1>4, Names DEF Search, AfterRefusal, NoOwner, IInv, Exclusive, Owner, Sending, Fresh, TypeOK, PcOK, Goto, End, out, SetTerm, CreateConn, Unrefs
<1>5. ASSUME NEW w \in Writers, Match(w) PROVE AfterRefusal'
  BY <1>5, Names DEF Match, IpLockFree, AfterRefusal, NoOwner, IInv, Exclusive, Owner, Sending, Fresh, TypeOK, PcOK, Goto, End, out, SetTerm, CreateConn, Unrefs
<1>6. ASSUME NEW w \in Writers, SearchFails(w) PROVE AfterRefusal'
  BY <1>6, Names DEF SearchFails, AfterRefusal, NoOwner, IInv, Exclusive, Owner, Sending, Fresh, TypeOK, PcOK, Goto, End, out, SetTerm, CreateConn, Unrefs
<1>7. ASSUME NEW w \in Writers, Create(w) PROVE AfterRefusal'
  BY <1>7, Names DEF Create, AfterRefusal, NoOwner, IInv, Exclusive, Owner, Sending, Fresh, TypeOK, PcOK, Goto, End, out, SetTerm, CreateConn, Unrefs
<1>8. ASSUME NEW w \in Writers, OutEvent(w) PROVE AfterRefusal'
  BY <1>8, Names DEF OutEvent, AfterRefusal, NoOwner, IInv, Exclusive, Owner, Sending, Fresh, TypeOK, PcOK, Goto, End, out, SetTerm, CreateConn, Unrefs
<1>9. ASSUME SubmitIn PROVE AfterRefusal'
  BY <1>9, Names DEF SubmitIn, AfterRefusal, NoOwner, IInv, Exclusive, Owner, Sending, Fresh, TypeOK, PcOK, Goto, End, out, SetTerm, CreateConn, Unrefs
<1>10. ASSUME ReadStart PROVE AfterRefusal'
  BY <1>10, Names DEF ReadStart, AfterRefusal, NoOwner, IInv, Exclusive, Owner, Sending, Fresh, TypeOK, PcOK, Goto, End, out, SetTerm, CreateConn, Unrefs
<1>11. ASSUME ReadResult PROVE AfterRefusal'
  BY <1>11, Names DEF ReadResult, AfterRefusal, NoOwner, IInv, Exclusive, Owner, Sending, Fresh, TypeOK, PcOK, Goto, End, out, SetTerm, CreateConn, Unrefs
<1>12. ASSUME Resubmit PROVE AfterRefusal'
  BY <1>12, Names DEF Resubmit, AfterRefusal, NoOwner, IInv, Exclusive, Owner, Sending, Fresh, TypeOK, PcOK, Goto, End, out, SetTerm, CreateConn, Unrefs
<1>13. ASSUME Terminate PROVE AfterRefusal'
  BY <1>13, Names DEF Terminate, AfterRefusal, NoOwner, IInv, Exclusive, Owner, Sending, Fresh, TypeOK, PcOK, Goto, End, out, SetTerm, CreateConn, Unrefs
<1>14. ASSUME TimerTerm PROVE AfterRefusal'
  BY <1>14, Names DEF TimerTerm, AfterRefusal, NoOwner, IInv, Exclusive, Owner, Sending, Fresh, TypeOK, PcOK, Goto, End, out, SetTerm, CreateConn, Unrefs
<1>15. ASSUME TimerFire PROVE AfterRefusal'
  BY <1>15, Names DEF TimerFire, AfterRefusal, NoOwner, IInv, Exclusive, Owner, Sending, Fresh, TypeOK, PcOK, Goto, End, out, SetTerm, CreateConn, Unrefs
<1>16. ASSUME NEW w \in Writers, SetWriting(w) PROVE AfterRefusal'
  BY <1>16, Names DEF SetWriting, AfterRefusal, NoOwner, IInv, Exclusive, Owner, Sending, Fresh, TypeOK, PcOK, Goto, End, out, SetTerm, CreateConn, Unrefs
<1>17. ASSUME NEW w \in Writers, Connect(w) PROVE AfterRefusal'
  BY <1>17, Names DEF Connect, AfterRefusal, NoOwner, IInv, Exclusive, Owner, Sending, Fresh, TypeOK, PcOK, Goto, End, out, SetTerm, CreateConn, Unrefs
<1>18. ASSUME NEW w \in Writers, OutStart(w) PROVE AfterRefusal'
  BY <1>18, Names DEF OutStart, AfterRefusal, NoOwner, IInv, Exclusive, Owner, Sending, Fresh, TypeOK, PcOK, Goto, End, out, SetTerm, CreateConn, Unrefs
<1>19. ASSUME NEW w \in Writers, ConnectAgain(w) PROVE AfterRefusal'
  BY <1>19, Names DEF ConnectAgain, AfterRefusal, NoOwner, IInv, Exclusive, Owner, Sending, Fresh, TypeOK, PcOK, Goto, End, out, SetTerm, CreateConn, Unrefs
<1>20. ASSUME NEW w \in Writers, ConnectOk(w) PROVE AfterRefusal'
  BY <1>20, Names DEF ConnectOk, AfterRefusal, NoOwner, IInv, Exclusive, Owner, Sending, Fresh, TypeOK, PcOK, Goto, End, out, SetTerm, CreateConn, Unrefs
<1>21. ASSUME NEW w \in Writers, ConnectFails(w) PROVE AfterRefusal'
  BY <1>21, Names DEF ConnectFails, AfterRefusal, NoOwner, IInv, Exclusive, Owner, Sending, Fresh, TypeOK, PcOK, Goto, End, out, SetTerm, CreateConn, Unrefs
<1>22. ASSUME NEW p \in Senders, SendStart(p) PROVE AfterRefusal'
  BY <1>22, Names DEF SendStart, AfterRefusal, NoOwner, IInv, Exclusive, Owner, Sending, Fresh, TypeOK, PcOK, Goto, End, out, SetTerm, CreateConn, Unrefs
<1>23. ASSUME NEW p \in Senders, SendResult(p) PROVE AfterRefusal'
  BY <1>23, Names DEF SendResult, AfterRefusal, NoOwner, IInv, Exclusive, Owner, Sending, Fresh, TypeOK, PcOK, Goto, End, out, SetTerm, CreateConn, Unrefs
<1>24. ASSUME NEW p \in Senders, Block(p) PROVE AfterRefusal'
  BY <1>24, Names DEF Block, AfterRefusal, NoOwner, IInv, Exclusive, Owner, Sending, Fresh, TypeOK, PcOK, Goto, End, out, SetTerm, CreateConn, Unrefs
<1>25. ASSUME NEW p \in Senders, Complete(p) PROVE AfterRefusal'
  BY <1>25, Names DEF Complete, AfterRefusal, NoOwner, IInv, Exclusive, Owner, Sending, Fresh, TypeOK, PcOK, Goto, End, out, SetTerm, CreateConn, Unrefs
<1>26. ASSUME NEW p \in Senders, SendError(p) PROVE AfterRefusal'
  BY <1>26, Names DEF SendError, AfterRefusal, NoOwner, IInv, Exclusive, Owner, Sending, Fresh, TypeOK, PcOK, Goto, End, out, SetTerm, CreateConn, Unrefs
<1>27. ASSUME NEW p \in Senders, FireIn(p) PROVE AfterRefusal'
  BY <1>27, Names DEF FireIn, AfterRefusal, NoOwner, IInv, Exclusive, Owner, Sending, Fresh, TypeOK, PcOK, Goto, End, out, SetTerm, CreateConn, Unrefs
<1>28. ASSUME NEW p \in Procs, Unref(p) PROVE AfterRefusal'
  BY <1>28, Names DEF Unref, AfterRefusal, NoOwner, IInv, Exclusive, Owner, Sending, Fresh, TypeOK, PcOK, Goto, End, out, SetTerm, CreateConn, Unrefs
<1>29. ASSUME NEW p \in Procs, Unlink(p) PROVE AfterRefusal'
  BY <1>29, Names DEF Unlink, AfterRefusal, NoOwner, IInv, Exclusive, Owner, Sending, Fresh, TypeOK, PcOK, Goto, End, out, SetTerm, CreateConn, Unrefs
<1>30. ASSUME NEW p \in Procs, RemoveEnd(p) PROVE AfterRefusal'
  BY <1>30, Names DEF RemoveEnd, IpLockFree, AfterRefusal, NoOwner, IInv, Exclusive, Owner, Sending, Fresh, TypeOK, PcOK, Goto, End, out, SetTerm, CreateConn, Unrefs
<1>31. ASSUME NEW p \in Procs, Unlock(p) PROVE AfterRefusal'
  BY <1>31, Names DEF Unlock, AfterRefusal, NoOwner, IInv, Exclusive, Owner, Sending, Fresh, TypeOK, PcOK, Goto, End, out, SetTerm, CreateConn, Unrefs
<1>32. ASSUME NEW x \in {"in", "out"}, HandleFire(x) PROVE AfterRefusal'
  BY <1>32, Names DEF HandleFire, AfterRefusal, NoOwner, IInv, Exclusive, Owner, Sending, Fresh, TypeOK, PcOK, Goto, End, out, SetTerm, CreateConn, Unrefs
<1> QED
  BY <1>1, <1>2, <1>3, <1>4, <1>5, <1>6, <1>7, <1>8, <1>9, <1>10, <1>11, <1>12, <1>13, <1>14, <1>15, <1>16, <1>17, <1>18, <1>19, <1>20, <1>21, <1>22, <1>23, <1>24, <1>25, <1>26, <1>27, <1>28, <1>29, <1>30, <1>31, <1>32
     DEF Next, Environment, Reader, Timer, Write, Resume, Send, Common

(* The OUT task whose connect fails is the last that sends. *)
LEMMA DropsStep == IInv /\ InstantOnce /\ Drops /\ Next => Drops'
<1> SUFFICES ASSUME IInv, InstantOnce, Drops, Next PROVE Drops'
  OBVIOUS
<1>1. ASSUME Accept PROVE Drops'
  BY <1>1, Names, AfterStep DEF Accept, Drops, Drop, IInv, Exclusive, Owner, Sending, Fresh, TypeOK, PcOK, Goto, End, out, SetTerm, CreateConn, Unrefs
<1>2. ASSUME InEvent PROVE Drops'
  BY <1>2, Names, AfterStep DEF InEvent, Drops, Drop, IInv, Exclusive, Owner, Sending, Fresh, TypeOK, PcOK, Goto, End, out, SetTerm, CreateConn, Unrefs
<1>3. ASSUME TimerScan PROVE Drops'
  BY <1>3, Names, AfterStep DEF TimerScan, Drops, Drop, IInv, Exclusive, Owner, Sending, Fresh, TypeOK, PcOK, Goto, End, out, SetTerm, CreateConn, Unrefs
<1>4. ASSUME NEW w \in Writers, Search(w) PROVE Drops'
  BY <1>4, Names, AfterStep DEF Search, Drops, Drop, IInv, Exclusive, Owner, Sending, Fresh, TypeOK, PcOK, Goto, End, out, SetTerm, CreateConn, Unrefs
<1>5. ASSUME NEW w \in Writers, Match(w) PROVE Drops'
  BY <1>5, Names, AfterStep DEF Match, IpLockFree, Drops, Drop, IInv, Exclusive, Owner, Sending, Fresh, TypeOK, PcOK, Goto, End, out, SetTerm, CreateConn, Unrefs
<1>6. ASSUME NEW w \in Writers, SearchFails(w) PROVE Drops'
  BY <1>6, Names, AfterStep DEF SearchFails, Drops, Drop, IInv, Exclusive, Owner, Sending, Fresh, TypeOK, PcOK, Goto, End, out, SetTerm, CreateConn, Unrefs
<1>7. ASSUME NEW w \in Writers, Create(w) PROVE Drops'
  BY <1>7, Names, AfterStep DEF Create, Drops, Drop, IInv, Exclusive, Owner, Sending, Fresh, TypeOK, PcOK, Goto, End, out, SetTerm, CreateConn, Unrefs
<1>8. ASSUME NEW w \in Writers, OutEvent(w) PROVE Drops'
  BY <1>8, Names, AfterStep DEF OutEvent, Drops, Drop, IInv, Exclusive, Owner, Sending, Fresh, TypeOK, PcOK, Goto, End, out, SetTerm, CreateConn, Unrefs
<1>9. ASSUME SubmitIn PROVE Drops'
  BY <1>9, Names, AfterStep DEF SubmitIn, Drops, Drop, IInv, Exclusive, Owner, Sending, Fresh, TypeOK, PcOK, Goto, End, out, SetTerm, CreateConn, Unrefs
<1>10. ASSUME ReadStart PROVE Drops'
  BY <1>10, Names, AfterStep DEF ReadStart, Drops, Drop, IInv, Exclusive, Owner, Sending, Fresh, TypeOK, PcOK, Goto, End, out, SetTerm, CreateConn, Unrefs
<1>11. ASSUME ReadResult PROVE Drops'
  BY <1>11, Names, AfterStep DEF ReadResult, Drops, Drop, IInv, Exclusive, Owner, Sending, Fresh, TypeOK, PcOK, Goto, End, out, SetTerm, CreateConn, Unrefs
<1>12. ASSUME Resubmit PROVE Drops'
  BY <1>12, Names, AfterStep DEF Resubmit, Drops, Drop, IInv, Exclusive, Owner, Sending, Fresh, TypeOK, PcOK, Goto, End, out, SetTerm, CreateConn, Unrefs
<1>13. ASSUME Terminate PROVE Drops'
  BY <1>13, Names, AfterStep DEF Terminate, Drops, Drop, IInv, Exclusive, Owner, Sending, Fresh, TypeOK, PcOK, Goto, End, out, SetTerm, CreateConn, Unrefs
<1>14. ASSUME TimerTerm PROVE Drops'
  BY <1>14, Names, AfterStep DEF TimerTerm, Drops, Drop, IInv, Exclusive, Owner, Sending, Fresh, TypeOK, PcOK, Goto, End, out, SetTerm, CreateConn, Unrefs
<1>15. ASSUME TimerFire PROVE Drops'
  BY <1>15, Names, AfterStep DEF TimerFire, Drops, Drop, IInv, Exclusive, Owner, Sending, Fresh, TypeOK, PcOK, Goto, End, out, SetTerm, CreateConn, Unrefs
<1>16. ASSUME NEW w \in Writers, SetWriting(w) PROVE Drops'
  <2>1. PICK x \in {"send", "unref_queued", "unref_fail"} : pc' = [pc EXCEPT ![Call(w)] = x]
    BY <1>16, WritingMoves
  <2>2. /\ \A v \in Writers : pc'[Out(v)] = pc[Out(v)]
        /\ \A v \in Writers : pc'[Call(v)] \in Drop => pc[Call(v)] \in Drop
    BY <2>1, Names DEF Drop, IInv, TypeOK, PcOK
  <2>3. UNCHANGED <<connecting, instant>>
    BY <1>16, WritingMoves
  <2> QED
    BY <2>2, <2>3, AfterStep DEF Drops
<1>17. ASSUME NEW w \in Writers, Connect(w) PROVE Drops'
  <2>1. pc[Call(w)] = "created" /\ instant = Nobody /\ w # Nobody
    BY <1>17, TcpAssumption DEF Connect, InstantOnce
  <2>2. \A p \in Senders : Owner(p) => p = Call(w)
    BY <2>1, Names DEF IInv, Exclusive, Owner
  <2>3. \A v \in Writers : pc[Out(v)] \notin Drop \union {"connect"}
    BY <2>1, <2>2, Names DEF Drops, AfterRefusal, NoOwner, Owner, Drop
  <2>4. /\ \A v \in Writers : pc'[Out(v)] \in {pc[Out(v)], "armed"}
        /\ \A v \in Writers : v # w => pc'[Call(v)] = pc[Call(v)]
        /\ pc'[Call(w)] \in Drop => instant' = instant
        /\ instant' \in {instant, w}
    BY <1>17, Names DEF Connect, Drop, Goto, IInv, TypeOK, PcOK
  <2> QED
    BY <2>1, <2>3, <2>4 DEF Drops, Drop
<1>18. ASSUME NEW w \in Writers, OutStart(w) PROVE Drops'
  BY <1>18, Names, AfterStep DEF OutStart, Drops, Drop, IInv, Exclusive, Owner, Sending, Fresh, TypeOK, PcOK, Goto, End, out, SetTerm, CreateConn, Unrefs
<1>19. ASSUME NEW w \in Writers, ConnectAgain(w) PROVE Drops'
  BY <1>19, Names, AfterStep DEF ConnectAgain, Drops, Drop, IInv, Exclusive, Owner, Sending, Fresh, TypeOK, PcOK, Goto, End, out, SetTerm, CreateConn, Unrefs
<1>20. ASSUME NEW w \in Writers, ConnectOk(w) PROVE Drops'
  BY <1>20, Names, AfterStep DEF ConnectOk, Drops, Drop, IInv, Exclusive, Owner, Sending, Fresh, TypeOK, PcOK, Goto, End, out, SetTerm, CreateConn, Unrefs
<1>21. ASSUME NEW w \in Writers, ConnectFails(w) PROVE Drops'
  <2>1. /\ pc[Out(w)] = "connect" /\ state' = "TERM" /\ pc' = [pc EXCEPT ![Out(w)] = "drop"]
        /\ connecting' = connecting /\ instant' = instant
    BY <1>21 DEF ConnectFails, SetTerm, Goto, out
  <2>2. connecting
    BY <2>1 DEF Drops
  <2>3. NoOwner'
    BY <2>1, Names DEF NoOwner, IInv, Exclusive, Owner, Sending, TypeOK, PcOK
  <2>4. \A v \in Writers : pc'[Call(v)] = pc[Call(v)] /\ (v # w => pc'[Out(v)] = pc[Out(v)])
    BY <2>1, Names DEF IInv, TypeOK, PcOK
  <2> QED
    BY <2>1, <2>2, <2>3, <2>4 DEF Drops, Drop, AfterRefusal
<1>22. ASSUME NEW p \in Senders, SendStart(p) PROVE Drops'
  BY <1>22, Names, AfterStep DEF SendStart, Drops, Drop, IInv, Exclusive, Owner, Sending, Fresh, TypeOK, PcOK, Goto, End, out, SetTerm, CreateConn, Unrefs
<1>23. ASSUME NEW p \in Senders, SendResult(p) PROVE Drops'
  BY <1>23, Names, AfterStep DEF SendResult, Drops, Drop, IInv, Exclusive, Owner, Sending, Fresh, TypeOK, PcOK, Goto, End, out, SetTerm, CreateConn, Unrefs
<1>24. ASSUME NEW p \in Senders, Block(p) PROVE Drops'
  BY <1>24, Names, AfterStep DEF Block, Drops, Drop, IInv, Exclusive, Owner, Sending, Fresh, TypeOK, PcOK, Goto, End, out, SetTerm, CreateConn, Unrefs
<1>25. ASSUME NEW p \in Senders, Complete(p) PROVE Drops'
  BY <1>25, Names, AfterStep DEF Complete, Drops, Drop, IInv, Exclusive, Owner, Sending, Fresh, TypeOK, PcOK, Goto, End, out, SetTerm, CreateConn, Unrefs
<1>26. ASSUME NEW p \in Senders, SendError(p) PROVE Drops'
  BY <1>26, Names, AfterStep DEF SendError, Drops, Drop, IInv, Exclusive, Owner, Sending, Fresh, TypeOK, PcOK, Goto, End, out, SetTerm, CreateConn, Unrefs
<1>27. ASSUME NEW p \in Senders, FireIn(p) PROVE Drops'
  BY <1>27, Names, AfterStep DEF FireIn, Drops, Drop, IInv, Exclusive, Owner, Sending, Fresh, TypeOK, PcOK, Goto, End, out, SetTerm, CreateConn, Unrefs
<1>28. ASSUME NEW p \in Procs, Unref(p) PROVE Drops'
  BY <1>28, Names, AfterStep DEF Unref, Drops, Drop, IInv, Exclusive, Owner, Sending, Fresh, TypeOK, PcOK, Goto, End, out, SetTerm, CreateConn, Unrefs
<1>29. ASSUME NEW p \in Procs, Unlink(p) PROVE Drops'
  BY <1>29, Names, AfterStep DEF Unlink, Drops, Drop, IInv, Exclusive, Owner, Sending, Fresh, TypeOK, PcOK, Goto, End, out, SetTerm, CreateConn, Unrefs
<1>30. ASSUME NEW p \in Procs, RemoveEnd(p) PROVE Drops'
  BY <1>30, Names, AfterStep DEF RemoveEnd, IpLockFree, Drops, Drop, IInv, Exclusive, Owner, Sending, Fresh, TypeOK, PcOK, Goto, End, out, SetTerm, CreateConn, Unrefs
<1>31. ASSUME NEW p \in Procs, Unlock(p) PROVE Drops'
  BY <1>31, Names, AfterStep DEF Unlock, Drops, Drop, IInv, Exclusive, Owner, Sending, Fresh, TypeOK, PcOK, Goto, End, out, SetTerm, CreateConn, Unrefs
<1>32. ASSUME NEW x \in {"in", "out"}, HandleFire(x) PROVE Drops'
  BY <1>32, Names, AfterStep DEF HandleFire, Drops, Drop, IInv, Exclusive, Owner, Sending, Fresh, TypeOK, PcOK, Goto, End, out, SetTerm, CreateConn, Unrefs
<1> QED
  BY <1>1, <1>2, <1>3, <1>4, <1>5, <1>6, <1>7, <1>8, <1>9, <1>10, <1>11, <1>12, <1>13, <1>14, <1>15, <1>16, <1>17, <1>18, <1>19, <1>20, <1>21, <1>22, <1>23, <1>24, <1>25, <1>26, <1>27, <1>28, <1>29, <1>30, <1>31, <1>32
     DEF Next, Environment, Reader, Timer, Write, Resume, Send, Common

(* A refusal is remembered. *)
LEMMA RefusedStep == IInv /\ OnePlace /\ Drops /\ RefusedFor /\ Next => RefusedFor'
<1> SUFFICES ASSUME IInv, OnePlace, Drops, RefusedFor, Next PROVE RefusedFor'
  OBVIOUS
<1>1. ASSUME NEW w \in Writers, ret[w] = "refused" PROVE RefusedFor'
  BY <1>1, HeardStep DEF RefusedFor
<1>2. ASSUME NEW w \in Writers, pc[Call(w)] \in Drop PROVE RefusedFor'
  <2>1. CASE pc'[Call(w)] \in Drop
    BY <2>1 DEF RefusedFor
  <2>2. CASE pc[Call(w)] = "dropped" /\ RemoveEnd(Call(w))
    BY <1>2, <2>2, Names DEF RemoveEnd, Answer, RefusedFor, Drops, IInv, TypeOK
  <2> QED
    BY <1>2, <2>1, <2>2, DropGoes, Names
<1>3. ASSUME NEW w \in Writers, pc[Out(w)] \in Drop PROVE RefusedFor'
  <2>1. CASE pc'[Out(w)] \in Drop
    BY <2>1 DEF RefusedFor
  <2>2. CASE pc[Out(w)] = "dropped" /\ RemoveEnd(Out(w))
    <3>1. AfterRefusal'
      BY <1>3, AfterStep DEF Drops
    <3>2. resumed'[w] > 0
      BY <2>2, Names DEF RemoveEnd, Answer, IInv, TypeOK
    <3> QED
      BY <3>1, <3>2 DEF RefusedFor
  <2> QED
    BY <1>3, <2>1, <2>2, DropGoes, Names
<1>4. ASSUME NEW w \in Writers, AfterRefusal, resumed[w] > 0 PROVE RefusedFor'
  <2>1. AfterRefusal'
    BY <1>4, AfterStep
  <2>2. resumed'[w] \in Nat /\ resumed[w] \in Nat
    BY TypeStep DEF IInv, TypeOK
  <2>3. resumed'[w] > 0
    BY <1>4, <2>2, HeardStep
  <2> QED
    BY <2>1, <2>3 DEF RefusedFor
<1> QED
  BY <1>1, <1>2, <1>3, <1>4 DEF RefusedFor

(* A send that blocks. *)
LEMMA BlockMoves ==
  ASSUME IInv, NEW p \in Senders, Block(p)
  PROVE  /\ UNCHANGED <<state, links, ref, freed>> /\ pc[p] = "block"
         /\ pc'[reader] = pc[reader] /\ pc'[timer] = pc[timer]
         /\ \A q \in Senders : pc'[q] \in {pc[q], "done", "off", "armed", "unref_fail"}
<1>1. CASE pc' = [pc EXCEPT ![p] = End(p), ![Out(p[2])] = "armed"]
  BY <1>1, Names DEF Block, End, IInv, TypeOK, PcOK, mem
<1>2. CASE Goto(p, "unref_fail")
  BY <1>2, Names DEF Block, Goto, IInv, TypeOK, PcOK, mem
<1> QED
  BY <1>1, <1>2 DEF Block

(* A step in which nobody begins to remove the connection. *)
LEMMA RemoversSame ==
  ASSUME OneRemover, RefusedFor => RefusedFor', links' = links,
         state \in {"READY", "WRITING", "TERM"}, state' = "TERM" \/ (state # "TERM" /\ state' # "NONE"),
         \A q \in Procs : /\ Removes(q)' => Removes(q)
                          /\ pc'[q] \in {"fire", "unlink"} => pc[q] \in {"fire", "unlink"}
  PROVE  OneRemover'
  BY DEF OneRemover, Removes

(* A step in which p ends the connection. *)
LEMMA NewRemover ==
  ASSUME OneRemover, RefusedFor => RefusedFor', links' = links,
         state \in {"READY", "WRITING"}, state' = "TERM",
         NEW p \in Procs, \A q \in Procs : q # p => pc'[q] = pc[q]
  PROVE  OneRemover'
  BY DEF OneRemover, Removes

(* A step of the remover. *)
LEMMA RemoverGoesOn ==
  ASSUME OneRemover, RefusedFor => RefusedFor', NEW p \in Procs, Removes(p), state' = state,
         \A q \in Procs : q # p => pc'[q] = pc[q],
         pc'[p] \notin {"fire", "unlink"}
  PROVE  OneRemover'
  BY DEF OneRemover, Removes

(* One thread removes the connection. *)
LEMMA RemoverStep == IInv /\ OnePlace /\ Drops /\ OneRemover /\ Next => OneRemover'
<1> SUFFICES ASSUME IInv, OnePlace, Drops, OneRemover, Next PROVE OneRemover'
  OBVIOUS
<1>1. ASSUME Accept PROVE OneRemover'
  BY <1>1, Names, RefusedStep DEF Accept, OneRemover, Removes, mem, IInv, Exclusive, Owner, Sending, Fresh, TypeOK, PcOK, Goto, End, out, SetTerm, CreateConn, Unrefs
<1>2. ASSUME InEvent PROVE OneRemover'
  BY <1>2, Names, RefusedStep DEF InEvent, OneRemover, Removes, mem, IInv, Exclusive, Owner, Sending, Fresh, TypeOK, PcOK, Goto, End, out, SetTerm, CreateConn, Unrefs
<1>3. ASSUME TimerScan PROVE OneRemover'
  BY <1>3, Names, RefusedStep DEF TimerScan, OneRemover, Removes, mem, IInv, Exclusive, Owner, Sending, Fresh, TypeOK, PcOK, Goto, End, out, SetTerm, CreateConn, Unrefs
<1>4. ASSUME NEW w \in Writers, Search(w) PROVE OneRemover'
  BY <1>4, Names, RefusedStep DEF Search, OneRemover, Removes, mem, IInv, Exclusive, Owner, Sending, Fresh, TypeOK, PcOK, Goto, End, out, SetTerm, CreateConn, Unrefs
<1>5. ASSUME NEW w \in Writers, Match(w) PROVE OneRemover'
  BY <1>5, Names, RefusedStep DEF Match, IpLockFree, OneRemover, Removes, mem, IInv, Exclusive, Owner, Sending, Fresh, TypeOK, PcOK, Goto, End, out, SetTerm, CreateConn, Unrefs
<1>6. ASSUME NEW w \in Writers, SearchFails(w) PROVE OneRemover'
  BY <1>6, Names, RefusedStep DEF SearchFails, OneRemover, Removes, mem, IInv, Exclusive, Owner, Sending, Fresh, TypeOK, PcOK, Goto, End, out, SetTerm, CreateConn, Unrefs
<1>7. ASSUME NEW w \in Writers, Create(w) PROVE OneRemover'
  BY <1>7, Names, RefusedStep DEF Create, OneRemover, Removes, mem, IInv, Exclusive, Owner, Sending, Fresh, TypeOK, PcOK, Goto, End, out, SetTerm, CreateConn, Unrefs
<1>8. ASSUME NEW w \in Writers, OutEvent(w) PROVE OneRemover'
  BY <1>8, Names, RefusedStep DEF OutEvent, OneRemover, Removes, mem, IInv, Exclusive, Owner, Sending, Fresh, TypeOK, PcOK, Goto, End, out, SetTerm, CreateConn, Unrefs
<1>9. ASSUME SubmitIn PROVE OneRemover'
  BY <1>9, Names, RefusedStep DEF SubmitIn, OneRemover, Removes, mem, IInv, Exclusive, Owner, Sending, Fresh, TypeOK, PcOK, Goto, End, out, SetTerm, CreateConn, Unrefs
<1>10. ASSUME ReadStart PROVE OneRemover'
  BY <1>10, Names, RefusedStep DEF ReadStart, OneRemover, Removes, mem, IInv, Exclusive, Owner, Sending, Fresh, TypeOK, PcOK, Goto, End, out, SetTerm, CreateConn, Unrefs
<1>11. ASSUME ReadResult PROVE OneRemover'
  <2>1. PICK x \in {"resubmit", "terminate"} : pc' = [pc EXCEPT ![reader] = x]
    BY <1>11 DEF ReadResult, Goto
  <2>2. UNCHANGED <<state, links>> /\ state # "NONE" /\ pc[reader] = "reading"
    BY <1>11, Names DEF ReadResult, mem, IInv, Fresh
  <2> QED
    BY <2>1, <2>2, Names, RefusedStep, RemoversSame DEF Removes, IInv, TypeOK, PcOK
<1>12. ASSUME Resubmit PROVE OneRemover'
  <2>1. PICK x \in {"unref_locked", "armed"} : pc' = [pc EXCEPT ![reader] = x]
    BY <1>12 DEF Resubmit, Goto
  <2>2. UNCHANGED <<state, links>> /\ state # "NONE" /\ pc[reader] = "resubmit"
    BY <1>12, Names DEF Resubmit, mem, IInv, Fresh
  <2> QED
    BY <2>1, <2>2, Names, RefusedStep, RemoversSame DEF Removes, IInv, TypeOK, PcOK
<1>13. ASSUME Terminate PROVE OneRemover'
  <2>1. PICK x \in {"off", "unlink"} : pc' = [pc EXCEPT ![reader] = x] /\ (state = "TERM" => x = "off")
    BY <1>13 DEF Terminate, Goto
  <2>2. links' = links /\ state' = "TERM" /\ state \in {"READY", "WRITING", "TERM"}
    BY <1>13, Names DEF Terminate, SetTerm, mem, IInv, Fresh, TypeOK
  <2>3. CASE state = "TERM"
    BY <2>1, <2>2, <2>3, Names, RefusedStep, RemoversSame DEF Removes, IInv, TypeOK, PcOK
  <2>4. CASE state # "TERM"
    BY <2>1, <2>2, <2>4, Names, RefusedStep, NewRemover DEF IInv, TypeOK, PcOK
  <2> QED
    BY <2>3, <2>4
<1>14. ASSUME TimerTerm PROVE OneRemover'
  <2>1. PICK x \in {"off", "fire"} : pc' = [pc EXCEPT ![timer] = x] /\ (state = "TERM" => x = "off")
    BY <1>14 DEF TimerTerm, Goto
  <2>2. links' = links /\ state' = "TERM" /\ state \in {"READY", "WRITING", "TERM"}
    BY <1>14, Names DEF TimerTerm, SetTerm, mem, IInv, Fresh, TypeOK
  <2>3. CASE state = "TERM"
    BY <2>1, <2>2, <2>3, Names, RefusedStep, RemoversSame DEF Removes, IInv, TypeOK, PcOK
  <2>4. CASE state # "TERM"
    BY <2>1, <2>2, <2>4, Names, RefusedStep, NewRemover DEF IInv, TypeOK, PcOK
  <2> QED
    BY <2>3, <2>4
<1>15. ASSUME TimerFire PROVE OneRemover'
  BY <1>15, Names, RefusedStep DEF TimerFire, OneRemover, Removes, mem, IInv, Exclusive, Owner, Sending, Fresh, TypeOK, PcOK, Goto, End, out, SetTerm, CreateConn, Unrefs
<1>16. ASSUME NEW w \in Writers, SetWriting(w) PROVE OneRemover'
  <2>1. PICK x \in {"send", "unref_queued", "unref_fail"} : pc' = [pc EXCEPT ![Call(w)] = x]
    BY <1>16, WritingMoves
  <2>2. links' = links /\ state \in {"READY", "WRITING", "TERM"} /\ state' = IF state = "READY" THEN "WRITING" ELSE state
    BY <1>16, WritingMoves
  <2> QED
    BY <2>1, <2>2, Names, RefusedStep, RemoversSame DEF Removes, IInv, TypeOK, PcOK
<1>17. ASSUME NEW w \in Writers, Connect(w) PROVE OneRemover'
  BY <1>17, Names, RefusedStep DEF Connect, OneRemover, Removes, mem, IInv, Exclusive, Owner, Sending, Fresh, TypeOK, PcOK, Goto, End, out, SetTerm, CreateConn, Unrefs
<1>18. ASSUME NEW w \in Writers, OutStart(w) PROVE OneRemover'
  BY <1>18, Names, RefusedStep DEF OutStart, OneRemover, Removes, mem, IInv, Exclusive, Owner, Sending, Fresh, TypeOK, PcOK, Goto, End, out, SetTerm, CreateConn, Unrefs
<1>19. ASSUME NEW w \in Writers, ConnectAgain(w) PROVE OneRemover'
  BY <1>19, Names, RefusedStep DEF ConnectAgain, OneRemover, Removes, mem, IInv, Exclusive, Owner, Sending, Fresh, TypeOK, PcOK, Goto, End, out, SetTerm, CreateConn, Unrefs
<1>20. ASSUME NEW w \in Writers, ConnectOk(w) PROVE OneRemover'
  <2>1. pc' = [pc EXCEPT ![Out(w)] = "send", ![reader] = "armed"] /\ UNCHANGED <<state, links>> /\ state # "NONE"
    BY <1>20, Names DEF ConnectOk, IInv, Fresh
  <2> QED
    BY <2>1, Names, RefusedStep, RemoversSame DEF Removes, IInv, TypeOK, PcOK
<1>21. ASSUME NEW w \in Writers, ConnectFails(w) PROVE OneRemover'
  BY <1>21, Names, RefusedStep DEF ConnectFails, OneRemover, Removes, mem, IInv, Exclusive, Owner, Sending, Fresh, TypeOK, PcOK, Goto, End, out, SetTerm, CreateConn, Unrefs
<1>22. ASSUME NEW p \in Senders, SendStart(p) PROVE OneRemover'
  BY <1>22, Names, RefusedStep DEF SendStart, OneRemover, Removes, mem, IInv, Exclusive, Owner, Sending, Fresh, TypeOK, PcOK, Goto, End, out, SetTerm, CreateConn, Unrefs
<1>23. ASSUME NEW p \in Senders, SendResult(p) PROVE OneRemover'
  BY <1>23, Names, RefusedStep DEF SendResult, OneRemover, Removes, mem, IInv, Exclusive, Owner, Sending, Fresh, TypeOK, PcOK, Goto, End, out, SetTerm, CreateConn, Unrefs
<1>24. ASSUME NEW p \in Senders, Block(p) PROVE OneRemover'
  <2>1. UNCHANGED <<state, links>> /\ state # "NONE"
    BY <1>24, BlockMoves DEF IInv, Fresh, Senders, Procs
  <2>2. \A q \in Procs : pc'[q] \in {pc[q], "done", "off", "armed", "unref_fail"}
    BY <1>24, BlockMoves DEF Senders, Procs
  <2> QED
    BY <2>1, <2>2, RefusedStep, RemoversSame DEF Removes, IInv, TypeOK
<1>25. ASSUME NEW p \in Senders, Complete(p) PROVE OneRemover'
  <2>1. links' = links /\ state \in {"READY", "WRITING", "TERM"} /\ state' \in {"READY", "WRITING", "TERM"}
        /\ (state = "TERM" => state' = "TERM")
    BY <1>25, Names DEF Complete, mem, IInv, Fresh, TypeOK
  <2>2. PICK x \in {"off", "done", "unref_ok"}, r \in Procs :
            pc' = [pc EXCEPT ![p] = x] \/ pc' = [pc EXCEPT ![p] = x, ![r] = "task"]
    <3>1. CASE state = "WRITING" /\ pending # <<>>
      <4>1. Head(pending) \in Writers
        BY <3>1 DEF IInv, TypeOK
      <4> QED
        BY <1>25, <3>1, <4>1, Names DEF Complete, End
    <3>2. CASE ~ (state = "WRITING" /\ pending # <<>>)
      BY <1>25, <3>2, Names DEF Complete, Goto
    <3> QED
      BY <3>1, <3>2
  <2>3. \A q \in Procs : pc'[q] \in {pc[q], "off", "done", "task", "unref_ok"}
    BY <2>2 DEF IInv, TypeOK, PcOK
  <2>4. RefusedFor => RefusedFor'
    BY RefusedStep
  <2>5. \A q \in Procs : /\ Removes(q)' => Removes(q)
                         /\ pc'[q] \in {"fire", "unlink"} => pc[q] \in {"fire", "unlink"}
    BY <2>3 DEF Removes
  <2> QED
    BY <2>1, <2>4, <2>5, RemoversSame
<1>26. ASSUME NEW p \in Senders, SendError(p) PROVE OneRemover'
  <2>1. PICK x \in {"off", "done", "unlink"} : pc' = [pc EXCEPT ![p] = x] /\ (state = "TERM" => x # "unlink")
    BY <1>26 DEF SendError, Goto, End
  <2>2. links' = links /\ state' = "TERM" /\ state \in {"READY", "WRITING", "TERM"} /\ p \in Procs
    BY <1>26, Names DEF SendError, SetTerm, mem, IInv, Fresh, TypeOK
  <2>3. CASE state = "TERM"
    BY <2>1, <2>2, <2>3, Names, RefusedStep, RemoversSame DEF Removes, IInv, TypeOK, PcOK
  <2>4. CASE state # "TERM"
    BY <2>1, <2>2, <2>4, Names, RefusedStep, NewRemover DEF IInv, TypeOK, PcOK
  <2> QED
    BY <2>3, <2>4
<1>27. ASSUME NEW p \in Senders, FireIn(p) PROVE OneRemover'
  BY <1>27, Names, RefusedStep DEF FireIn, OneRemover, Removes, mem, IInv, Exclusive, Owner, Sending, Fresh, TypeOK, PcOK, Goto, End, out, SetTerm, CreateConn, Unrefs
<1>28. ASSUME NEW p \in Procs, Unref(p) PROVE OneRemover'
  BY <1>28, Names, RefusedStep DEF Unref, OneRemover, Removes, mem, IInv, Exclusive, Owner, Sending, Fresh, TypeOK, PcOK, Goto, End, out, SetTerm, CreateConn, Unrefs
<1>29. ASSUME NEW p \in Procs, Unlink(p) PROVE OneRemover'
  <2>1. CASE pc[p] = "unlink"
    <3>1. Removes(p) /\ pc' = [pc EXCEPT ![p] = "unlinked"] /\ state' = state
      BY <1>29, <2>1 DEF Unlink, Goto, Removes
    <3> QED
      BY <3>1, RefusedStep, RemoverGoesOn DEF IInv, TypeOK, PcOK
  <2>2. CASE pc[p] = "drop"
    <3>1. pc' = [pc EXCEPT ![p] = "dropped"] /\ state' = state
      BY <1>29, <2>2 DEF Unlink, Goto
    <3>2. RefusedFor
      BY <2>2, WhoEnds, Names DEF RefusedFor, Drop
    <3> QED
      BY <3>1, <3>2, RefusedStep DEF OneRemover, Removes, IInv, TypeOK, PcOK
  <2> QED
    BY <1>29, <2>1, <2>2 DEF Unlink
<1>30. ASSUME NEW p \in Procs, RemoveEnd(p) PROVE OneRemover'
  <2>1. PICK x \in {"fire_in", "off", "done"} : pc' = [pc EXCEPT ![p] = x]
    BY <1>30 DEF RemoveEnd, Goto, End
  <2>2. state' = state
    BY <1>30 DEF RemoveEnd
  <2>3. CASE pc[p] = "unlinked"
    BY <2>1, <2>2, <2>3, RefusedStep, RemoverGoesOn DEF Removes, IInv, TypeOK, PcOK
  <2>4. CASE pc[p] = "dropped"
    <3>1. RefusedFor
      BY <2>4, WhoEnds, Names DEF RefusedFor, Drop
    <3> QED
      BY <2>1, <2>2, <3>1, RefusedStep DEF OneRemover, Removes, IInv, TypeOK, PcOK
  <2> QED
    BY <1>30, <2>3, <2>4 DEF RemoveEnd
<1>31. ASSUME NEW p \in Procs, Unlock(p) PROVE OneRemover'
  BY <1>31, Names, RefusedStep DEF Unlock, OneRemover, Removes, mem, IInv, Exclusive, Owner, Sending, Fresh, TypeOK, PcOK, Goto, End, out, SetTerm, CreateConn, Unrefs
<1>32. ASSUME NEW x \in {"in", "out"}, HandleFire(x) PROVE OneRemover'
  BY <1>32, Names, RefusedStep DEF HandleFire, OneRemover, Removes, mem, IInv, Exclusive, Owner, Sending, Fresh, TypeOK, PcOK, Goto, End, out, SetTerm, CreateConn, Unrefs
<1> QED
  BY <1>1, <1>2, <1>3, <1>4, <1>5, <1>6, <1>7, <1>8, <1>9, <1>10, <1>11, <1>12, <1>13, <1>14, <1>15, <1>16, <1>17, <1>18, <1>19, <1>20, <1>21, <1>22, <1>23, <1>24, <1>25, <1>26, <1>27, <1>28, <1>29, <1>30, <1>31, <1>32
     DEF Next, Environment, Reader, Timer, Write, Resume, Send, Common

-----------------------------------------------------------------------------
(* Theorems *)

(* The inductive invariant holds in every state.                            *)
THEOREM Invariance == Spec => []IInv
<1>1. Init => IInv
  <2> SUFFICES ASSUME Init PROVE IInv
    OBVIOUS
  <2>1. \A p \in Procs : pc[p] \in {"start", "off"}
    BY DEF Init
  <2>2. pc[reader] = "off" /\ pc[timer] = "off"
        /\ \A w \in Writers : pc[Call(w)] = "start" /\ pc[Out(w)] = "off"
    BY Names DEF Init
  <2>3. TypeOK
    <3>1. PcOK
      BY <2>2 DEF Init, PcOK, Steps, SendSteps, CallSteps, OutSteps, ReaderSteps, TimerSteps
    <3>2. pending \in Seq(Writers)
      BY DEF Init
    <3>3. ret \in [Writers -> {"none", "ok", "fail", "refused", "async", "elsewhere"}]
          /\ resumed \in [Writers -> Nat]
      BY DEF Init
    <3>4. state \in {"NONE", "READY", "WRITING", "TERM"} /\ ref \in Nat
          /\ links \subseteq {"id", "ip"} /\ freed \in BOOLEAN
          /\ lock \in Procs \union {NoThread} /\ hlock \in {timer, NoThread}
          /\ active \in Writers \union {Nobody}
          /\ connecting \in BOOLEAN /\ instant \in Writers \union {Nobody}
          /\ fires \subseteq {"in", "out"}
      BY DEF Init
    <3> QED
      BY <3>1, <3>2, <3>3, <3>4 DEF TypeOK
  <2>4. Fresh
    BY <2>1 DEF Init, Fresh
  <2>5. RefsHeld
    <3>1. Holders = {}
      BY <2>1 DEF Holders, NoRef
    <3> QED
      BY <3>1, FS_EmptySet DEF Init, RefsHeld
  <2>6. Exclusive
    <3>1. \A p \in Senders : ~ Busy(p) /\ ~ Owner(p)
      BY <2>1, Names DEF Owner, Busy, Sending
    <3> QED
      BY <2>2, <3>1 DEF Exclusive
  <2> QED
    BY <2>3, <2>4, <2>5, <2>6 DEF IInv
<1>2. IInv /\ [Next]_vars => IInv'
  <2> SUFFICES ASSUME IInv, [Next]_vars PROVE IInv'
    OBVIOUS
  <2>1. CASE Next
    BY <2>1, TypeStep, FreshStep, RefsStep, ExclusiveStep DEF IInv
  <2>2. CASE UNCHANGED vars
    BY <2>2 DEF vars, IInv, TypeOK, PcOK, Fresh, RefsHeld, Holders, Exclusive, Owner, Busy
  <2> QED
    BY <2>1, <2>2
<1> QED
  BY <1>1, <1>2, PTL DEF Spec

(* Every variable keeps its type: ref never goes below 0.                   *)
THEOREM TypeCorrect == Spec => []TypeOK
<1>1. IInv => TypeOK
  BY DEF IInv
<1> QED
  BY <1>1, Invariance, PTL

(* conn->ref covers every thread that uses the connection, until it is      *)
(* freed.                                                                   *)
THEOREM RefsHeldHolds == Spec => []RefsHeld
<1>1. IInv => RefsHeld
  BY DEF IInv
<1> QED
  BY <1>1, Invariance, PTL

(* At most one thread is in the send loop of a connection, and no write     *)
(* takes the place of one that waits in conn->write.active.                 *)
THEOREM OneWriterHolds == Spec => []OneWriter
<1>1. IInv => OneWriter
  BY Names DEF IInv, Exclusive, Owner, OneWriter
<1> QED
  BY <1>1, Invariance, PTL

(* A context hears once of its write and one thread removes the connection. *)
OnceInv == InstantOnce /\ OnePlace /\ Due /\ Drops /\ OneRemover

(* It does when nothing has happened yet. *)
LEMMA OnceInit == Init => OnceInv
<1> SUFFICES ASSUME Init PROVE OnceInv
  OBVIOUS
<1>1. Waiting = {}
  BY DEF Init, Waiting, Elements
<1>2. \A w \in Writers : pc[Call(w)] = "start" /\ pc[Out(w)] = "off" /\ ret[w] = "none" /\ resumed[w] = 0
  BY Names DEF Init
<1>3. \A p \in Procs : ~ Removes(p) /\ pc[p] \notin {"fire", "unlink"}
  BY DEF Init, Removes
<1>4. OneRemover
  BY <1>3 DEF Init, OneRemover
<1>5. OnePlace /\ Due
  BY <1>1, <1>2 DEF Init, OnePlace, Due, Answered
<1>6. InstantOnce /\ Drops
  BY <1>2 DEF Init, InstantOnce, Drops, Drop
<1> QED
  BY <1>4, <1>5, <1>6 DEF OnceInv

(* It holds in every state. *)
THEOREM OnceInvariance == Spec => []OnceInv
<1>1. IInv /\ OnceInv /\ [Next]_vars => OnceInv'
  <2> SUFFICES ASSUME IInv, OnceInv, [Next]_vars PROVE OnceInv'
    OBVIOUS
  <2>1. CASE Next
    BY <2>1, InstantStep, FateStep, DropsStep, RemoverStep DEF OnceInv
  <2>2. CASE UNCHANGED vars
    BY <2>2 DEF vars, OnceInv, InstantOnce, OnePlace, Due, Waiting, Drops, AfterRefusal, NoOwner,
                Owner, OneRemover, Removes, RefusedFor
  <2> QED
    BY <2>1, <2>2
<1> QED
  BY <1>1, OnceInit, Invariance, PTL DEF Spec

(* A context hears of the end of its write at most once: from a_tcp_write   *)
(* or by being resumed, whoever ends the connection meanwhile.              *)
THEOREM ToldOnceHolds == Spec => []ToldOnce
<1>1. IInv /\ OnceInv => ToldOnce
  BY DEF IInv, TypeOK, OnceInv, Due, ToldOnce, Answered
<1> QED
  BY <1>1, Invariance, OnceInvariance, PTL

(* Of the timer, the reader and the senders one removes the connection, and *)
(* finds it in both hash tables unless a connect was refused.               *)
THEOREM RemovedOnceHolds == Spec => []RemovedOnce
<1>1. OnceInv => RemovedOnce
  <2> SUFFICES ASSUME OnceInv, NEW p \in Procs, pc[p] = "unlink" PROVE links = {"id", "ip"} \/ Refused
    BY DEF RemovedOnce
  <2>1. RefusedFor => Refused
    BY DEF RefusedFor, AfterRefusal, Drop, Refused
  <2> QED
    BY <2>1 DEF OnceInv, OneRemover
<1> QED
  BY <1>1, OnceInvariance, PTL

-----------------------------------------------------------------------------
(* What holds of the references and of the two locks unless two things end  *)
(* the connection at the same time: with them the runs tcp_free and         *)
(* tcp_deadlock show what goes wrong.                                       *)
(* The reader is not submitted before a connect has succeeded. *)
NoReader ==
  /\ state = "NONE" => ~ connecting
  /\ connecting \/ (\E w \in Writers : pc[Call(w)] = "created") => pc[reader] = "off"

(* Of what may end the connection one thing happens in the run. *)
OneEnd == "refuse" \notin Events /\ \A a, b \in Events \cap {"read", "send", "timeout"} : a = b

(* Whoever is about to end the connection finds it alive.  *)
Alone ==
  /\ \A p \in Senders : pc[p] \notin {"drop", "dropped"}
  /\ pc[timer] = "expired" => "timeout" \in Events
  /\ pc[reader] = "terminate" => "read" \in Events
  /\ pc[reader] \in {"reading", "terminate"} /\ "read" \in Events => state # "TERM"
  /\ \A p \in Senders : /\ pc[p] = "error" => "send" \in Events
                        /\ pc[p] \in {"sending", "error"} /\ "send" \in Events => state # "TERM"

(* Its references are forgotten by nobody. *)
RefsLeast == ~ freed => ref <= Cardinality(Holders)

(* The timer ended the connection, and does not look at it again. *)
TimerEnds == pc[timer] \in {"fire", "unlink"} \/ ("id" \notin links /\ pc[timer] # "expired")

LockOrder ==
  /\ \A p \in Senders : pc[p] # "error"
  /\ pc[reader] = "unref_locked" => state = "TERM"
  /\ state = "TERM" => \/ TimerEnds
                       \/ /\ pc[reader] \in {"off", "unlink", "unlinked"}
                          /\ \A p \in Senders : pc[p] # "connect"

(* The steps of a_tcp_send and a_tcp_connect that hand a write over: they   *)
(* leave the reader and the timer alone and end nothing.                    *)
LEMMA ConnectMoves ==
  ASSUME IInv, NEW w \in Writers, Connect(w)
  PROVE  /\ UNCHANGED <<state, links, ref, freed>> /\ pc[Call(w)] = "created"
         /\ pc'[reader] = pc[reader] /\ pc'[timer] = pc[timer]
         /\ \A q \in Senders : pc'[q] \in {pc[q], "done", "armed", "send", "drop"}
         /\ "refuse" \notin Events => \A q \in Senders : pc'[q] \in {pc[q], "done", "armed", "send"}
<1>1. CASE pc' = [pc EXCEPT ![Call(w)] = "done", ![Out(w)] = "armed"]
  BY <1>1, Names DEF Connect, IInv, TypeOK, PcOK, mem
<1>2. CASE Goto(Call(w), "send")
  BY <1>2, Names DEF Connect, Goto, IInv, TypeOK, PcOK, mem
<1>3. CASE Goto(Call(w), "drop") /\ "refuse" \in Events
  BY <1>3, Names DEF Connect, Goto, IInv, TypeOK, PcOK, mem
<1> QED
  BY <1>1, <1>2, <1>3 DEF Connect

(* One that is done. *)
LEMMA CompleteMoves ==
  ASSUME IInv, NEW p \in Senders, Complete(p)
  PROVE  /\ UNCHANGED <<links, ref, freed>> /\ pc[p] = "complete"
         /\ state' = "TERM" <=> state = "TERM"
         /\ pc'[reader] = pc[reader] /\ pc'[timer] = pc[timer]
         /\ \A q \in Senders : pc'[q] \in {pc[q], "done", "off", "task", "unref_ok"}
<1>1. CASE state = "WRITING" /\ pending # <<>>
  <2>1. Head(pending) \in Writers
    BY <1>1 DEF IInv, TypeOK
  <2>2. pc' = [pc EXCEPT ![p] = End(p), ![Out(Head(pending))] = "task"] /\ state' = state
    BY <1>1 DEF Complete
  <2> QED
    BY <1>1, <2>1, <2>2, Names DEF Complete, End, IInv, TypeOK, PcOK, mem
<1>2. CASE ~ (state = "WRITING" /\ pending # <<>>)
  BY <1>2, Names DEF Complete, Goto, IInv, TypeOK, PcOK, mem
<1> QED
  BY <1>1, <1>2

(* One reader at a time is submitted. *)
LEMMA NoReaderStep == IInv /\ Drops /\ NoReader /\ Next => NoReader'
<1> SUFFICES ASSUME IInv, Drops, NoReader, Next PROVE NoReader'
  OBVIOUS
<1>1. ASSUME Accept PROVE NoReader'
  BY <1>1, Names DEF Accept, NoReader, Drops, IInv, Exclusive, Owner, Sending, Fresh, TypeOK, PcOK, Goto, End, out, mem, SetTerm, CreateConn, Unrefs
<1>2. ASSUME InEvent PROVE NoReader'
  BY <1>2, Names DEF InEvent, NoReader, Drops, IInv, Exclusive, Owner, Sending, Fresh, TypeOK, PcOK, Goto, End, out, mem, SetTerm, CreateConn, Unrefs
<1>3. ASSUME TimerScan PROVE NoReader'
  BY <1>3, Names DEF TimerScan, NoReader, Drops, IInv, Exclusive, Owner, Sending, Fresh, TypeOK, PcOK, Goto, End, out, mem, SetTerm, CreateConn, Unrefs
<1>4. ASSUME NEW w \in Writers, Search(w) PROVE NoReader'
  BY <1>4, Names DEF Search, NoReader, Drops, IInv, Exclusive, Owner, Sending, Fresh, TypeOK, PcOK, Goto, End, out, mem, SetTerm, CreateConn, Unrefs
<1>5. ASSUME NEW w \in Writers, Match(w) PROVE NoReader'
  BY <1>5, Names DEF Match, IpLockFree, NoReader, Drops, IInv, Exclusive, Owner, Sending, Fresh, TypeOK, PcOK, Goto, End, out, mem, SetTerm, CreateConn, Unrefs
<1>6. ASSUME NEW w \in Writers, SearchFails(w) PROVE NoReader'
  BY <1>6, Names DEF SearchFails, NoReader, Drops, IInv, Exclusive, Owner, Sending, Fresh, TypeOK, PcOK, Goto, End, out, mem, SetTerm, CreateConn, Unrefs
<1>7. ASSUME NEW w \in Writers, Create(w) PROVE NoReader'
  <2>1. state = "NONE" /\ state' = "WRITING" /\ pc' = [pc EXCEPT ![Call(w)] = "created"] /\ connecting' = connecting
    BY <1>7 DEF Create, CreateConn, Goto, out
  <2>2. pc[reader] = "off"
    BY <2>1, Names DEF IInv, Fresh, TypeOK, PcOK, ReaderSteps
  <2> QED
    BY <2>1, <2>2, Names DEF NoReader, IInv, TypeOK, PcOK
<1>8. ASSUME NEW w \in Writers, OutEvent(w) PROVE NoReader'
  BY <1>8, Names DEF OutEvent, NoReader, Drops, IInv, Exclusive, Owner, Sending, Fresh, TypeOK, PcOK, Goto, End, out, mem, SetTerm, CreateConn, Unrefs
<1>9. ASSUME SubmitIn PROVE NoReader'
  BY <1>9, Names DEF SubmitIn, NoReader, Drops, IInv, Exclusive, Owner, Sending, Fresh, TypeOK, PcOK, Goto, End, out, mem, SetTerm, CreateConn, Unrefs
<1>10. ASSUME ReadStart PROVE NoReader'
  BY <1>10, Names DEF ReadStart, NoReader, Drops, IInv, Exclusive, Owner, Sending, Fresh, TypeOK, PcOK, Goto, End, out, mem, SetTerm, CreateConn, Unrefs
<1>11. ASSUME ReadResult PROVE NoReader'
  BY <1>11, Names DEF ReadResult, NoReader, Drops, IInv, Exclusive, Owner, Sending, Fresh, TypeOK, PcOK, Goto, End, out, mem, SetTerm, CreateConn, Unrefs
<1>12. ASSUME Resubmit PROVE NoReader'
  BY <1>12, Names DEF Resubmit, NoReader, Drops, IInv, Exclusive, Owner, Sending, Fresh, TypeOK, PcOK, Goto, End, out, mem, SetTerm, CreateConn, Unrefs
<1>13. ASSUME Terminate PROVE NoReader'
  BY <1>13, Names DEF Terminate, NoReader, Drops, IInv, Exclusive, Owner, Sending, Fresh, TypeOK, PcOK, Goto, End, out, mem, SetTerm, CreateConn, Unrefs
<1>14. ASSUME TimerTerm PROVE NoReader'
  BY <1>14, Names DEF TimerTerm, NoReader, Drops, IInv, Exclusive, Owner, Sending, Fresh, TypeOK, PcOK, Goto, End, out, mem, SetTerm, CreateConn, Unrefs
<1>15. ASSUME TimerFire PROVE NoReader'
  BY <1>15, Names DEF TimerFire, NoReader, Drops, IInv, Exclusive, Owner, Sending, Fresh, TypeOK, PcOK, Goto, End, out, mem, SetTerm, CreateConn, Unrefs
<1>16. ASSUME NEW w \in Writers, SetWriting(w) PROVE NoReader'
  <2>1. PICK x \in {"send", "unref_queued", "unref_fail"} : pc' = [pc EXCEPT ![Call(w)] = x]
    BY <1>16, WritingMoves
  <2>2. connecting' = connecting /\ state' # "NONE"
    BY <1>16, WritingMoves
  <2> QED
    BY <2>1, <2>2, Names DEF NoReader, IInv, TypeOK, PcOK
<1>17. ASSUME NEW w \in Writers, Connect(w) PROVE NoReader'
  BY <1>17, Names DEF Connect, NoReader, Drops, IInv, Exclusive, Owner, Sending, Fresh, TypeOK, PcOK, Goto, End, out, mem, SetTerm, CreateConn, Unrefs
<1>18. ASSUME NEW w \in Writers, OutStart(w) PROVE NoReader'
  BY <1>18, Names DEF OutStart, NoReader, Drops, IInv, Exclusive, Owner, Sending, Fresh, TypeOK, PcOK, Goto, End, out, mem, SetTerm, CreateConn, Unrefs
<1>19. ASSUME NEW w \in Writers, ConnectAgain(w) PROVE NoReader'
  BY <1>19, Names DEF ConnectAgain, NoReader, Drops, IInv, Exclusive, Owner, Sending, Fresh, TypeOK, PcOK, Goto, End, out, mem, SetTerm, CreateConn, Unrefs
<1>20. ASSUME NEW w \in Writers, ConnectOk(w) PROVE NoReader'
  BY <1>20, Names DEF ConnectOk, NoReader, Drops, IInv, Exclusive, Owner, Sending, Fresh, TypeOK, PcOK, Goto, End, out, mem, SetTerm, CreateConn, Unrefs
<1>21. ASSUME NEW w \in Writers, ConnectFails(w) PROVE NoReader'
  BY <1>21, Names DEF ConnectFails, NoReader, Drops, IInv, Exclusive, Owner, Sending, Fresh, TypeOK, PcOK, Goto, End, out, mem, SetTerm, CreateConn, Unrefs
<1>22. ASSUME NEW p \in Senders, SendStart(p) PROVE NoReader'
  <2>1. PICK l \in {"unref_fail", "sending", "block", "complete", "error"} : pc' = [pc EXCEPT ![p] = l]
    BY <1>22 DEF SendStart, Goto
  <2>2. state' = state /\ connecting' = connecting
    BY <1>22 DEF SendStart, out
  <2>3. pc'[reader] = pc[reader] /\ \A w \in Writers : pc'[Call(w)] = "created" => pc[Call(w)] = "created"
    BY <2>1, Names DEF IInv, TypeOK, PcOK
  <2> QED
    BY <2>2, <2>3 DEF NoReader
<1>23. ASSUME NEW p \in Senders, SendResult(p) PROVE NoReader'
  <2>1. PICK l \in {"unref_fail", "sending", "block", "complete", "error"} : pc' = [pc EXCEPT ![p] = l]
    BY <1>23 DEF SendResult, Goto
  <2>2. state' = state /\ connecting' = connecting
    BY <1>23 DEF SendResult, out
  <2>3. pc'[reader] = pc[reader] /\ \A w \in Writers : pc'[Call(w)] = "created" => pc[Call(w)] = "created"
    BY <2>1, Names DEF IInv, TypeOK, PcOK
  <2> QED
    BY <2>2, <2>3 DEF NoReader
<1>24. ASSUME NEW p \in Senders, Block(p) PROVE NoReader'
  BY <1>24, Names DEF Block, NoReader, Drops, IInv, Exclusive, Owner, Sending, Fresh, TypeOK, PcOK, Goto, End, out, mem, SetTerm, CreateConn, Unrefs
<1>25. ASSUME NEW p \in Senders, Complete(p) PROVE NoReader'
  <2>1. connecting' = connecting /\ state' # "NONE"
    BY <1>25, Names DEF Complete, IInv, Fresh
  <2>2. \A w \in Writers : pc'[Call(w)] = "created" => pc[Call(w)] = "created"
    BY <1>25, CompleteMoves, Names
  <2> QED
    BY <1>25, <2>1, <2>2, CompleteMoves DEF NoReader
<1>26. ASSUME NEW p \in Senders, SendError(p) PROVE NoReader'
  BY <1>26, Names DEF SendError, NoReader, Drops, IInv, Exclusive, Owner, Sending, Fresh, TypeOK, PcOK, Goto, End, out, mem, SetTerm, CreateConn, Unrefs
<1>27. ASSUME NEW p \in Senders, FireIn(p) PROVE NoReader'
  BY <1>27, Names DEF FireIn, NoReader, Drops, IInv, Exclusive, Owner, Sending, Fresh, TypeOK, PcOK, Goto, End, out, mem, SetTerm, CreateConn, Unrefs
<1>28. ASSUME NEW p \in Procs, Unref(p) PROVE NoReader'
  BY <1>28, Names DEF Unref, NoReader, Drops, IInv, Exclusive, Owner, Sending, Fresh, TypeOK, PcOK, Goto, End, out, mem, SetTerm, CreateConn, Unrefs
<1>29. ASSUME NEW p \in Procs, Unlink(p) PROVE NoReader'
  BY <1>29, Names DEF Unlink, NoReader, Drops, IInv, Exclusive, Owner, Sending, Fresh, TypeOK, PcOK, Goto, End, out, mem, SetTerm, CreateConn, Unrefs
<1>30. ASSUME NEW p \in Procs, RemoveEnd(p) PROVE NoReader'
  BY <1>30, Names DEF RemoveEnd, IpLockFree, NoReader, Drops, IInv, Exclusive, Owner, Sending, Fresh, TypeOK, PcOK, Goto, End, out, mem, SetTerm, CreateConn, Unrefs
<1>31. ASSUME NEW p \in Procs, Unlock(p) PROVE NoReader'
  BY <1>31, Names DEF Unlock, NoReader, Drops, IInv, Exclusive, Owner, Sending, Fresh, TypeOK, PcOK, Goto, End, out, mem, SetTerm, CreateConn, Unrefs
<1>32. ASSUME NEW x \in {"in", "out"}, HandleFire(x) PROVE NoReader'
  BY <1>32, Names DEF HandleFire, NoReader, Drops, IInv, Exclusive, Owner, Sending, Fresh, TypeOK, PcOK, Goto, End, out, mem, SetTerm, CreateConn, Unrefs
<1> QED
  BY <1>1, <1>2, <1>3, <1>4, <1>5, <1>6, <1>7, <1>8, <1>9, <1>10, <1>11, <1>12, <1>13, <1>14, <1>15, <1>16, <1>17, <1>18, <1>19, <1>20, <1>21, <1>22, <1>23, <1>24, <1>25, <1>26, <1>27, <1>28, <1>29, <1>30, <1>31, <1>32
     DEF Next, Environment, Reader, Timer, Write, Resume, Send, Common

(* Where one thing ends connections, nobody ends one that has ended. *)
LEMMA AloneStep == OneEnd /\ IInv /\ Alone /\ Next => Alone'
<1> SUFFICES ASSUME OneEnd, IInv, Alone, Next PROVE Alone'
  OBVIOUS
<1>1. ASSUME Accept PROVE Alone'
  BY <1>1, Names DEF Accept, OneEnd, Alone, IInv, Exclusive, Owner, Sending, Fresh, TypeOK, PcOK, Goto, End, out, mem, SetTerm, CreateConn, Unrefs
<1>2. ASSUME InEvent PROVE Alone'
  BY <1>2, Names DEF InEvent, OneEnd, Alone, IInv, Exclusive, Owner, Sending, Fresh, TypeOK, PcOK, Goto, End, out, mem, SetTerm, CreateConn, Unrefs
<1>3. ASSUME TimerScan PROVE Alone'
  BY <1>3, Names DEF TimerScan, OneEnd, Alone, IInv, Exclusive, Owner, Sending, Fresh, TypeOK, PcOK, Goto, End, out, mem, SetTerm, CreateConn, Unrefs
<1>4. ASSUME NEW w \in Writers, Search(w) PROVE Alone'
  BY <1>4, Names DEF Search, OneEnd, Alone, IInv, Exclusive, Owner, Sending, Fresh, TypeOK, PcOK, Goto, End, out, mem, SetTerm, CreateConn, Unrefs
<1>5. ASSUME NEW w \in Writers, Match(w) PROVE Alone'
  BY <1>5, Names DEF Match, IpLockFree, OneEnd, Alone, IInv, Exclusive, Owner, Sending, Fresh, TypeOK, PcOK, Goto, End, out, mem, SetTerm, CreateConn, Unrefs
<1>6. ASSUME NEW w \in Writers, SearchFails(w) PROVE Alone'
  BY <1>6, Names DEF SearchFails, OneEnd, Alone, IInv, Exclusive, Owner, Sending, Fresh, TypeOK, PcOK, Goto, End, out, mem, SetTerm, CreateConn, Unrefs
<1>7. ASSUME NEW w \in Writers, Create(w) PROVE Alone'
  BY <1>7, Names DEF Create, OneEnd, Alone, IInv, Exclusive, Owner, Sending, Fresh, TypeOK, PcOK, Goto, End, out, mem, SetTerm, CreateConn, Unrefs
<1>8. ASSUME NEW w \in Writers, OutEvent(w) PROVE Alone'
  BY <1>8, Names DEF OutEvent, OneEnd, Alone, IInv, Exclusive, Owner, Sending, Fresh, TypeOK, PcOK, Goto, End, out, mem, SetTerm, CreateConn, Unrefs
<1>9. ASSUME SubmitIn PROVE Alone'
  BY <1>9, Names DEF SubmitIn, OneEnd, Alone, IInv, Exclusive, Owner, Sending, Fresh, TypeOK, PcOK, Goto, End, out, mem, SetTerm, CreateConn, Unrefs
<1>10. ASSUME ReadStart PROVE Alone'
  BY <1>10, Names DEF ReadStart, OneEnd, Alone, IInv, Exclusive, Owner, Sending, Fresh, TypeOK, PcOK, Goto, End, out, mem, SetTerm, CreateConn, Unrefs
<1>11. ASSUME ReadResult PROVE Alone'
  BY <1>11, Names DEF ReadResult, OneEnd, Alone, IInv, Exclusive, Owner, Sending, Fresh, TypeOK, PcOK, Goto, End, out, mem, SetTerm, CreateConn, Unrefs
<1>12. ASSUME Resubmit PROVE Alone'
  BY <1>12, Names DEF Resubmit, OneEnd, Alone, IInv, Exclusive, Owner, Sending, Fresh, TypeOK, PcOK, Goto, End, out, mem, SetTerm, CreateConn, Unrefs
<1>13. ASSUME Terminate PROVE Alone'
  BY <1>13, Names DEF Terminate, OneEnd, Alone, IInv, Exclusive, Owner, Sending, Fresh, TypeOK, PcOK, Goto, End, out, mem, SetTerm, CreateConn, Unrefs
<1>14. ASSUME TimerTerm PROVE Alone'
  BY <1>14, Names DEF TimerTerm, OneEnd, Alone, IInv, Exclusive, Owner, Sending, Fresh, TypeOK, PcOK, Goto, End, out, mem, SetTerm, CreateConn, Unrefs
<1>15. ASSUME TimerFire PROVE Alone'
  BY <1>15, Names DEF TimerFire, OneEnd, Alone, IInv, Exclusive, Owner, Sending, Fresh, TypeOK, PcOK, Goto, End, out, mem, SetTerm, CreateConn, Unrefs
<1>16. ASSUME NEW w \in Writers, SetWriting(w) PROVE Alone'
  <2>1. PICK x \in {"send", "unref_queued", "unref_fail"} : pc' = [pc EXCEPT ![Call(w)] = x]
    BY <1>16, WritingMoves
  <2>2. state' = "TERM" => state = "TERM"
    BY <1>16, WritingMoves
  <2> QED
    BY <2>1, <2>2, Names DEF Alone, IInv, TypeOK, PcOK
<1>17. ASSUME NEW w \in Writers, Connect(w) PROVE Alone'
  BY <1>17, ConnectMoves DEF Alone, OneEnd
<1>18. ASSUME NEW w \in Writers, OutStart(w) PROVE Alone'
  BY <1>18, Names DEF OutStart, OneEnd, Alone, IInv, Exclusive, Owner, Sending, Fresh, TypeOK, PcOK, Goto, End, out, mem, SetTerm, CreateConn, Unrefs
<1>19. ASSUME NEW w \in Writers, ConnectAgain(w) PROVE Alone'
  BY <1>19, Names DEF ConnectAgain, OneEnd, Alone, IInv, Exclusive, Owner, Sending, Fresh, TypeOK, PcOK, Goto, End, out, mem, SetTerm, CreateConn, Unrefs
<1>20. ASSUME NEW w \in Writers, ConnectOk(w) PROVE Alone'
  BY <1>20, Names DEF ConnectOk, OneEnd, Alone, IInv, Exclusive, Owner, Sending, Fresh, TypeOK, PcOK, Goto, End, out, mem, SetTerm, CreateConn, Unrefs
<1>21. ASSUME NEW w \in Writers, ConnectFails(w) PROVE Alone'
  BY <1>21, Names DEF ConnectFails, OneEnd, Alone, IInv, Exclusive, Owner, Sending, Fresh, TypeOK, PcOK, Goto, End, out, mem, SetTerm, CreateConn, Unrefs
<1>22. ASSUME NEW p \in Senders, SendStart(p) PROVE Alone'
  BY <1>22, Names DEF SendStart, OneEnd, Alone, IInv, Exclusive, Owner, Sending, Fresh, TypeOK, PcOK, Goto, End, out, mem, SetTerm, CreateConn, Unrefs
<1>23. ASSUME NEW p \in Senders, SendResult(p) PROVE Alone'
  BY <1>23, Names DEF SendResult, OneEnd, Alone, IInv, Exclusive, Owner, Sending, Fresh, TypeOK, PcOK, Goto, End, out, mem, SetTerm, CreateConn, Unrefs
<1>24. ASSUME NEW p \in Senders, Block(p) PROVE Alone'
  BY <1>24, BlockMoves DEF Alone
<1>25. ASSUME NEW p \in Senders, Complete(p) PROVE Alone'
  BY <1>25, CompleteMoves DEF Alone
<1>26. ASSUME NEW p \in Senders, SendError(p) PROVE Alone'
  <2>1. pc[p] = "error" /\ "send" \in Events /\ state # "TERM"
    BY <1>26 DEF SendError, Alone
  <2>2. pc' = [pc EXCEPT ![p] = "unlink"]
    BY <1>26, <2>1 DEF SendError, Goto
  <2>3. \A q \in Senders \ {p} : pc[q] \notin {"sending", "error"}
    BY <2>1 DEF IInv, Exclusive, Owner, Sending
  <2>4. "read" \notin Events
    BY <2>1 DEF OneEnd
  <2> QED
    BY <2>1, <2>2, <2>3, <2>4, Names DEF Alone, IInv, TypeOK, PcOK
<1>27. ASSUME NEW p \in Senders, FireIn(p) PROVE Alone'
  BY <1>27, Names DEF FireIn, OneEnd, Alone, IInv, Exclusive, Owner, Sending, Fresh, TypeOK, PcOK, Goto, End, out, mem, SetTerm, CreateConn, Unrefs
<1>28. ASSUME NEW p \in Procs, Unref(p) PROVE Alone'
  BY <1>28, Names DEF Unref, OneEnd, Alone, IInv, Exclusive, Owner, Sending, Fresh, TypeOK, PcOK, Goto, End, out, mem, SetTerm, CreateConn, Unrefs
<1>29. ASSUME NEW p \in Procs, Unlink(p) PROVE Alone'
  BY <1>29, Names DEF Unlink, OneEnd, Alone, IInv, Exclusive, Owner, Sending, Fresh, TypeOK, PcOK, Goto, End, out, mem, SetTerm, CreateConn, Unrefs
<1>30. ASSUME NEW p \in Procs, RemoveEnd(p) PROVE Alone'
  BY <1>30, Names DEF RemoveEnd, IpLockFree, OneEnd, Alone, IInv, Exclusive, Owner, Sending, Fresh, TypeOK, PcOK, Goto, End, out, mem, SetTerm, CreateConn, Unrefs
<1>31. ASSUME NEW p \in Procs, Unlock(p) PROVE Alone'
  BY <1>31, Names DEF Unlock, OneEnd, Alone, IInv, Exclusive, Owner, Sending, Fresh, TypeOK, PcOK, Goto, End, out, mem, SetTerm, CreateConn, Unrefs
<1>32. ASSUME NEW x \in {"in", "out"}, HandleFire(x) PROVE Alone'
  BY <1>32, Names DEF HandleFire, OneEnd, Alone, IInv, Exclusive, Owner, Sending, Fresh, TypeOK, PcOK, Goto, End, out, mem, SetTerm, CreateConn, Unrefs
<1> QED
  BY <1>1, <1>2, <1>3, <1>4, <1>5, <1>6, <1>7, <1>8, <1>9, <1>10, <1>11, <1>12, <1>13, <1>14, <1>15, <1>16, <1>17, <1>18, <1>19, <1>20, <1>21, <1>22, <1>23, <1>24, <1>25, <1>26, <1>27, <1>28, <1>29, <1>30, <1>31, <1>32
     DEF Next, Environment, Reader, Timer, Write, Resume, Send, Common

(* If sends do not fail the timer does not look at a connection the reader unrefs. *)
LEMMA LockOrderStep == "send" \notin Events /\ IInv /\ Drops /\ NoReader /\ LockOrder /\ Next => LockOrder'
<1> SUFFICES ASSUME "send" \notin Events, IInv, Drops, NoReader, LockOrder, Next PROVE LockOrder'
  OBVIOUS
<1>1. ASSUME Accept PROVE LockOrder'
  BY <1>1, Names DEF Accept, NoReader, Drops, LockOrder, TimerEnds, IInv, Exclusive, Owner, Sending, Fresh, TypeOK, PcOK, Goto, End, out, mem, SetTerm, CreateConn, Unrefs
<1>2. ASSUME InEvent PROVE LockOrder'
  BY <1>2, Names DEF InEvent, NoReader, Drops, LockOrder, TimerEnds, IInv, Exclusive, Owner, Sending, Fresh, TypeOK, PcOK, Goto, End, out, mem, SetTerm, CreateConn, Unrefs
<1>3. ASSUME TimerScan PROVE LockOrder'
  BY <1>3, Names DEF TimerScan, NoReader, Drops, LockOrder, TimerEnds, IInv, Exclusive, Owner, Sending, Fresh, TypeOK, PcOK, Goto, End, out, mem, SetTerm, CreateConn, Unrefs
<1>4. ASSUME NEW w \in Writers, Search(w) PROVE LockOrder'
  BY <1>4, Names DEF Search, NoReader, Drops, LockOrder, TimerEnds, IInv, Exclusive, Owner, Sending, Fresh, TypeOK, PcOK, Goto, End, out, mem, SetTerm, CreateConn, Unrefs
<1>5. ASSUME NEW w \in Writers, Match(w) PROVE LockOrder'
  BY <1>5, Names DEF Match, IpLockFree, NoReader, Drops, LockOrder, TimerEnds, IInv, Exclusive, Owner, Sending, Fresh, TypeOK, PcOK, Goto, End, out, mem, SetTerm, CreateConn, Unrefs
<1>6. ASSUME NEW w \in Writers, SearchFails(w) PROVE LockOrder'
  BY <1>6, Names DEF SearchFails, NoReader, Drops, LockOrder, TimerEnds, IInv, Exclusive, Owner, Sending, Fresh, TypeOK, PcOK, Goto, End, out, mem, SetTerm, CreateConn, Unrefs
<1>7. ASSUME NEW w \in Writers, Create(w) PROVE LockOrder'
  BY <1>7, Names DEF Create, NoReader, Drops, LockOrder, TimerEnds, IInv, Exclusive, Owner, Sending, Fresh, TypeOK, PcOK, Goto, End, out, mem, SetTerm, CreateConn, Unrefs
<1>8. ASSUME NEW w \in Writers, OutEvent(w) PROVE LockOrder'
  BY <1>8, Names DEF OutEvent, NoReader, Drops, LockOrder, TimerEnds, IInv, Exclusive, Owner, Sending, Fresh, TypeOK, PcOK, Goto, End, out, mem, SetTerm, CreateConn, Unrefs
<1>9. ASSUME SubmitIn PROVE LockOrder'
  BY <1>9, Names DEF SubmitIn, NoReader, Drops, LockOrder, TimerEnds, IInv, Exclusive, Owner, Sending, Fresh, TypeOK, PcOK, Goto, End, out, mem, SetTerm, CreateConn, Unrefs
<1>10. ASSUME ReadStart PROVE LockOrder'
  BY <1>10, Names DEF ReadStart, NoReader, Drops, LockOrder, TimerEnds, IInv, Exclusive, Owner, Sending, Fresh, TypeOK, PcOK, Goto, End, out, mem, SetTerm, CreateConn, Unrefs
<1>11. ASSUME ReadResult PROVE LockOrder'
  BY <1>11, Names DEF ReadResult, NoReader, Drops, LockOrder, TimerEnds, IInv, Exclusive, Owner, Sending, Fresh, TypeOK, PcOK, Goto, End, out, mem, SetTerm, CreateConn, Unrefs
<1>12. ASSUME Resubmit PROVE LockOrder'
  BY <1>12, Names DEF Resubmit, NoReader, Drops, LockOrder, TimerEnds, IInv, Exclusive, Owner, Sending, Fresh, TypeOK, PcOK, Goto, End, out, mem, SetTerm, CreateConn, Unrefs
<1>13. ASSUME Terminate PROVE LockOrder'
  <2>1. pc[reader] = "terminate" /\ state' = "TERM" /\ links' = links
    BY <1>13 DEF Terminate, SetTerm, mem
  <2>2. pc' = [pc EXCEPT ![reader] = IF state = "TERM" THEN "off" ELSE "unlink"]
    BY <1>13 DEF Terminate, Goto
  <2>3. \A p \in Senders : pc[p] # "connect"
    <3>1. ~ connecting
      BY <2>1 DEF NoReader
    <3>2. \A w \in Writers : pc[Out(w)] # "connect" /\ pc[Call(w)] # "connect"
      BY <3>1 DEF Drops, IInv, TypeOK, PcOK, CallSteps, SendSteps
    <3> QED
      BY <3>2, Names
  <2> QED
    BY <2>1, <2>2, <2>3, Names DEF LockOrder, IInv, TypeOK, PcOK
<1>14. ASSUME TimerTerm PROVE LockOrder'
  BY <1>14, Names DEF TimerTerm, NoReader, Drops, LockOrder, TimerEnds, IInv, Exclusive, Owner, Sending, Fresh, TypeOK, PcOK, Goto, End, out, mem, SetTerm, CreateConn, Unrefs
<1>15. ASSUME TimerFire PROVE LockOrder'
  BY <1>15, Names DEF TimerFire, NoReader, Drops, LockOrder, TimerEnds, IInv, Exclusive, Owner, Sending, Fresh, TypeOK, PcOK, Goto, End, out, mem, SetTerm, CreateConn, Unrefs
<1>16. ASSUME NEW w \in Writers, SetWriting(w) PROVE LockOrder'
  <2>1. PICK x \in {"send", "unref_queued", "unref_fail"} : pc' = [pc EXCEPT ![Call(w)] = x]
    BY <1>16, WritingMoves
  <2>2. (state' = "TERM" <=> state = "TERM") /\ links' = links
    BY <1>16, WritingMoves
  <2> QED
    BY <2>1, <2>2, Names DEF LockOrder, TimerEnds, IInv, TypeOK, PcOK
<1>17. ASSUME NEW w \in Writers, Connect(w) PROVE LockOrder'
  BY <1>17, ConnectMoves DEF LockOrder, TimerEnds
<1>18. ASSUME NEW w \in Writers, OutStart(w) PROVE LockOrder'
  BY <1>18, Names DEF OutStart, NoReader, Drops, LockOrder, TimerEnds, IInv, Exclusive, Owner, Sending, Fresh, TypeOK, PcOK, Goto, End, out, mem, SetTerm, CreateConn, Unrefs
<1>19. ASSUME NEW w \in Writers, ConnectAgain(w) PROVE LockOrder'
  BY <1>19, Names DEF ConnectAgain, NoReader, Drops, LockOrder, TimerEnds, IInv, Exclusive, Owner, Sending, Fresh, TypeOK, PcOK, Goto, End, out, mem, SetTerm, CreateConn, Unrefs
<1>20. ASSUME NEW w \in Writers, ConnectOk(w) PROVE LockOrder'
  BY <1>20, Names DEF ConnectOk, NoReader, Drops, LockOrder, TimerEnds, IInv, Exclusive, Owner, Sending, Fresh, TypeOK, PcOK, Goto, End, out, mem, SetTerm, CreateConn, Unrefs
<1>21. ASSUME NEW w \in Writers, ConnectFails(w) PROVE LockOrder'
  BY <1>21, Names DEF ConnectFails, NoReader, Drops, LockOrder, TimerEnds, IInv, Exclusive, Owner, Sending, Fresh, TypeOK, PcOK, Goto, End, out, mem, SetTerm, CreateConn, Unrefs
<1>22. ASSUME NEW p \in Senders, SendStart(p) PROVE LockOrder'
  BY <1>22, Names DEF SendStart, NoReader, Drops, LockOrder, TimerEnds, IInv, Exclusive, Owner, Sending, Fresh, TypeOK, PcOK, Goto, End, out, mem, SetTerm, CreateConn, Unrefs
<1>23. ASSUME NEW p \in Senders, SendResult(p) PROVE LockOrder'
  BY <1>23, Names DEF SendResult, NoReader, Drops, LockOrder, TimerEnds, IInv, Exclusive, Owner, Sending, Fresh, TypeOK, PcOK, Goto, End, out, mem, SetTerm, CreateConn, Unrefs
<1>24. ASSUME NEW p \in Senders, Block(p) PROVE LockOrder'
  BY <1>24, BlockMoves DEF LockOrder, TimerEnds
<1>25. ASSUME NEW p \in Senders, Complete(p) PROVE LockOrder'
  BY <1>25, CompleteMoves DEF LockOrder, TimerEnds
<1>26. ASSUME NEW p \in Senders, SendError(p) PROVE LockOrder'
  BY <1>26, Names DEF SendError, NoReader, Drops, LockOrder, TimerEnds, IInv, Exclusive, Owner, Sending, Fresh, TypeOK, PcOK, Goto, End, out, mem, SetTerm, CreateConn, Unrefs
<1>27. ASSUME NEW p \in Senders, FireIn(p) PROVE LockOrder'
  BY <1>27, Names DEF FireIn, NoReader, Drops, LockOrder, TimerEnds, IInv, Exclusive, Owner, Sending, Fresh, TypeOK, PcOK, Goto, End, out, mem, SetTerm, CreateConn, Unrefs
<1>28. ASSUME NEW p \in Procs, Unref(p) PROVE LockOrder'
  BY <1>28, Names DEF Unref, NoReader, Drops, LockOrder, TimerEnds, IInv, Exclusive, Owner, Sending, Fresh, TypeOK, PcOK, Goto, End, out, mem, SetTerm, CreateConn, Unrefs
<1>29. ASSUME NEW p \in Procs, Unlink(p) PROVE LockOrder'
  BY <1>29, Names DEF Unlink, NoReader, Drops, LockOrder, TimerEnds, IInv, Exclusive, Owner, Sending, Fresh, TypeOK, PcOK, Goto, End, out, mem, SetTerm, CreateConn, Unrefs
<1>30. ASSUME NEW p \in Procs, RemoveEnd(p) PROVE LockOrder'
  BY <1>30, Names DEF RemoveEnd, IpLockFree, NoReader, Drops, LockOrder, TimerEnds, IInv, Exclusive, Owner, Sending, Fresh, TypeOK, PcOK, Goto, End, out, mem, SetTerm, CreateConn, Unrefs
<1>31. ASSUME NEW p \in Procs, Unlock(p) PROVE LockOrder'
  BY <1>31, Names DEF Unlock, NoReader, Drops, LockOrder, TimerEnds, IInv, Exclusive, Owner, Sending, Fresh, TypeOK, PcOK, Goto, End, out, mem, SetTerm, CreateConn, Unrefs
<1>32. ASSUME NEW x \in {"in", "out"}, HandleFire(x) PROVE LockOrder'
  BY <1>32, Names DEF HandleFire, NoReader, Drops, LockOrder, TimerEnds, IInv, Exclusive, Owner, Sending, Fresh, TypeOK, PcOK, Goto, End, out, mem, SetTerm, CreateConn, Unrefs
<1> QED
  BY <1>1, <1>2, <1>3, <1>4, <1>5, <1>6, <1>7, <1>8, <1>9, <1>10, <1>11, <1>12, <1>13, <1>14, <1>15, <1>16, <1>17, <1>18, <1>19, <1>20, <1>21, <1>22, <1>23, <1>24, <1>25, <1>26, <1>27, <1>28, <1>29, <1>30, <1>31, <1>32
     DEF Next, Environment, Reader, Timer, Write, Resume, Send, Common

(* Counting the threads that have a reference at least. *)
LEMMA CountingLeast ==
  ASSUME NEW S \in SUBSET Procs, NEW T \in SUBSET Procs
  PROVE  /\ Cardinality(S) \in Nat /\ Cardinality(T) \in Nat
         /\ S \subseteq T => Cardinality(S) <= Cardinality(T)
         /\ \A q \in Procs : q \notin S /\ S \union {q} \subseteq T => Cardinality(S) + 1 <= Cardinality(T)
         /\ \A p \in S : S \ {p} \subseteq T => Cardinality(S) - 1 <= Cardinality(T)
         /\ \A p \in S, q \in Procs : q \notin S /\ (S \ {p}) \union {q} \subseteq T
                                       => Cardinality(S) <= Cardinality(T)
<1>1. IsFiniteSet(S) /\ IsFiniteSet(T)
  BY ProcsFinite, FS_Subset
<1>2. Cardinality(S) \in Nat /\ Cardinality(T) \in Nat
  BY <1>1, FS_CardinalityType
<1>3. \A U : U \subseteq T => IsFiniteSet(U) /\ Cardinality(U) <= Cardinality(T)
  BY <1>1, FS_Subset
<1>4. \A q : q \notin S => Cardinality(S \union {q}) = Cardinality(S) + 1
  BY <1>1, FS_AddElement
<1>5. \A p \in S : IsFiniteSet(S \ {p}) /\ Cardinality(S \ {p}) = Cardinality(S) - 1
  BY <1>1, FS_RemoveElement
<1>6. ASSUME NEW p \in S, NEW q \in Procs, q \notin S
      PROVE  Cardinality((S \ {p}) \union {q}) = Cardinality(S)
  <2>1. q \notin S \ {p} /\ IsFiniteSet(S \ {p})
    BY <1>5, <1>6
  <2>2. Cardinality((S \ {p}) \union {q}) = Cardinality(S \ {p}) + 1
    BY <2>1, FS_AddElement
  <2> QED
    BY <1>2, <1>5, <2>2
<1> QED
  BY <1>2, <1>3, <1>4, <1>5, <1>6

(* The holders after a step cover ref. *)
LEMMA LeastSame ==
  ASSUME TypeOK, RefsLeast, Holders \subseteq Holders', ref' = ref, ~ freed' => ~ freed
  PROVE  RefsLeast'
<1>1. Holders \in SUBSET Procs /\ Holders' \in SUBSET Procs
  BY DEF Holders
<1>2. /\ Cardinality(Holders) \in Nat /\ Cardinality(Holders') \in Nat
      /\ Cardinality(Holders) <= Cardinality(Holders')
  BY <1>1, CountingLeast
<1> QED
  BY <1>2 DEF TypeOK, RefsLeast

(* One more has a reference. *)
LEMMA LeastUp ==
  ASSUME TypeOK, RefsLeast, NEW q \in Procs, q \notin Holders, Holders \union {q} \subseteq Holders',
         ref' = ref + 1, ~ freed' => ~ freed
  PROVE  RefsLeast'
<1>1. Holders \in SUBSET Procs /\ Holders' \in SUBSET Procs
  BY DEF Holders
<1>2. /\ Cardinality(Holders) \in Nat /\ Cardinality(Holders') \in Nat
      /\ Cardinality(Holders) + 1 <= Cardinality(Holders')
  BY <1>1, CountingLeast
<1> QED
  BY <1>2 DEF TypeOK, RefsLeast

(* One less. *)
LEMMA LeastDown ==
  ASSUME TypeOK, RefsLeast, NEW p \in Holders, Holders \ {p} \subseteq Holders',
         ref' = ref - 1, ~ freed' => ~ freed
  PROVE  RefsLeast'
<1>1. Holders \in SUBSET Procs /\ Holders' \in SUBSET Procs
  BY DEF Holders
<1>2. /\ Cardinality(Holders) \in Nat /\ Cardinality(Holders') \in Nat
      /\ Cardinality(Holders) - 1 <= Cardinality(Holders')
  BY <1>1, CountingLeast
<1> QED
  BY <1>2 DEF TypeOK, RefsLeast

(* It is handed over. *)
LEMMA LeastMove ==
  ASSUME TypeOK, RefsLeast, NEW p \in Holders, NEW q \in Procs, q \notin Holders,
         (Holders \ {p}) \union {q} \subseteq Holders', ref' = ref, ~ freed' => ~ freed
  PROVE  RefsLeast'
<1>1. Holders \in SUBSET Procs /\ Holders' \in SUBSET Procs
  BY DEF Holders
<1>2. /\ Cardinality(Holders) \in Nat /\ Cardinality(Holders') \in Nat
      /\ Cardinality(Holders) <= Cardinality(Holders')
  BY <1>1, CountingLeast
<1> QED
  BY <1>2 DEF TypeOK, RefsLeast

(* Where one thing ends connections no reference is forgotten. *)
LEMMA RefsLeastStep == OneEnd /\ IInv /\ OnePlace /\ Drops /\ NoReader /\ Alone /\ RefsLeast /\ Next => RefsLeast'
<1> SUFFICES ASSUME OneEnd, IInv, OnePlace, Drops, NoReader, Alone, RefsLeast, Next PROVE RefsLeast'
  OBVIOUS
<1>1. ASSUME Accept PROVE RefsLeast'
  <2>1. Holders = {} /\ reader \in Holders' /\ ref' = 1
    BY <1>1, Names DEF Accept, CreateConn, Fresh, IInv, TypeOK, PcOK, Holders, NoRef, Goto, mem
  <2>2. {} \in SUBSET Procs /\ Holders' \in SUBSET Procs /\ Cardinality({}) = 0
    BY FS_EmptySet DEF Holders
  <2>3. Cardinality(Holders') \in Nat /\ 0 + 1 <= Cardinality(Holders')
    BY <2>1, <2>2, CountingLeast, Names
  <2> QED
    BY <2>1, <2>3 DEF RefsLeast
<1>2. ASSUME InEvent PROVE RefsLeast'
  <2>1. Holders \subseteq Holders' /\ ref' = ref /\ (~ freed' => ~ freed)
    BY <1>2, Names DEF InEvent, IInv, TypeOK, PcOK, Holders, NoRef, Goto, End, mem, Unrefs
  <2> QED
    BY <2>1, Names, LeastSame DEF IInv
<1>3. ASSUME TimerScan PROVE RefsLeast'
  <2>1. Holders \subseteq Holders' /\ ref' = ref /\ (~ freed' => ~ freed)
    BY <1>3, Names DEF TimerScan, IInv, TypeOK, PcOK, Holders, NoRef, Goto, End, mem, Unrefs
  <2> QED
    BY <2>1, Names, LeastSame DEF IInv
<1>4. ASSUME NEW w \in Writers, Search(w) PROVE RefsLeast'
  <2>1. Call(w) \notin Holders /\ Holders \union {Call(w)} \subseteq Holders' /\ ref' = ref + 1 /\ (~ freed' => ~ freed)
    BY <1>4, Names DEF Search, IInv, TypeOK, PcOK, Holders, NoRef, Goto, End, mem, Unrefs
  <2> QED
    BY <2>1, Names, LeastUp DEF IInv
<1>5. ASSUME NEW w \in Writers, Match(w) PROVE RefsLeast'
  <2>1. Holders \subseteq Holders' /\ ref' = ref /\ (~ freed' => ~ freed)
    BY <1>5, Names DEF Match, IpLockFree, IInv, TypeOK, PcOK, Holders, NoRef, Goto, End, mem, Unrefs
  <2> QED
    BY <2>1, Names, LeastSame DEF IInv
<1>6. ASSUME NEW w \in Writers, SearchFails(w) PROVE RefsLeast'
  <2>1. Holders \subseteq Holders' /\ ref' = ref /\ (~ freed' => ~ freed)
    BY <1>6, Names DEF SearchFails, IInv, TypeOK, PcOK, Holders, NoRef, Goto, End, mem, Unrefs
  <2> QED
    BY <2>1, Names, LeastSame DEF IInv
<1>7. ASSUME NEW w \in Writers, Create(w) PROVE RefsLeast'
  <2>1. Holders = {} /\ Call(w) \in Holders' /\ ref' = 1
    BY <1>7, Names DEF Create, CreateConn, Fresh, IInv, TypeOK, PcOK, Holders, NoRef, Goto, mem
  <2>2. {} \in SUBSET Procs /\ Holders' \in SUBSET Procs /\ Cardinality({}) = 0
    BY FS_EmptySet DEF Holders
  <2>3. Cardinality(Holders') \in Nat /\ 0 + 1 <= Cardinality(Holders')
    BY <2>1, <2>2, CountingLeast, Names
  <2> QED
    BY <2>1, <2>3 DEF RefsLeast
<1>8. ASSUME NEW w \in Writers, OutEvent(w) PROVE RefsLeast'
  <2>1. Holders \subseteq Holders' /\ ref' = ref /\ (~ freed' => ~ freed)
    BY <1>8, Names DEF OutEvent, IInv, TypeOK, PcOK, Holders, NoRef, Goto, End, mem, Unrefs
  <2> QED
    BY <2>1, Names, LeastSame DEF IInv
<1>9. ASSUME SubmitIn PROVE RefsLeast'
  <2>1. Holders \subseteq Holders' /\ ref' = ref /\ (~ freed' => ~ freed)
    BY <1>9, Names DEF SubmitIn, IInv, TypeOK, PcOK, Holders, NoRef, Goto, End, mem, Unrefs
  <2> QED
    BY <2>1, Names, LeastSame DEF IInv
<1>10. ASSUME ReadStart PROVE RefsLeast'
  <2>1. Holders \subseteq Holders' /\ ref' = ref /\ (~ freed' => ~ freed)
    BY <1>10, Names DEF ReadStart, IInv, TypeOK, PcOK, Holders, NoRef, Goto, End, mem, Unrefs
  <2> QED
    BY <2>1, Names, LeastSame DEF IInv
<1>11. ASSUME ReadResult PROVE RefsLeast'
  <2>1. Holders \subseteq Holders' /\ ref' = ref /\ (~ freed' => ~ freed)
    BY <1>11, Names DEF ReadResult, IInv, TypeOK, PcOK, Holders, NoRef, Goto, End, mem, Unrefs
  <2> QED
    BY <2>1, Names, LeastSame DEF IInv
<1>12. ASSUME Resubmit PROVE RefsLeast'
  <2>1. Holders \subseteq Holders' /\ ref' = ref /\ (~ freed' => ~ freed)
    BY <1>12, Names DEF Resubmit, IInv, TypeOK, PcOK, Holders, NoRef, Goto, End, mem, Unrefs
  <2> QED
    BY <2>1, Names, LeastSame DEF IInv
<1>13. ASSUME Terminate PROVE RefsLeast'
  <2>1. state # "TERM"
    BY <1>13 DEF Terminate, Alone
  <2>2. Holders \subseteq Holders' /\ ref' = ref /\ (~ freed' => ~ freed)
    BY <1>13, <2>1, Names DEF Terminate, IInv, TypeOK, PcOK, Holders, NoRef, Goto, End, mem, Unrefs
  <2> QED
    BY <2>2, LeastSame DEF IInv
<1>14. ASSUME TimerTerm PROVE RefsLeast'
  <2>1. CASE state = "TERM"
    <3>1. Holders \subseteq Holders' /\ ref' = ref /\ (~ freed' => ~ freed)
      BY <1>14, <2>1, Names DEF TimerTerm, IInv, TypeOK, PcOK, Holders, NoRef, Goto, End, mem, Unrefs
    <3> QED
      BY <3>1, LeastSame DEF IInv
  <2>2. CASE state # "TERM"
    <3>1. timer \notin Holders /\ Holders \union {timer} \subseteq Holders' /\ ref' = ref + 1 /\ (~ freed' => ~ freed)
      BY <1>14, <2>2, Names DEF TimerTerm, IInv, TypeOK, PcOK, Holders, NoRef, Goto, End, mem, Unrefs
    <3> QED
      BY <3>1, Names, LeastUp DEF IInv
  <2> QED
    BY <2>1, <2>2
<1>15. ASSUME TimerFire PROVE RefsLeast'
  <2>1. Holders \subseteq Holders' /\ ref' = ref /\ (~ freed' => ~ freed)
    BY <1>15, Names DEF TimerFire, IInv, TypeOK, PcOK, Holders, NoRef, Goto, End, mem, Unrefs
  <2> QED
    BY <2>1, Names, LeastSame DEF IInv
<1>16. ASSUME NEW w \in Writers, SetWriting(w) PROVE RefsLeast'
  <2>1. PICK x \in {"send", "unref_queued", "unref_fail"} : pc' = [pc EXCEPT ![Call(w)] = x]
    BY <1>16, WritingMoves
  <2>2. ref' = ref /\ freed' = freed
    BY <1>16 DEF SetWriting, mem
  <2>3. Holders \subseteq Holders'
    BY <2>1, Names DEF IInv, TypeOK, PcOK, Holders, NoRef
  <2> QED
    BY <2>2, <2>3, LeastSame DEF IInv
<1>17. ASSUME NEW w \in Writers, Connect(w) PROVE RefsLeast'
  <2>1. CASE pc' = [pc EXCEPT ![Call(w)] = "done", ![Out(w)] = "armed"]
    <3>1. /\ Call(w) \in Holders /\ Out(w) \notin Holders /\ ref' = ref /\ (~ freed' => ~ freed)
          /\ (Holders \ {Call(w)}) \union {Out(w)} \subseteq Holders'
      BY <1>17, <2>1, Names DEF Connect, OnePlace, IInv, TypeOK, PcOK, Holders, NoRef, Goto, End, mem, Unrefs
    <3> QED
      BY <3>1, Names, LeastMove DEF IInv
  <2>2. CASE Goto(Call(w), "send") \/ Goto(Call(w), "drop")
    <3>1. Holders \subseteq Holders' /\ ref' = ref /\ (~ freed' => ~ freed)
      BY <1>17, <2>2, Names DEF Connect, IInv, TypeOK, PcOK, Holders, NoRef, Goto, End, mem, Unrefs
    <3> QED
      BY <3>1, LeastSame DEF IInv
  <2> QED
    BY <1>17, <2>1, <2>2 DEF Connect
<1>18. ASSUME NEW w \in Writers, OutStart(w) PROVE RefsLeast'
  <2>1. Holders \subseteq Holders' /\ ref' = ref /\ (~ freed' => ~ freed)
    BY <1>18, Names DEF OutStart, IInv, TypeOK, PcOK, Holders, NoRef, Goto, End, mem, Unrefs
  <2> QED
    BY <2>1, Names, LeastSame DEF IInv
<1>19. ASSUME NEW w \in Writers, ConnectAgain(w) PROVE RefsLeast'
  <2>1. Holders \subseteq Holders' /\ ref' = ref /\ (~ freed' => ~ freed)
    BY <1>19, Names DEF ConnectAgain, IInv, TypeOK, PcOK, Holders, NoRef, Goto, End, mem, Unrefs
  <2> QED
    BY <2>1, Names, LeastSame DEF IInv
<1>20. ASSUME NEW w \in Writers, ConnectOk(w) PROVE RefsLeast'
  <2>1. pc[reader] = "off"
    BY <1>20 DEF ConnectOk, NoReader, Drops
  <2>2. reader \notin Holders /\ Holders \union {reader} \subseteq Holders' /\ ref' = ref + 1 /\ (~ freed' => ~ freed)
    BY <1>20, <2>1, Names DEF ConnectOk, IInv, TypeOK, PcOK, Holders, NoRef, Goto, End, mem, Unrefs
  <2> QED
    BY <2>2, Names, LeastUp DEF IInv
<1>21. ASSUME NEW w \in Writers, ConnectFails(w) PROVE RefsLeast'
  <2>1. Holders \subseteq Holders' /\ ref' = ref /\ (~ freed' => ~ freed)
    BY <1>21, Names DEF ConnectFails, IInv, TypeOK, PcOK, Holders, NoRef, Goto, End, mem, Unrefs
  <2> QED
    BY <2>1, Names, LeastSame DEF IInv
<1>22. ASSUME NEW p \in Senders, SendStart(p) PROVE RefsLeast'
  <2>1. Holders \subseteq Holders' /\ ref' = ref /\ (~ freed' => ~ freed)
    BY <1>22, Names DEF SendStart, IInv, TypeOK, PcOK, Holders, NoRef, Goto, End, mem, Unrefs
  <2> QED
    BY <2>1, Names, LeastSame DEF IInv
<1>23. ASSUME NEW p \in Senders, SendResult(p) PROVE RefsLeast'
  <2>1. Holders \subseteq Holders' /\ ref' = ref /\ (~ freed' => ~ freed)
    BY <1>23, Names DEF SendResult, IInv, TypeOK, PcOK, Holders, NoRef, Goto, End, mem, Unrefs
  <2> QED
    BY <2>1, Names, LeastSame DEF IInv
<1>24. ASSUME NEW p \in Senders, Block(p) PROVE RefsLeast'
  <2>1. ref' = ref /\ (~ freed' => ~ freed) /\ p \in Holders /\ Out(p[2]) \in Procs
    BY <1>24, Names DEF Block, IInv, TypeOK, PcOK, Holders, NoRef, Goto, End, mem, Unrefs
  <2>2. CASE pc' = [pc EXCEPT ![p] = End(p), ![Out(p[2])] = "armed"]
    <3>1. CASE p = Out(p[2])
      <4>1. Holders \subseteq Holders'
        BY <2>2, <3>1, Names DEF IInv, TypeOK, PcOK, Holders, NoRef, Goto, End, mem, Unrefs
      <4> QED
        BY <2>1, <4>1, LeastSame DEF IInv
    <3>2. CASE p = Call(p[2])
      <4>1. Out(p[2]) \notin Holders /\ (Holders \ {p}) \union {Out(p[2])} \subseteq Holders'
        BY <1>24, <2>2, <3>2, Names DEF Block, OnePlace, IInv, TypeOK, PcOK, Holders, NoRef, Goto, End, mem, Unrefs
      <4> QED
        BY <2>1, <4>1, LeastMove DEF IInv
    <3> QED
      BY <3>1, <3>2, Names
  <2>3. CASE Goto(p, "unref_fail")
    <3>1. Holders \subseteq Holders'
      BY <2>3, Names DEF IInv, TypeOK, PcOK, Holders, NoRef, Goto, End, mem, Unrefs
    <3> QED
      BY <2>1, <3>1, LeastSame DEF IInv
  <2> QED
    BY <1>24, <2>2, <2>3 DEF Block
<1>25. ASSUME NEW p \in Senders, Complete(p) PROVE RefsLeast'
  <2>1. ref' = ref /\ (~ freed' => ~ freed) /\ p \in Holders
    BY <1>25, Names DEF Complete, IInv, TypeOK, PcOK, Holders, NoRef, Goto, End, mem, Unrefs
  <2>2. CASE state = "WRITING" /\ pending # <<>>
    <3> DEFINE h == Head(pending)
    <3>1. h \in Writers /\ h \in Waiting
      <4>1. pending \in Seq(Writers)
        BY DEF IInv, TypeOK
      <4> QED
        BY <2>2, <4>1, HeadWaits DEF Waiting
    <3>2. pc[Out(h)] = "off" /\ Out(h) \in Procs
      BY <3>1, Names DEF OnePlace
    <3>3. pc' = [pc EXCEPT ![p] = End(p), ![Out(h)] = "task"]
      BY <1>25, <2>2 DEF Complete
    <3>4. Out(h) \notin Holders /\ (Holders \ {p}) \union {Out(h)} \subseteq Holders'
      BY <3>2, <3>3, Names DEF IInv, TypeOK, PcOK, Holders, NoRef, Goto, End, mem, Unrefs
    <3> QED
      BY <2>1, <3>2, <3>4, LeastMove DEF IInv
  <2>3. CASE ~ (state = "WRITING" /\ pending # <<>>)
    <3>1. Holders \subseteq Holders'
      BY <1>25, <2>3, Names DEF Complete, IInv, TypeOK, PcOK, Holders, NoRef, Goto, End, mem, Unrefs
    <3> QED
      BY <2>1, <3>1, LeastSame DEF IInv
  <2> QED
    BY <2>2, <2>3
<1>26. ASSUME NEW p \in Senders, SendError(p) PROVE RefsLeast'
  <2>1. state # "TERM"
    BY <1>26 DEF SendError, Alone
  <2>2. Holders \subseteq Holders' /\ ref' = ref /\ (~ freed' => ~ freed)
    BY <1>26, <2>1, Names DEF SendError, IInv, TypeOK, PcOK, Holders, NoRef, Goto, End, mem, Unrefs
  <2> QED
    BY <2>2, LeastSame DEF IInv
<1>27. ASSUME NEW p \in Senders, FireIn(p) PROVE RefsLeast'
  <2>1. Holders \subseteq Holders' /\ ref' = ref /\ (~ freed' => ~ freed)
    BY <1>27, Names DEF FireIn, IInv, TypeOK, PcOK, Holders, NoRef, Goto, End, mem, Unrefs
  <2> QED
    BY <2>1, Names, LeastSame DEF IInv
<1>28. ASSUME NEW p \in Procs, Unref(p) PROVE RefsLeast'
  <2>1. p \in Holders /\ Holders \ {p} \subseteq Holders' /\ ref' = ref - 1 /\ (~ freed' => ~ freed)
    BY <1>28, Names DEF Unref, IInv, TypeOK, PcOK, Holders, NoRef, Goto, End, mem, Unrefs
  <2> QED
    BY <2>1, Names, LeastDown DEF IInv
<1>29. ASSUME NEW p \in Procs, Unlink(p) PROVE RefsLeast'
  <2>1. pc[p] = "unlink"
    BY <1>29, WhoEnds DEF Unlink, Alone
  <2>2. p \in Holders /\ Holders \ {p} \subseteq Holders' /\ ref' = ref - 1 /\ (~ freed' => ~ freed)
    BY <1>29, <2>1, Names DEF Unlink, IInv, TypeOK, PcOK, Holders, NoRef, Goto, End, mem, Unrefs
  <2> QED
    BY <2>2, LeastDown DEF IInv
<1>30. ASSUME NEW p \in Procs, RemoveEnd(p) PROVE RefsLeast'
  <2>1. Holders \subseteq Holders' /\ ref' = ref /\ (~ freed' => ~ freed)
    BY <1>30, Names DEF RemoveEnd, IpLockFree, IInv, TypeOK, PcOK, Holders, NoRef, Goto, End, mem, Unrefs
  <2> QED
    BY <2>1, Names, LeastSame DEF IInv
<1>31. ASSUME NEW p \in Procs, Unlock(p) PROVE RefsLeast'
  <2>1. Holders \subseteq Holders' /\ ref' = ref /\ (~ freed' => ~ freed)
    BY <1>31, Names DEF Unlock, IInv, TypeOK, PcOK, Holders, NoRef, Goto, End, mem, Unrefs
  <2> QED
    BY <2>1, Names, LeastSame DEF IInv
<1>32. ASSUME NEW x \in {"in", "out"}, HandleFire(x) PROVE RefsLeast'
  <2>1. Holders \subseteq Holders' /\ ref' = ref /\ (~ freed' => ~ freed)
    BY <1>32, Names DEF HandleFire, IInv, TypeOK, PcOK, Holders, NoRef, Goto, End, mem, Unrefs
  <2> QED
    BY <2>1, Names, LeastSame DEF IInv
<1> QED
  BY <1>1, <1>2, <1>3, <1>4, <1>5, <1>6, <1>7, <1>8, <1>9, <1>10, <1>11, <1>12, <1>13, <1>14, <1>15, <1>16, <1>17, <1>18, <1>19, <1>20, <1>21, <1>22, <1>23, <1>24, <1>25, <1>26, <1>27, <1>28, <1>29, <1>30, <1>31, <1>32
     DEF Next, Environment, Reader, Timer, Write, Resume, Send, Common

(* The timer finds a connection only where connections time out. *)
LEMMA NeverExpired == "timeout" \notin Events /\ IInv /\ pc[timer] # "expired" /\ Next => pc'[timer] # "expired"
<1> SUFFICES ASSUME "timeout" \notin Events, IInv, pc[timer] # "expired", Next PROVE pc'[timer] # "expired"
  OBVIOUS
<1>1. ASSUME Accept PROVE pc'[timer] # "expired"
  BY <1>1, Names DEF Accept, IInv, Exclusive, Owner, Sending, Fresh, TypeOK, PcOK, Goto, End, out, mem, SetTerm, CreateConn, Unrefs
<1>2. ASSUME InEvent PROVE pc'[timer] # "expired"
  BY <1>2, Names DEF InEvent, IInv, Exclusive, Owner, Sending, Fresh, TypeOK, PcOK, Goto, End, out, mem, SetTerm, CreateConn, Unrefs
<1>3. ASSUME TimerScan PROVE pc'[timer] # "expired"
  BY <1>3, Names DEF TimerScan, IInv, Exclusive, Owner, Sending, Fresh, TypeOK, PcOK, Goto, End, out, mem, SetTerm, CreateConn, Unrefs
<1>4. ASSUME NEW w \in Writers, Search(w) PROVE pc'[timer] # "expired"
  BY <1>4, Names DEF Search, IInv, Exclusive, Owner, Sending, Fresh, TypeOK, PcOK, Goto, End, out, mem, SetTerm, CreateConn, Unrefs
<1>5. ASSUME NEW w \in Writers, Match(w) PROVE pc'[timer] # "expired"
  BY <1>5, Names DEF Match, IpLockFree, IInv, Exclusive, Owner, Sending, Fresh, TypeOK, PcOK, Goto, End, out, mem, SetTerm, CreateConn, Unrefs
<1>6. ASSUME NEW w \in Writers, SearchFails(w) PROVE pc'[timer] # "expired"
  BY <1>6, Names DEF SearchFails, IInv, Exclusive, Owner, Sending, Fresh, TypeOK, PcOK, Goto, End, out, mem, SetTerm, CreateConn, Unrefs
<1>7. ASSUME NEW w \in Writers, Create(w) PROVE pc'[timer] # "expired"
  BY <1>7, Names DEF Create, IInv, Exclusive, Owner, Sending, Fresh, TypeOK, PcOK, Goto, End, out, mem, SetTerm, CreateConn, Unrefs
<1>8. ASSUME NEW w \in Writers, OutEvent(w) PROVE pc'[timer] # "expired"
  BY <1>8, Names DEF OutEvent, IInv, Exclusive, Owner, Sending, Fresh, TypeOK, PcOK, Goto, End, out, mem, SetTerm, CreateConn, Unrefs
<1>9. ASSUME SubmitIn PROVE pc'[timer] # "expired"
  BY <1>9, Names DEF SubmitIn, IInv, Exclusive, Owner, Sending, Fresh, TypeOK, PcOK, Goto, End, out, mem, SetTerm, CreateConn, Unrefs
<1>10. ASSUME ReadStart PROVE pc'[timer] # "expired"
  BY <1>10, Names DEF ReadStart, IInv, Exclusive, Owner, Sending, Fresh, TypeOK, PcOK, Goto, End, out, mem, SetTerm, CreateConn, Unrefs
<1>11. ASSUME ReadResult PROVE pc'[timer] # "expired"
  BY <1>11, Names DEF ReadResult, IInv, Exclusive, Owner, Sending, Fresh, TypeOK, PcOK, Goto, End, out, mem, SetTerm, CreateConn, Unrefs
<1>12. ASSUME Resubmit PROVE pc'[timer] # "expired"
  BY <1>12, Names DEF Resubmit, IInv, Exclusive, Owner, Sending, Fresh, TypeOK, PcOK, Goto, End, out, mem, SetTerm, CreateConn, Unrefs
<1>13. ASSUME Terminate PROVE pc'[timer] # "expired"
  BY <1>13, Names DEF Terminate, IInv, Exclusive, Owner, Sending, Fresh, TypeOK, PcOK, Goto, End, out, mem, SetTerm, CreateConn, Unrefs
<1>14. ASSUME TimerTerm PROVE pc'[timer] # "expired"
  BY <1>14, Names DEF TimerTerm, IInv, Exclusive, Owner, Sending, Fresh, TypeOK, PcOK, Goto, End, out, mem, SetTerm, CreateConn, Unrefs
<1>15. ASSUME TimerFire PROVE pc'[timer] # "expired"
  BY <1>15, Names DEF TimerFire, IInv, Exclusive, Owner, Sending, Fresh, TypeOK, PcOK, Goto, End, out, mem, SetTerm, CreateConn, Unrefs
<1>16. ASSUME NEW w \in Writers, SetWriting(w) PROVE pc'[timer] # "expired"
  <2>1. PICK x \in {"send", "unref_queued", "unref_fail"} : pc' = [pc EXCEPT ![Call(w)] = x]
    BY <1>16, WritingMoves
  <2> QED
    BY <2>1, Names DEF IInv, TypeOK, PcOK
<1>17. ASSUME NEW w \in Writers, Connect(w) PROVE pc'[timer] # "expired"
  BY <1>17, ConnectMoves
<1>18. ASSUME NEW w \in Writers, OutStart(w) PROVE pc'[timer] # "expired"
  BY <1>18, Names DEF OutStart, IInv, Exclusive, Owner, Sending, Fresh, TypeOK, PcOK, Goto, End, out, mem, SetTerm, CreateConn, Unrefs
<1>19. ASSUME NEW w \in Writers, ConnectAgain(w) PROVE pc'[timer] # "expired"
  BY <1>19, Names DEF ConnectAgain, IInv, Exclusive, Owner, Sending, Fresh, TypeOK, PcOK, Goto, End, out, mem, SetTerm, CreateConn, Unrefs
<1>20. ASSUME NEW w \in Writers, ConnectOk(w) PROVE pc'[timer] # "expired"
  BY <1>20, Names DEF ConnectOk, IInv, Exclusive, Owner, Sending, Fresh, TypeOK, PcOK, Goto, End, out, mem, SetTerm, CreateConn, Unrefs
<1>21. ASSUME NEW w \in Writers, ConnectFails(w) PROVE pc'[timer] # "expired"
  BY <1>21, Names DEF ConnectFails, IInv, Exclusive, Owner, Sending, Fresh, TypeOK, PcOK, Goto, End, out, mem, SetTerm, CreateConn, Unrefs
<1>22. ASSUME NEW p \in Senders, SendStart(p) PROVE pc'[timer] # "expired"
  BY <1>22, Names DEF SendStart, IInv, Exclusive, Owner, Sending, Fresh, TypeOK, PcOK, Goto, End, out, mem, SetTerm, CreateConn, Unrefs
<1>23. ASSUME NEW p \in Senders, SendResult(p) PROVE pc'[timer] # "expired"
  BY <1>23, Names DEF SendResult, IInv, Exclusive, Owner, Sending, Fresh, TypeOK, PcOK, Goto, End, out, mem, SetTerm, CreateConn, Unrefs
<1>24. ASSUME NEW p \in Senders, Block(p) PROVE pc'[timer] # "expired"
  BY <1>24, BlockMoves
<1>25. ASSUME NEW p \in Senders, Complete(p) PROVE pc'[timer] # "expired"
  BY <1>25, CompleteMoves
<1>26. ASSUME NEW p \in Senders, SendError(p) PROVE pc'[timer] # "expired"
  BY <1>26, Names DEF SendError, IInv, Exclusive, Owner, Sending, Fresh, TypeOK, PcOK, Goto, End, out, mem, SetTerm, CreateConn, Unrefs
<1>27. ASSUME NEW p \in Senders, FireIn(p) PROVE pc'[timer] # "expired"
  BY <1>27, Names DEF FireIn, IInv, Exclusive, Owner, Sending, Fresh, TypeOK, PcOK, Goto, End, out, mem, SetTerm, CreateConn, Unrefs
<1>28. ASSUME NEW p \in Procs, Unref(p) PROVE pc'[timer] # "expired"
  BY <1>28, Names DEF Unref, IInv, Exclusive, Owner, Sending, Fresh, TypeOK, PcOK, Goto, End, out, mem, SetTerm, CreateConn, Unrefs
<1>29. ASSUME NEW p \in Procs, Unlink(p) PROVE pc'[timer] # "expired"
  BY <1>29, Names DEF Unlink, IInv, Exclusive, Owner, Sending, Fresh, TypeOK, PcOK, Goto, End, out, mem, SetTerm, CreateConn, Unrefs
<1>30. ASSUME NEW p \in Procs, RemoveEnd(p) PROVE pc'[timer] # "expired"
  BY <1>30, Names DEF RemoveEnd, IpLockFree, IInv, Exclusive, Owner, Sending, Fresh, TypeOK, PcOK, Goto, End, out, mem, SetTerm, CreateConn, Unrefs
<1>31. ASSUME NEW p \in Procs, Unlock(p) PROVE pc'[timer] # "expired"
  BY <1>31, Names DEF Unlock, IInv, Exclusive, Owner, Sending, Fresh, TypeOK, PcOK, Goto, End, out, mem, SetTerm, CreateConn, Unrefs
<1>32. ASSUME NEW x \in {"in", "out"}, HandleFire(x) PROVE pc'[timer] # "expired"
  BY <1>32, Names DEF HandleFire, IInv, Exclusive, Owner, Sending, Fresh, TypeOK, PcOK, Goto, End, out, mem, SetTerm, CreateConn, Unrefs
<1> QED
  BY <1>1, <1>2, <1>3, <1>4, <1>5, <1>6, <1>7, <1>8, <1>9, <1>10, <1>11, <1>12, <1>13, <1>14, <1>15, <1>16, <1>17, <1>18, <1>19, <1>20, <1>21, <1>22, <1>23, <1>24, <1>25, <1>26, <1>27, <1>28, <1>29, <1>30, <1>31, <1>32
     DEF Next, Environment, Reader, Timer, Write, Resume, Send, Common

(* Where one thing ends connections - reads, sends or the timeout - the     *)
(* references are exact: the connection is freed when its last user is done *)
(* and not before.                                                          *)
THEOREM RefsExactHolds ==
  ASSUME OneEnd
  PROVE  Spec => []RefsExact
<1> DEFINE J == NoReader /\ Alone /\ RefsLeast
<1>1. Init => J
  <2> SUFFICES ASSUME Init PROVE J
    OBVIOUS
  <2>1. \A p \in Procs : pc[p] \in {"start", "off"}
    BY DEF Init
  <2>2. Holders = {}
    BY <2>1 DEF Holders, NoRef
  <2> QED
    BY <2>1, <2>2, Names, FS_EmptySet DEF Init, NoReader, Alone, RefsLeast
<1>2. IInv /\ OnceInv /\ J /\ [Next]_vars => J'
  <2> SUFFICES ASSUME IInv, OnceInv, J, [Next]_vars PROVE J'
    OBVIOUS
  <2>1. CASE Next
    BY <2>1, NoReaderStep, AloneStep, RefsLeastStep DEF OnceInv
  <2>2. CASE UNCHANGED vars
    BY <2>2 DEF vars, NoReader, Alone, RefsLeast, Holders
  <2> QED
    BY <2>1, <2>2
<1>3. IInv /\ J => RefsExact
  <2> SUFFICES ASSUME IInv, J PROVE RefsExact
    OBVIOUS
  <2>1. Holders \in SUBSET Procs
    BY DEF Holders
  <2>2. Cardinality(Holders) \in Nat
    BY <2>1, CountingLeast
  <2> QED
    BY <2>2 DEF IInv, TypeOK, RefsHeld, RefsLeast, RefsExact
<1> QED
  BY <1>1, <1>2, <1>3, Invariance, OnceInvariance, PTL DEF Spec

(* Unless a connection both fails in send and times out, the reader and the *)
(* timer never wait for each other: the timer that sets the state of a      *)
(* connection the reader is about to give up has ended it itself before,    *)
(* and does not find it in the hash again.                                  *)
THEOREM NoLockCycleHolds ==
  ASSUME "send" \notin Events \/ "timeout" \notin Events
  PROVE  Spec => []NoLockCycle
<1>1. CASE "send" \notin Events
  <2>1. Init => NoReader /\ LockOrder
    BY Names DEF Init, NoReader, LockOrder
  <2>2. IInv /\ OnceInv /\ NoReader /\ LockOrder /\ [Next]_vars => (NoReader /\ LockOrder)'
    <3> SUFFICES ASSUME IInv, OnceInv, NoReader, LockOrder, [Next]_vars PROVE (NoReader /\ LockOrder)'
      OBVIOUS
    <3>1. CASE Next
      BY <1>1, <3>1, NoReaderStep, LockOrderStep DEF OnceInv
    <3>2. CASE UNCHANGED vars
      BY <3>2 DEF vars, NoReader, LockOrder, TimerEnds
    <3> QED
      BY <3>1, <3>2
  <2>3. IInv /\ LockOrder => NoLockCycle
    <3> SUFFICES ASSUME IInv, LockOrder, pc[timer] = "expired", NEW p \in Procs, pc[p] = "unref_locked"
                 PROVE  FALSE
      BY DEF NoLockCycle
    <3>1. p = reader
      <4>1. p # timer /\ \A w \in Writers : p # Call(w) /\ p # Out(w)
        BY DEF IInv, TypeOK, PcOK, TimerSteps, CallSteps, OutSteps, SendSteps
      <4> QED
        BY <4>1, Names
    <3> QED
      BY <3>1 DEF LockOrder, TimerEnds
  <2> QED
    BY <2>1, <2>2, <2>3, Invariance, OnceInvariance, PTL DEF Spec
<1>2. CASE "timeout" \notin Events
  <2> DEFINE Quiet == pc[timer] # "expired"
  <2>1. Init => Quiet
    BY Names DEF Init
  <2>2. IInv /\ Quiet /\ [Next]_vars => Quiet'
    <3> SUFFICES ASSUME IInv, Quiet, [Next]_vars PROVE Quiet'
      OBVIOUS
    <3>1. CASE Next
      BY <1>2, <3>1, NeverExpired
    <3>2. CASE UNCHANGED vars
      BY <3>2 DEF vars
    <3> QED
      BY <3>1, <3>2
  <2>3. Quiet => NoLockCycle
    BY DEF NoLockCycle
  <2> QED
    BY <2>1, <2>2, <2>3, Invariance, PTL DEF Spec
<1> QED
  BY <1>1, <1>2
=============================================================================
