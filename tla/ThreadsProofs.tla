----------------------------- MODULE ThreadsProofs -----------------------------
(***************************************************************************)
(* What a message takes is freed once, after its last use, whatever the    *)
(* number of workers and of messages.  The argument is that of an owner: a *)
(* message that was read and is not done with is either in the hands of    *)
(* one worker or in one entry of what the resolver and the connections     *)
(* have for the workers, and where it is says which of its blocks there    *)
(* are.  A second argument, about the descriptor, gives the datagram its   *)
(* right length: of one-shot readings there is one at a time.              *)
(*                                                                         *)
(* No thread runs when the attendant takes everything down, whatever their *)
(* number.  The part that needs an argument is the table: it is moved      *)
(* while the threads write to it, so that a write may be lost, but never   *)
(* does a thread that runs lose its id.                                    *)
(***************************************************************************)
EXTENDS Threading, MsgFlow, TLAPS

-----------------------------------------------------------------------------
(* Messages *)

Blocks == {"msg", "ctx", "buf", "addr"}
Reading == {"peeked", "read"}
Stages == {"submit", "parse", "handle", "answer", "async", "write", "wrote"}
Ways == {"answer", "written"}

FlowTypeOK ==
  /\ wire \in Seq(Messages)
  /\ listened \in BOOLEAN /\ reads \in Nat
  /\ work \in [Workers -> [at : Reading \union Stages \union {"returned"}, on : Messages] \union {Idle}]
  /\ len \in [Messages -> Messages \union {Nothing, "lost", "stream"}]
  /\ resume \in [Messages -> {Nothing, "cleanup"}]
  /\ heap \subseteq Messages \X Blocks
  /\ queued \subseteq Messages \X Ways
  /\ wrong \in BOOLEAN /\ failed \in BOOLEAN /\ dead \in BOOLEAN

(* What there is of a message in each place.                                *)
Needs == [p \in Stages \union Ways |->
            IF p \in {"submit", "parse", "handle"} THEN {"msg"}
            ELSE IF p = "answer" THEN {"msg", "ctx"} ELSE {"msg", "ctx", "buf"}]

(* Who has a message that was read.                                         *)
Holds(w, m) == work[w].at \in Stages /\ work[w].on = m
Waits(m, way) == <<m, way>> \in queued

HeldBy(w, m) == /\ \A v \in Workers : Holds(v, m) <=> v = w
                /\ \A way \in Ways : ~ Waits(m, way)
WaitsFor(m, way) == /\ \A v \in Workers : ~ Holds(v, m)
                    /\ \A x \in Ways : Waits(m, x) <=> x = way
Unowned(m) == /\ \A v \in Workers : ~ Holds(v, m)
              /\ \A way \in Ways : ~ Waits(m, way)

There(m, blocks) == \A b \in Blocks : <<m, b>> \in heap <=> b \in blocks

(* A message has one owner, and the blocks its place says; the connection   *)
(* that resumes its context finds the buffer there.  Without an owner only  *)
(* the address is left, and nothing when it has not come yet.               *)
Held(w, m) == /\ HeldBy(w, m) /\ There(m, Needs[work[w].at]) /\ len[m] # Nothing
              /\ work[w].at \in {"write", "wrote"} => resume[m] = "cleanup"
Waiting(m, way) == /\ WaitsFor(m, way) /\ There(m, Needs[way]) /\ len[m] # Nothing
                   /\ way = "written" => resume[m] = "cleanup"
Left(m) == /\ Unowned(m)
           /\ \A b \in Blocks : <<m, b>> \in heap => b = "addr" /\ len[m] # Nothing
Account(m) == \/ \E w \in Workers : Held(w, m)
              \/ \E way \in Ways : Waiting(m, way)
              \/ Left(m)

(* What is in the socket has not been read.                                 *)
Unread == /\ \A k \in DOMAIN wire : len[wire[k]] = Nothing
          /\ \A k, l \in DOMAIN wire : wire[k] = wire[l] => k = l

MemoryInv == /\ FlowTypeOK /\ Unread /\ NoUseAfterFree
             /\ \A m \in Messages : Account(m)

(* One reading at a time.                                                   *)
Reads(w) == work[w].at \in Reading \union {"submit"}
ReadingInv ==
  /\ reads \in {0, 1} /\ (listened => reads = 0)
  /\ \A w \in Workers : Reads(w) => ~ listened /\ reads = 0
  /\ \A v, w \in Workers : Reads(v) /\ Reads(w) => v = w
  /\ \A w \in Workers : work[w].at \in Reading => wire # <<>> /\ Head(wire) = work[w].on
  /\ reads = 1 => wire # <<>>
-----------------------------------------------------------------------------
(* Lemmas *)

(* Where a step leaves the worker that takes it.                            *)
Lands(w, p, m) == /\ work'[w].at = p
                  /\ p # "idle" => work'[w].on = m
                  /\ \A v \in Workers : v # w => work'[v] = work[v]

(* Goto is such a step.                                                     *)
LEMMA GotoLands ==
  ASSUME FlowTypeOK, NEW w \in Workers, NEW p, NEW m, Goto(w, p, m)
  PROVE  Lands(w, p, m)
<1>1. work \in [Workers -> [at : Reading \union Stages \union {"returned"}, on : Messages] \union {Idle}]
  BY DEF FlowTypeOK
<1> QED BY <1>1, Zenon DEF Goto, Lands, Idle

(* The place of a worker, and the message it has.                           *)
LEMMA Places ==
  ASSUME FlowTypeOK, NEW w \in Workers
  PROVE  /\ work[w].at \in Reading \union Stages \union {"returned", "idle"}
         /\ work[w].at # "idle" => work[w].on \in Messages
BY DEF FlowTypeOK, Idle

(* The rest of what Account says of a message.                              *)
Untouched(k) == /\ \A way \in Ways : Waits(k, way)' <=> Waits(k, way)
                /\ \A b \in Blocks : <<k, b>> \in heap' <=> <<k, b>> \in heap
                /\ len'[k] = len[k] /\ resume'[k] = resume[k]

(* A message that a step does not concern keeps its account.                *)
LEMMA Elsewhere ==
  ASSUME NEW k \in Messages, Account(k), Untouched(k),
         \A v \in Workers : Holds(v, k)' <=> Holds(v, k),
         \A v \in Workers : Holds(v, k) => work'[v].at = work[v].at
  PROVE  Account(k)'
<1>1. ASSUME NEW w \in Workers, Held(w, k) PROVE Held(w, k)'
  BY <1>1 DEF Held, HeldBy, There, Untouched
<1>2. ASSUME NEW way \in Ways, Waiting(k, way) PROVE Waiting(k, way)'
  BY <1>2 DEF Waiting, WaitsFor, There, Untouched
<1>3. ASSUME Left(k) PROVE Left(k)'
  BY <1>3 DEF Left, Unowned, Untouched
<1> QED BY <1>1, <1>2, <1>3 DEF Account

(* The same of a step of worker w, which does not have the message.         *)
LEMMA ElsewhereOf ==
  ASSUME NEW w \in Workers, NEW p, NEW m, Lands(w, p, m),
         NEW k \in Messages, k # m \/ p \notin Stages, ~ Holds(w, k), Untouched(k), Account(k)
  PROVE  Account(k)'
<1>1. \A v \in Workers : v # w => (Holds(v, k)' <=> Holds(v, k)) /\ work'[v].at = work[v].at
  BY DEF Lands, Holds
<1>2. ~ Holds(w, k)'
  BY DEF Lands, Holds, Stages
<1> QED BY <1>1, <1>2, Elsewhere

(* What the account says of the worker that has a message.                  *)
LEMMA HolderHas ==
  ASSUME NEW w \in Workers, NEW m \in Messages, Account(m), Holds(w, m)
  PROVE  Held(w, m)
BY DEF Account, Held, HeldBy, Waiting, WaitsFor, Left, Unowned

(* What it says of an entry of queued.                                      *)
LEMMA WaiterHas ==
  ASSUME NEW m \in Messages, NEW way \in Ways, Account(m), Waits(m, way)
  PROVE  Waiting(m, way)
BY DEF Account, Held, HeldBy, Waiting, WaitsFor, Left, Unowned

(* What it says of a message that has not come.                             *)
LEMMA NotCome ==
  ASSUME NEW m \in Messages, Account(m), len[m] = Nothing
  PROVE  Unowned(m) /\ There(m, {})
BY DEF Account, Held, Waiting, Left, There

(* A worker that goes on with its message.                                  *)
LEMMA GoesOn ==
  ASSUME NEW w \in Workers, NEW m \in Messages, NEW p \in Stages, Lands(w, p, m), HeldBy(w, m) \/ Unowned(m),
         \A way \in Ways : ~ Waits(m, way)',
         There(m, Needs[p])', len'[m] # Nothing, p \in {"write", "wrote"} => resume'[m] = "cleanup"
  PROVE  Account(m)'
<1>1. \A v \in Workers : Holds(v, m)' <=> v = w
  BY DEF Lands, Holds, HeldBy, Unowned, Stages
<1>2. work'[w].at = p
  BY DEF Lands
<1>3. Held(w, m)'
  BY <1>1, <1>2 DEF Held, HeldBy
<1> QED BY <1>3 DEF Account

(* A worker that leaves its message to the resolver or to a connection.     *)
LEMMA Leaves ==
  ASSUME NEW w \in Workers, NEW m \in Messages, NEW p, p \notin Stages, NEW y, Lands(w, p, y), HeldBy(w, m),
         NEW way \in Ways, \A x \in Ways : Waits(m, x)' <=> x = way,
         There(m, Needs[way])', len'[m] # Nothing, way = "written" => resume'[m] = "cleanup"
  PROVE  Account(m)'
<1>1. \A v \in Workers : ~ Holds(v, m)'
  BY DEF Lands, Holds, HeldBy
<1>2. Waiting(m, way)'
  BY <1>1 DEF Waiting, WaitsFor
<1> QED BY <1>2 DEF Account

(* A worker that is done with it.                                           *)
LEMMA Ends ==
  ASSUME NEW w \in Workers, NEW m \in Messages, NEW x, Lands(w, "idle", x), HeldBy(w, m),
         \A way \in Ways : ~ Waits(m, way)',
         \A b \in Blocks : <<m, b>> \in heap' => b = "addr", len'[m] # Nothing
  PROVE  Account(m)'
<1>1. \A v \in Workers : ~ Holds(v, m)'
  BY DEF Lands, Holds, HeldBy, Stages
<1>2. Left(m)'
  BY <1>1 DEF Left, Unowned
<1> QED BY <1>2 DEF Account

(* The datagram that is read next is none of those read.                    *)
LEMMA FirstUnread ==
  ASSUME FlowTypeOK, Unread, wire # <<>>
  PROVE  Head(wire) \in Messages /\ len[Head(wire)] = Nothing
BY DEF FlowTypeOK, Unread

(* The tables of the messages.                                              *)
LEMMA LenDomain == FlowTypeOK => DOMAIN len = Messages /\ DOMAIN resume = Messages
BY DEF FlowTypeOK

(* Every step keeps the account of every message.                           *)
LEMMA AccountStep ==
  ASSUME MemoryInv, [FlowNext]_flowVars, NEW k \in Messages
  PROVE  Account(k)'
<1>a. FlowTypeOK /\ Unread /\ Account(k)
  BY DEF MemoryInv
<1> USE <1>a
<1>1. CASE Event
  BY <1>1, Elsewhere, Zenon DEF Event, Untouched, Holds, Waits
<1>2. ASSUME NEW m \in Messages, Arrive(m) PROVE Account(k)'
  BY <1>2, Elsewhere, Zenon DEF Arrive, Untouched, Holds, Waits
<1>3. ASSUME NEW w \in Workers, NEW m \in Messages, FromTcp(w, m) PROVE Account(k)'
  <2>1. ~ Holds(w, k) /\ Lands(w, "handle", m)
    BY <1>3, GotoLands DEF FromTcp, At, Holds, Stages
  <2>2. CASE k # m
    <3>1. Untouched(k)
      BY <1>3, <2>2 DEF FromTcp, Untouched, Waits, FlowTypeOK
    <3> QED BY <2>1, <2>2, <3>1, ElsewhereOf
  <2>3. CASE k = m
    <3>1. Unowned(k) /\ There(k, {})
      BY <1>3, <2>3, NotCome DEF FromTcp, Unseen
    <3>2. len'[k] # Nothing
      BY <1>3, <2>3, LenDomain DEF FromTcp, Nothing
    <3>3. There(k, Needs["handle"])'
      BY <1>3, <2>3, <3>1 DEF FromTcp, There, Needs, Stages, Ways, Blocks
    <3>4. \A way \in Ways : ~ Waits(k, way)'
      BY <1>3, <3>1 DEF FromTcp, Unowned, Waits
    <3> QED BY <2>1, <2>3, <3>1, <3>2, <3>3, <3>4, GoesOn DEF Stages
  <2> QED BY <2>2, <2>3
<1>4. ASSUME NEW w \in Workers, Peek(w) PROVE Account(k)'
  <2>1. ~ Holds(w, k) /\ Untouched(k)
    BY <1>4 DEF Peek, At, Holds, Stages, Untouched, Waits
  <2>2. Lands(w, "peeked", Head(wire)) \/ Lands(w, "idle", Nothing)
    BY <1>4, GotoLands DEF Peek
  <2> QED BY <2>1, <2>2, ElsewhereOf DEF Stages
<1>5. ASSUME NEW w \in Workers, Allocate(w) PROVE Account(k)'
  <2>1. ~ Holds(w, k)
    BY <1>5 DEF Allocate, At, Holds, Stages
  <2>2. CASE Goto(w, "read", work[w].on) /\ UNCHANGED <<wire, len, failed>>
    <3>1. Lands(w, "read", work[w].on) /\ Untouched(k)
      BY <1>5, <2>2, GotoLands DEF Allocate, Untouched, Waits
    <3> QED BY <2>1, <3>1, ElsewhereOf DEF Stages
  <2>3. CASE /\ wire # <<>> /\ wire' = Tail(wire)
             /\ len' = [len EXCEPT ![Head(wire)] = "lost"]
             /\ Goto(w, "idle", Nothing) /\ failed' = TRUE
    <3>1. Lands(w, "idle", Nothing)
      BY <2>3, GotoLands
    <3>2. CASE k # Head(wire)
      <4>1. Untouched(k)
        BY <1>5, <2>3, <3>2 DEF Allocate, Untouched, Waits, FlowTypeOK
      <4> QED BY <2>1, <3>1, <4>1, ElsewhereOf DEF Stages
    <3>3. CASE k = Head(wire)
      <4>1. Unowned(k) /\ There(k, {})
        BY <2>3, <3>3, FirstUnread, NotCome
      <4>2. len'[k] # Nothing
        BY <2>3, <3>3, LenDomain DEF Nothing
      <4>3. Unowned(k)'
        BY <1>5, <3>1, <4>1 DEF Allocate, Lands, Unowned, Holds, Waits, Stages
      <4>4. Left(k)'
        BY <1>5, <4>1, <4>2, <4>3 DEF Allocate, Left, There
      <4> QED BY <4>4 DEF Account
    <3> QED BY <3>2, <3>3
  <2> QED BY <1>5, <2>2, <2>3 DEF Allocate
<1>6. ASSUME NEW w \in Workers, Read(w) PROVE Account(k)'
  <2>1. ~ Holds(w, k)
    BY <1>6 DEF Read, At, Holds, Stages
  <2>2. CASE Goto(w, "idle", Nothing) /\ failed' = TRUE /\ UNCHANGED <<wire, len, heap>>
    <3>1. Lands(w, "idle", Nothing) /\ Untouched(k)
      BY <1>6, <2>2, GotoLands DEF Read, Untouched, Waits
    <3> QED BY <2>1, <3>1, ElsewhereOf DEF Stages
  <2>3. CASE /\ wire' = Tail(wire)
             /\ len' = [len EXCEPT ![Head(wire)] = work[w].on]
             /\ heap' = heap \union {<<Head(wire), "msg">>}
             /\ Goto(w, "submit", Head(wire)) /\ UNCHANGED failed
    <3>1. Lands(w, "submit", Head(wire))
      BY <2>3, GotoLands
    <3>2. CASE k # Head(wire)
      <4>1. Untouched(k)
        BY <1>6, <2>3, <3>2 DEF Read, Untouched, Waits, FlowTypeOK
      <4> QED BY <2>1, <3>1, <3>2, <4>1, ElsewhereOf
    <3>3. CASE k = Head(wire)
      <4>1. Unowned(k) /\ There(k, {})
        BY <1>6, <3>3, FirstUnread, NotCome DEF Read
      <4>2. len'[k] # Nothing
        BY <1>6, <2>3, <3>3, LenDomain, Places, MessagesAssumption DEF Read, At, Nothing
      <4>3. There(k, Needs["submit"])'
        BY <2>3, <3>3, <4>1 DEF There, Needs, Stages, Ways, Blocks
      <4>4. \A way \in Ways : ~ Waits(k, way)'
        BY <1>6, <4>1 DEF Read, Unowned, Waits
      <4> QED BY <3>1, <3>3, <4>1, <4>2, <4>3, <4>4, GoesOn DEF Stages
    <3> QED BY <3>2, <3>3
  <2> QED BY <1>6, <2>2, <2>3 DEF Read
<1>7. ASSUME NEW w \in Workers, Submit(w) PROVE Account(k)'
  <2>1. work[w].at = "submit" /\ Lands(w, "parse", work[w].on)
    BY <1>7, GotoLands DEF Submit, At
  <2>2. CASE k # work[w].on
    <3>1. ~ Holds(w, k) /\ Untouched(k)
      BY <1>7, <2>2 DEF Submit, Holds, Untouched, Waits, FlowTypeOK
    <3> QED BY <2>1, <2>2, <3>1, ElsewhereOf
  <2>3. CASE k = work[w].on
    <3>1. Held(w, k)
      BY <2>1, <2>3, HolderHas DEF Holds, Stages
    <3>2. There(k, Needs["parse"])' /\ \A way \in Ways : ~ Waits(k, way)'
      BY <1>7, <2>1, <3>1 DEF Submit, Held, HeldBy, There, Waits, Needs, Stages, Ways
    <3>3. len'[k] # Nothing /\ ("parse" \in {"write", "wrote"} => resume'[k] = "cleanup")
      BY <1>7, <2>1, <2>3, <3>1 DEF Submit, Held, FlowTypeOK
    <3> QED BY <2>1, <2>3, <3>1, <3>2, <3>3, GoesOn DEF Held, Stages
  <2> QED BY <2>2, <2>3
<1>8. ASSUME NEW w \in Workers, Parse(w) PROVE Account(k)'
  <2>1. CASE kind[work[w].on] \in {"short", "bad"}
    <3>1. work[w].at = "parse" /\ Lands(w, "idle", Nothing)
      BY <1>8, <2>1, GotoLands DEF Parse, At
    <3>2. CASE k # work[w].on
      <4>1. ~ Holds(w, k) /\ Untouched(k)
        BY <1>8, <2>1, <3>2 DEF Parse, Free, Holds, Untouched, Waits
      <4> QED BY <3>1, <4>1, ElsewhereOf DEF Stages
    <3>3. CASE k = work[w].on
      <4>1. Held(w, k)
        BY <3>1, <3>3, HolderHas DEF Holds, Stages
      <4>2. /\ \A b \in Blocks : <<k, b>> \in heap' => b = "addr"
            /\ \A way \in Ways : ~ Waits(k, way)'
            /\ len'[k] # Nothing
        BY <1>8, <2>1, <3>1, <3>3, <4>1 DEF Parse, Free, Held, HeldBy, There, Waits, Needs, Stages, Ways
      <4> QED BY <3>1, <4>1, <4>2, Ends DEF Held
    <3> QED BY <3>2, <3>3
  <2>2. CASE kind[work[w].on] \notin {"short", "bad"}
    <3>1. work[w].at = "parse" /\ Lands(w, "handle", work[w].on)
      BY <1>8, <2>2, GotoLands DEF Parse, At
    <3>2. CASE k # work[w].on
      <4>1. ~ Holds(w, k) /\ Untouched(k)
        BY <1>8, <2>2, <3>2 DEF Parse, Holds, Untouched, Waits
      <4> QED BY <3>1, <3>2, <4>1, ElsewhereOf
    <3>3. CASE k = work[w].on
      <4>1. Held(w, k)
        BY <3>1, <3>3, HolderHas DEF Holds, Stages
      <4>2. /\ There(k, Needs["handle"])' /\ \A way \in Ways : ~ Waits(k, way)'
            /\ len'[k] # Nothing
        BY <1>8, <2>2, <3>1, <3>3, <4>1 DEF Parse, Held, HeldBy, There, Waits, Needs, Stages, Ways, Blocks
      <4> QED BY <3>1, <3>3, <4>1, <4>2, GoesOn DEF Held, Stages
    <3> QED BY <3>2, <3>3
  <2> QED BY <2>1, <2>2
<1>9. ASSUME NEW w \in Workers, handle_new_msg(w) PROVE Account(k)'
  <2>1. CASE /\ kind[work[w].on] = "misrouted"
             /\ Free({<<work[w].on, "msg">>}) /\ Goto(w, "idle", Nothing) /\ UNCHANGED <<queued, dead>>
    <3>1. work[w].at = "handle" /\ Lands(w, "idle", Nothing)
      BY <1>9, <2>1, GotoLands DEF handle_new_msg, At
    <3>2. CASE k # work[w].on
      <4>1. ~ Holds(w, k) /\ Untouched(k)
        BY <1>9, <2>1, <3>2 DEF handle_new_msg, Free, Holds, Untouched, Waits
      <4> QED BY <3>1, <4>1, ElsewhereOf DEF Stages
    <3>3. CASE k = work[w].on
      <4>1. Held(w, k)
        BY <3>1, <3>3, HolderHas DEF Holds, Stages
      <4>2. /\ \A b \in Blocks : <<k, b>> \in heap' => b = "addr"
            /\ \A way \in Ways : ~ Waits(k, way)'
            /\ len'[k] # Nothing
        BY <1>9, <2>1, <3>1, <3>3, <4>1 DEF handle_new_msg, Free, Held, HeldBy, There, Waits, Needs, Stages, Ways
      <4> QED BY <3>1, <4>1, <4>2, Ends DEF Held
    <3> QED BY <3>2, <3>3
  <2>2. CASE /\ context_create(work[w].on) /\ Goto(w, "idle", Nothing)
             /\ queued' = queued \union {<<work[w].on, "answer">>} /\ UNCHANGED <<wrong, dead>>
    <3>1. work[w].at = "handle" /\ Lands(w, "idle", Nothing)
      BY <1>9, <2>2, GotoLands DEF handle_new_msg, At
    <3>2. CASE k # work[w].on
      <4>1. ~ Holds(w, k) /\ Untouched(k)
        BY <1>9, <2>2, <3>2 DEF handle_new_msg, context_create, Holds, Untouched, Waits
      <4> QED BY <3>1, <4>1, ElsewhereOf DEF Stages
    <3>3. CASE k = work[w].on
      <4>1. Held(w, k)
        BY <3>1, <3>3, HolderHas DEF Holds, Stages
      <4>2. There(k, Needs["answer"])'
        BY <1>9, <2>2, <3>1, <3>3, <4>1 DEF handle_new_msg, context_create, Held, There, Needs, Stages, Ways, Blocks
      <4>3. \A x \in Ways : Waits(k, x)' <=> x = "answer"
        BY <1>9, <2>2, <3>1, <3>3, <4>1 DEF handle_new_msg, context_create, Held, HeldBy, Waits
      <4>4. len'[k] # Nothing /\ ("answer" = "written" => resume'[k] = "cleanup")
        BY <1>9, <3>1, <3>3, <4>1 DEF handle_new_msg, Held
      <4> QED BY <3>1, <4>1, <4>2, <4>3, <4>4, Leaves DEF Held, Stages, Ways
    <3> QED BY <3>2, <3>3
  <2>3. CASE /\ context_create(work[w].on) /\ Goto(w, "answer", work[w].on)
             /\ UNCHANGED <<queued, wrong, dead>>
    <3>1. work[w].at = "handle" /\ Lands(w, "answer", work[w].on)
      BY <1>9, <2>3, GotoLands DEF handle_new_msg, At
    <3>2. CASE k # work[w].on
      <4>1. ~ Holds(w, k) /\ Untouched(k)
        BY <1>9, <2>3, <3>2 DEF handle_new_msg, context_create, Holds, Untouched, Waits
      <4> QED BY <3>1, <3>2, <4>1, ElsewhereOf
    <3>3. CASE k = work[w].on
      <4>1. Held(w, k)
        BY <3>1, <3>3, HolderHas DEF Holds, Stages
      <4>2. /\ There(k, Needs["answer"])' /\ \A way \in Ways : ~ Waits(k, way)'
            /\ len'[k] # Nothing
        BY <1>9, <2>3, <3>1, <3>3, <4>1 DEF handle_new_msg, context_create, Held, HeldBy, There, Waits, Needs, Stages, Ways, Blocks
      <4> QED BY <3>1, <3>3, <4>1, <4>2, GoesOn DEF Held, Stages
    <3> QED BY <3>2, <3>3
  <2>4. CASE dead' = TRUE /\ UNCHANGED <<work, heap, wrong, queued>>
    BY <1>9, <2>4, Elsewhere, Zenon DEF handle_new_msg, Untouched, Holds, Waits
  <2> QED BY <1>9, <2>1, <2>2, <2>3, <2>4 DEF handle_new_msg
<1>10. ASSUME NEW w \in Workers, Answer(w) PROVE Account(k)'
  <2>1. PICK q \in queued : q[2] = "answer" /\ Goto(w, "answer", q[1]) /\ queued' = queued \ {q}
    BY <1>10 DEF Answer
  <2>2. q[1] \in Messages /\ q = <<q[1], "answer">>
    BY <2>1 DEF FlowTypeOK
  <2>3. ~ Holds(w, k) /\ Lands(w, "answer", q[1])
    BY <1>10, <2>1, GotoLands DEF Answer, At, Holds, Stages
  <2>4. CASE k # q[1]
    <3>1. Untouched(k)
      BY <1>10, <2>1, <2>2, <2>4 DEF Answer, Untouched, Waits
    <3> QED BY <2>3, <2>4, <3>1, ElsewhereOf
  <2>5. CASE k = q[1]
    <3>1. Waiting(k, "answer")
      BY <2>2, <2>5, WaiterHas DEF Waits, Ways
    <3>2. There(k, Needs["answer"])' /\ len'[k] # Nothing
      BY <1>10, <3>1 DEF Answer, Waiting, There, Needs, Stages, Ways
    <3>3. \A way \in Ways : ~ Waits(k, way)'
      BY <2>1, <2>2, <2>5, <3>1 DEF Waiting, WaitsFor, Waits
    <3>4. Unowned(k) \/ \A v \in Workers : ~ Holds(v, k)
      BY <3>1 DEF Waiting, WaitsFor
    <3>5. \A v \in Workers : Holds(v, k)' <=> v = w
      BY <2>3, <2>5, <3>1 DEF Waiting, WaitsFor, Lands, Holds, Stages
    <3>6. work'[w].at = "answer"
      BY <2>3 DEF Lands
    <3>7. Held(w, k)'
      BY <3>2, <3>3, <3>5, <3>6 DEF Held, HeldBy
    <3> QED BY <3>7 DEF Account
  <2> QED BY <2>4, <2>5
<1>11. ASSUME NEW w \in Workers, handle_msg_continue(w) PROVE Account(k)'
  <2>1. CASE Cleanup(work[w].on, FALSE) /\ Goto(w, "idle", Nothing)
    <3>1. work[w].at = "answer" /\ Lands(w, "idle", Nothing)
      BY <1>11, <2>1, GotoLands DEF handle_msg_continue, At
    <3>2. CASE k # work[w].on
      <4>1. ~ Holds(w, k) /\ Untouched(k)
        BY <1>11, <2>1, <3>2 DEF handle_msg_continue, Cleanup, Free, context_destroy, Holds, Untouched, Waits
      <4> QED BY <3>1, <4>1, ElsewhereOf DEF Stages
    <3>3. CASE k = work[w].on
      <4>1. Held(w, k)
        BY <3>1, <3>3, HolderHas DEF Holds, Stages
      <4>2. /\ \A b \in Blocks : <<k, b>> \in heap' => b = "addr"
            /\ \A way \in Ways : ~ Waits(k, way)'
            /\ len'[k] # Nothing
        BY <1>11, <2>1, <3>1, <3>3, <4>1 DEF handle_msg_continue, Cleanup, Free, context_destroy, Held, HeldBy, There, Waits, Needs, Stages, Ways
      <4> QED BY <3>1, <4>1, <4>2, Ends DEF Held
    <3> QED BY <3>2, <3>3
  <2>2. CASE /\ heap' = (heap \ context_destroy(work[w].on)) \union {<<work[w].on, "addr">>}
             /\ wrong' = (wrong \/ ~ context_destroy(work[w].on) \subseteq heap)
             /\ Goto(w, "idle", Nothing)
    <3>1. work[w].at = "answer" /\ Lands(w, "idle", Nothing)
      BY <1>11, <2>2, GotoLands DEF handle_msg_continue, At
    <3>2. CASE k # work[w].on
      <4>1. ~ Holds(w, k) /\ Untouched(k)
        BY <1>11, <2>2, <3>2 DEF handle_msg_continue, context_destroy, Holds, Untouched, Waits
      <4> QED BY <3>1, <4>1, ElsewhereOf DEF Stages
    <3>3. CASE k = work[w].on
      <4>1. Held(w, k)
        BY <3>1, <3>3, HolderHas DEF Holds, Stages
      <4>2. /\ \A b \in Blocks : <<k, b>> \in heap' => b = "addr"
            /\ \A way \in Ways : ~ Waits(k, way)'
            /\ len'[k] # Nothing
        BY <1>11, <2>2, <3>1, <3>3, <4>1 DEF handle_msg_continue, context_destroy, Held, HeldBy, There, Waits, Needs, Stages, Ways
      <4> QED BY <3>1, <4>1, <4>2, Ends DEF Held
    <3> QED BY <3>2, <3>3
  <2>3. CASE /\ Use(<<work[w].on, "msg">>)
             /\ heap' = heap \union {<<work[w].on, "buf">>}
             /\ Goto(w, "async", work[w].on)
    <3>1. work[w].at = "answer" /\ Lands(w, "async", work[w].on)
      BY <1>11, <2>3, GotoLands DEF handle_msg_continue, At
    <3>2. CASE k # work[w].on
      <4>1. ~ Holds(w, k) /\ Untouched(k)
        BY <1>11, <2>3, <3>2 DEF handle_msg_continue, Holds, Untouched, Waits
      <4> QED BY <3>1, <3>2, <4>1, ElsewhereOf
    <3>3. CASE k = work[w].on
      <4>1. Held(w, k)
        BY <3>1, <3>3, HolderHas DEF Holds, Stages
      <4>2. /\ There(k, Needs["async"])' /\ \A way \in Ways : ~ Waits(k, way)'
            /\ len'[k] # Nothing
        BY <1>11, <2>3, <3>1, <3>3, <4>1 DEF handle_msg_continue, Held, HeldBy, There, Waits, Needs, Stages, Ways, Blocks
      <4> QED BY <3>1, <3>3, <4>1, <4>2, GoesOn DEF Held, Stages
    <3> QED BY <3>2, <3>3
  <2> QED BY <1>11, <2>1, <2>2, <2>3 DEF handle_msg_continue
<1>12. ASSUME NEW w \in Workers, Async(w) PROVE Account(k)'
  <2>1. work[w].at = "async" /\ Lands(w, "write", work[w].on)
    BY <1>12, GotoLands DEF Async, At
  <2>2. CASE k # work[w].on
    <3>1. ~ Holds(w, k) /\ Untouched(k)
      BY <1>12, <2>2 DEF Async, Holds, Untouched, Waits, FlowTypeOK
    <3> QED BY <2>1, <2>2, <3>1, ElsewhereOf
  <2>3. CASE k = work[w].on
    <3>1. Held(w, k)
      BY <2>1, <2>3, HolderHas DEF Holds, Stages
    <3>2. There(k, Needs["write"])' /\ \A way \in Ways : ~ Waits(k, way)'
      BY <1>12, <2>1, <3>1 DEF Async, Held, HeldBy, There, Waits, Needs, Stages, Ways
    <3>3. len'[k] # Nothing /\ ("write" \in {"write", "wrote"} => resume'[k] = "cleanup")
      BY <1>12, <2>1, <2>3, <3>1 DEF Async, Held, FlowTypeOK
    <3> QED BY <2>1, <2>3, <3>1, <3>2, <3>3, GoesOn DEF Held, Stages
  <2> QED BY <2>2, <2>3
<1>13. ASSUME NEW w \in Workers, WriteNow(w) PROVE Account(k)'
  <2>1. work[w].at = "write" /\ Lands(w, "wrote", work[w].on)
    BY <1>13, GotoLands DEF WriteNow, At
  <2>2. CASE k # work[w].on
    <3>1. ~ Holds(w, k) /\ Untouched(k)
      BY <1>13, <2>2 DEF WriteNow, Holds, Untouched, Waits, FlowTypeOK
    <3> QED BY <2>1, <2>2, <3>1, ElsewhereOf
  <2>3. CASE k = work[w].on
    <3>1. Held(w, k)
      BY <2>1, <2>3, HolderHas DEF Holds, Stages
    <3>2. There(k, Needs["wrote"])' /\ \A way \in Ways : ~ Waits(k, way)'
      BY <1>13, <2>1, <3>1 DEF WriteNow, Held, HeldBy, There, Waits, Needs, Stages, Ways
    <3>3. len'[k] # Nothing /\ ("wrote" \in {"write", "wrote"} => resume'[k] = "cleanup")
      BY <1>13, <2>1, <2>3, <3>1 DEF WriteNow, Held, FlowTypeOK
    <3> QED BY <2>1, <2>3, <3>1, <3>2, <3>3, GoesOn DEF Held, Stages
  <2> QED BY <2>2, <2>3
<1>14. ASSUME NEW w \in Workers, WriteLater(w) PROVE Account(k)'
  <2>1. CASE TRUE
    <3>1. work[w].at = "write" /\ Lands(w, "returned", work[w].on)
      BY <1>14, <2>1, GotoLands DEF WriteLater, At
    <3>2. CASE k # work[w].on
      <4>1. ~ Holds(w, k) /\ Untouched(k)
        BY <1>14, <2>1, <3>2 DEF WriteLater, Holds, Untouched, Waits
      <4> QED BY <3>1, <4>1, ElsewhereOf DEF Stages
    <3>3. CASE k = work[w].on
      <4>1. Held(w, k)
        BY <3>1, <3>3, HolderHas DEF Holds, Stages
      <4>2. There(k, Needs["written"])'
        BY <1>14, <2>1, <3>1, <3>3, <4>1 DEF WriteLater, Held, There, Needs, Stages, Ways, Blocks
      <4>3. \A x \in Ways : Waits(k, x)' <=> x = "written"
        BY <1>14, <2>1, <3>1, <3>3, <4>1 DEF WriteLater, Held, HeldBy, Waits
      <4>4. len'[k] # Nothing /\ ("written" = "written" => resume'[k] = "cleanup")
        BY <1>14, <3>1, <3>3, <4>1 DEF WriteLater, Held
      <4> QED BY <3>1, <4>1, <4>2, <4>3, <4>4, Leaves DEF Held, Stages, Ways
    <3> QED BY <3>2, <3>3
  <2> QED BY <2>1
<1>15. ASSUME NEW w \in Workers, Returned(w) PROVE Account(k)'
  <2>1. ~ Holds(w, k) /\ Untouched(k) /\ Lands(w, "idle", Nothing)
    BY <1>15, GotoLands DEF Returned, At, Holds, Stages, Untouched, Waits
  <2> QED BY <2>1, ElsewhereOf DEF Stages
<1>16. ASSUME NEW w \in Workers, Wrote(w) PROVE Account(k)'
  <2>1. CASE TRUE
    <3>1. work[w].at = "wrote" /\ Lands(w, "idle", Nothing)
      BY <1>16, <2>1, GotoLands DEF Wrote, At
    <3>2. CASE k # work[w].on
      <4>1. ~ Holds(w, k) /\ Untouched(k)
        BY <1>16, <2>1, <3>2 DEF Wrote, Cleanup, Free, context_destroy, Holds, Untouched, Waits
      <4> QED BY <3>1, <4>1, ElsewhereOf DEF Stages
    <3>3. CASE k = work[w].on
      <4>1. Held(w, k)
        BY <3>1, <3>3, HolderHas DEF Holds, Stages
      <4>2. /\ \A b \in Blocks : <<k, b>> \in heap' => b = "addr"
            /\ \A way \in Ways : ~ Waits(k, way)'
            /\ len'[k] # Nothing
        BY <1>16, <2>1, <3>1, <3>3, <4>1 DEF Wrote, Cleanup, Free, context_destroy, Held, HeldBy, There, Waits, Needs, Stages, Ways
      <4> QED BY <3>1, <4>1, <4>2, Ends DEF Held
    <3> QED BY <3>2, <3>3
  <2> QED BY <2>1
<1>17. ASSUME NEW w \in Workers, context_resume(w) PROVE Account(k)'
  <2>1. PICK q \in queued : /\ q[2] = "written"
                            /\ queued' = queued \ {q}
                            /\ Cleanup(q[1], resume[q[1]] = "cleanup")
    BY <1>17 DEF context_resume
  <2>2. q[1] \in Messages /\ q = <<q[1], "written">>
    BY <2>1 DEF FlowTypeOK
  <2>3. CASE k # q[1]
    <3>1. Untouched(k) /\ work' = work
      BY <1>17, <2>1, <2>2, <2>3 DEF context_resume, Untouched, Waits, Cleanup, Free, context_destroy
    <3> QED BY <3>1, Elsewhere DEF Holds
  <2>4. CASE k = q[1]
    <3>1. Waiting(k, "written")
      BY <2>2, <2>4, WaiterHas DEF Waits, Ways
    <3>2. \A b \in Blocks : <<k, b>> \in heap' => b = "addr"
      BY <2>1, <2>4, <3>1 DEF Waiting, There, Cleanup, Free, context_destroy, Needs, Stages, Ways, Blocks
    <3>3. Unowned(k)' /\ len'[k] # Nothing
      BY <1>17, <2>1, <2>2, <2>4, <3>1 DEF context_resume, Waiting, WaitsFor, Unowned, Holds, Waits
    <3>4. Left(k)'
      BY <3>2, <3>3 DEF Left
    <3> QED BY <3>4 DEF Account
  <2> QED BY <2>3, <2>4
<1>18. CASE UNCHANGED flowVars
  BY <1>18, Elsewhere, Zenon DEF flowVars, Untouched, Holds, Waits
<1> QED BY <1>1, <1>2, <1>3, <1>4, <1>5, <1>6, <1>7, <1>8, <1>9, <1>10, <1>11, <1>12, <1>13, <1>14, <1>15, <1>16, <1>17, <1>18 DEF FlowNext

(* The places of the workers after a step.                                  *)
LEMMA GotoType ==
  ASSUME FlowTypeOK, NEW w \in Workers, NEW p, NEW m, Goto(w, p, m),
         p = "idle" \/ (p \in Reading \union Stages \union {"returned"} /\ m \in Messages)
  PROVE  work' \in [Workers -> [at : Reading \union Stages \union {"returned"}, on : Messages] \union {Idle}]
<1>1. work \in [Workers -> [at : Reading \union Stages \union {"returned"}, on : Messages] \union {Idle}]
  BY DEF FlowTypeOK
<1>2. (IF p = "idle" THEN Idle ELSE [at |-> p, on |-> m])
        \in [at : Reading \union Stages \union {"returned"}, on : Messages] \union {Idle}
  OBVIOUS
<1> QED BY <1>1, <1>2, Zenon DEF Goto

(* The datagram that is read next, and the others.                          *)
LEMMA FirstWire == FlowTypeOK /\ wire # <<>> => Head(wire) \in Messages /\ Tail(wire) \in Seq(Messages)
BY DEF FlowTypeOK

(* Types.                                                                   *)
LEMMA TypeStep ==
  ASSUME FlowTypeOK, [FlowNext]_flowVars
  PROVE  FlowTypeOK'
<1>1. CASE Event
  <2>1. work' \in [Workers -> [at : Reading \union Stages \union {"returned"}, on : Messages] \union {Idle}]
    BY <1>1 DEF Event, FlowTypeOK
  <2>2. wire' \in Seq(Messages) /\ reads' \in Nat /\ listened' \in BOOLEAN
    <3>1. wire \in Seq(Messages) /\ reads \in Nat
      BY DEF FlowTypeOK
    <3>2. wire' = wire /\ reads' = reads + 1 /\ listened' = FALSE
      BY <1>1, Zenon DEF Event
    <3>3. reads' \in Nat
      BY <3>1, <3>2
    <3> QED BY <3>1, <3>2, <3>3, Zenon
  <2>3. /\ len' \in [Messages -> Messages \union {Nothing, "lost", "stream"}]
        /\ resume' \in [Messages -> {Nothing, "cleanup"}]
    BY <1>1, Places DEF Event, At, FlowTypeOK
  <2>4. heap' \subseteq Messages \X Blocks /\ queued' \subseteq Messages \X Ways
    BY <1>1, Places DEF Event, At, FlowTypeOK, Blocks, Ways
  <2>5. wrong' \in BOOLEAN /\ failed' \in BOOLEAN /\ dead' \in BOOLEAN
    BY <1>1 DEF Event, FlowTypeOK
  <2> QED BY <2>1, <2>2, <2>3, <2>4, <2>5 DEF FlowTypeOK
<1>2. ASSUME NEW m \in Messages, Arrive(m) PROVE FlowTypeOK'
  <2>1. work' \in [Workers -> [at : Reading \union Stages \union {"returned"}, on : Messages] \union {Idle}]
    BY <1>2 DEF Arrive, FlowTypeOK
  <2>2. wire' \in Seq(Messages) /\ reads' \in Nat /\ listened' \in BOOLEAN
    BY <1>2 DEF Arrive, FlowTypeOK
  <2>3. /\ len' \in [Messages -> Messages \union {Nothing, "lost", "stream"}]
        /\ resume' \in [Messages -> {Nothing, "cleanup"}]
    BY <1>2, Places DEF Arrive, At, FlowTypeOK
  <2>4. heap' \subseteq Messages \X Blocks /\ queued' \subseteq Messages \X Ways
    BY <1>2, Places DEF Arrive, At, FlowTypeOK, Blocks, Ways
  <2>5. wrong' \in BOOLEAN /\ failed' \in BOOLEAN /\ dead' \in BOOLEAN
    BY <1>2 DEF Arrive, FlowTypeOK
  <2> QED BY <2>1, <2>2, <2>3, <2>4, <2>5 DEF FlowTypeOK
<1>3. ASSUME NEW w \in Workers, NEW m \in Messages, FromTcp(w, m) PROVE FlowTypeOK'
  <2>1. work' \in [Workers -> [at : Reading \union Stages \union {"returned"}, on : Messages] \union {Idle}]
    BY <1>3, GotoType DEF FromTcp, Stages
  <2>2. wire' \in Seq(Messages) /\ reads' \in Nat /\ listened' \in BOOLEAN
    BY <1>3 DEF FromTcp, FlowTypeOK
  <2>3. /\ len' \in [Messages -> Messages \union {Nothing, "lost", "stream"}]
        /\ resume' \in [Messages -> {Nothing, "cleanup"}]
    BY <1>3, Places DEF FromTcp, At, FlowTypeOK
  <2>4. heap' \subseteq Messages \X Blocks /\ queued' \subseteq Messages \X Ways
    BY <1>3, Places DEF FromTcp, At, FlowTypeOK, Blocks, Ways
  <2>5. wrong' \in BOOLEAN /\ failed' \in BOOLEAN /\ dead' \in BOOLEAN
    BY <1>3 DEF FromTcp, FlowTypeOK
  <2> QED BY <2>1, <2>2, <2>3, <2>4, <2>5 DEF FlowTypeOK
<1>4. ASSUME NEW w \in Workers, Peek(w) PROVE FlowTypeOK'
  <2>1. work' \in [Workers -> [at : Reading \union Stages \union {"returned"}, on : Messages] \union {Idle}]
    BY <1>4, GotoType, Places, FirstWire DEF Peek, At, Stages, Reading
  <2>2. wire' \in Seq(Messages) /\ reads' \in Nat /\ listened' \in BOOLEAN
    BY <1>4, FirstWire DEF Peek, At, FlowTypeOK
  <2>3. /\ len' \in [Messages -> Messages \union {Nothing, "lost", "stream"}]
        /\ resume' \in [Messages -> {Nothing, "cleanup"}]
    BY <1>4, Places DEF Peek, At, FlowTypeOK
  <2>4. heap' \subseteq Messages \X Blocks /\ queued' \subseteq Messages \X Ways
    BY <1>4, Places DEF Peek, At, FlowTypeOK, Blocks, Ways
  <2>5. wrong' \in BOOLEAN /\ failed' \in BOOLEAN /\ dead' \in BOOLEAN
    BY <1>4 DEF Peek, FlowTypeOK
  <2> QED BY <2>1, <2>2, <2>3, <2>4, <2>5 DEF FlowTypeOK
<1>5. ASSUME NEW w \in Workers, Allocate(w) PROVE FlowTypeOK'
  <2>1. work' \in [Workers -> [at : Reading \union Stages \union {"returned"}, on : Messages] \union {Idle}]
    BY <1>5, GotoType, Places, FirstWire DEF Allocate, At, Stages, Reading
  <2>2. wire' \in Seq(Messages) /\ reads' \in Nat /\ listened' \in BOOLEAN
    BY <1>5, FirstWire DEF Allocate, FlowTypeOK
  <2>3. /\ len' \in [Messages -> Messages \union {Nothing, "lost", "stream"}]
        /\ resume' \in [Messages -> {Nothing, "cleanup"}]
    BY <1>5, Places DEF Allocate, At, FlowTypeOK
  <2>4. heap' \subseteq Messages \X Blocks /\ queued' \subseteq Messages \X Ways
    BY <1>5, Places DEF Allocate, At, FlowTypeOK, Blocks, Ways
  <2>5. wrong' \in BOOLEAN /\ failed' \in BOOLEAN /\ dead' \in BOOLEAN
    BY <1>5 DEF Allocate, FlowTypeOK
  <2> QED BY <2>1, <2>2, <2>3, <2>4, <2>5 DEF FlowTypeOK
<1>6. ASSUME NEW w \in Workers, Read(w) PROVE FlowTypeOK'
  <2>1. work' \in [Workers -> [at : Reading \union Stages \union {"returned"}, on : Messages] \union {Idle}]
    BY <1>6, GotoType, Places, FirstWire DEF Read, At, Stages, Reading
  <2>2. wire' \in Seq(Messages) /\ reads' \in Nat /\ listened' \in BOOLEAN
    BY <1>6, FirstWire DEF Read, FlowTypeOK
  <2>3. /\ len' \in [Messages -> Messages \union {Nothing, "lost", "stream"}]
        /\ resume' \in [Messages -> {Nothing, "cleanup"}]
    BY <1>6, Places DEF Read, At, FlowTypeOK
  <2>4. heap' \subseteq Messages \X Blocks /\ queued' \subseteq Messages \X Ways
    BY <1>6, Places, FirstWire DEF Read, At, FlowTypeOK, Blocks, Ways
  <2>5. wrong' \in BOOLEAN /\ failed' \in BOOLEAN /\ dead' \in BOOLEAN
    BY <1>6 DEF Read, FlowTypeOK
  <2> QED BY <2>1, <2>2, <2>3, <2>4, <2>5 DEF FlowTypeOK
<1>7. ASSUME NEW w \in Workers, Submit(w) PROVE FlowTypeOK'
  <2>1. work' \in [Workers -> [at : Reading \union Stages \union {"returned"}, on : Messages] \union {Idle}]
    BY <1>7, GotoType, Places DEF Submit, At, Stages, Reading
  <2>2. wire' \in Seq(Messages) /\ reads' \in Nat /\ listened' \in BOOLEAN
    BY <1>7 DEF Submit, FlowTypeOK
  <2>3. /\ len' \in [Messages -> Messages \union {Nothing, "lost", "stream"}]
        /\ resume' \in [Messages -> {Nothing, "cleanup"}]
    BY <1>7, Places DEF Submit, At, FlowTypeOK
  <2>4. heap' \subseteq Messages \X Blocks /\ queued' \subseteq Messages \X Ways
    BY <1>7, Places DEF Submit, At, FlowTypeOK, Blocks, Ways
  <2>5. wrong' \in BOOLEAN /\ failed' \in BOOLEAN /\ dead' \in BOOLEAN
    BY <1>7 DEF Submit, FlowTypeOK
  <2> QED BY <2>1, <2>2, <2>3, <2>4, <2>5 DEF FlowTypeOK
<1>8. ASSUME NEW w \in Workers, Parse(w) PROVE FlowTypeOK'
  <2>1. work' \in [Workers -> [at : Reading \union Stages \union {"returned"}, on : Messages] \union {Idle}]
    BY <1>8, GotoType, Places DEF Parse, At, Stages, Reading
  <2>2. wire' \in Seq(Messages) /\ reads' \in Nat /\ listened' \in BOOLEAN
    BY <1>8 DEF Parse, FlowTypeOK
  <2>3. /\ len' \in [Messages -> Messages \union {Nothing, "lost", "stream"}]
        /\ resume' \in [Messages -> {Nothing, "cleanup"}]
    BY <1>8, Places DEF Parse, At, FlowTypeOK
  <2>4. heap' \subseteq Messages \X Blocks /\ queued' \subseteq Messages \X Ways
    BY <1>8, Places DEF Parse, Free, At, FlowTypeOK, Blocks, Ways
  <2>5. wrong' \in BOOLEAN /\ failed' \in BOOLEAN /\ dead' \in BOOLEAN
    BY <1>8 DEF Parse, Free, FlowTypeOK
  <2> QED BY <2>1, <2>2, <2>3, <2>4, <2>5 DEF FlowTypeOK
<1>9. ASSUME NEW w \in Workers, handle_new_msg(w) PROVE FlowTypeOK'
  <2>1. work' \in [Workers -> [at : Reading \union Stages \union {"returned"}, on : Messages] \union {Idle}]
    <3>1. CASE work' = work
      BY <3>1 DEF FlowTypeOK
    <3>2. CASE work' # work
      BY <1>9, <3>2, GotoType, Places DEF handle_new_msg, At, Stages, Reading
    <3> QED BY <3>1, <3>2
  <2>2. wire' \in Seq(Messages) /\ reads' \in Nat /\ listened' \in BOOLEAN
    BY <1>9 DEF handle_new_msg, FlowTypeOK
  <2>3. /\ len' \in [Messages -> Messages \union {Nothing, "lost", "stream"}]
        /\ resume' \in [Messages -> {Nothing, "cleanup"}]
    BY <1>9, Places DEF handle_new_msg, At, FlowTypeOK
  <2>4. heap' \subseteq Messages \X Blocks /\ queued' \subseteq Messages \X Ways
    BY <1>9, Places DEF handle_new_msg, Free, context_create, At, FlowTypeOK, Blocks, Ways
  <2>5. wrong' \in BOOLEAN /\ failed' \in BOOLEAN /\ dead' \in BOOLEAN
    BY <1>9 DEF handle_new_msg, Free, context_create, FlowTypeOK
  <2> QED BY <2>1, <2>2, <2>3, <2>4, <2>5 DEF FlowTypeOK
<1>10. ASSUME NEW w \in Workers, Answer(w) PROVE FlowTypeOK'
  <2>1. work' \in [Workers -> [at : Reading \union Stages \union {"returned"}, on : Messages] \union {Idle}]
    BY <1>10, GotoType DEF Answer, Stages, FlowTypeOK
  <2>2. wire' \in Seq(Messages) /\ reads' \in Nat /\ listened' \in BOOLEAN
    BY <1>10 DEF Answer, FlowTypeOK
  <2>3. /\ len' \in [Messages -> Messages \union {Nothing, "lost", "stream"}]
        /\ resume' \in [Messages -> {Nothing, "cleanup"}]
    BY <1>10, Places DEF Answer, At, FlowTypeOK
  <2>4. heap' \subseteq Messages \X Blocks /\ queued' \subseteq Messages \X Ways
    BY <1>10, Places DEF Answer, At, FlowTypeOK, Blocks, Ways
  <2>5. wrong' \in BOOLEAN /\ failed' \in BOOLEAN /\ dead' \in BOOLEAN
    BY <1>10 DEF Answer, FlowTypeOK
  <2> QED BY <2>1, <2>2, <2>3, <2>4, <2>5 DEF FlowTypeOK
<1>11. ASSUME NEW w \in Workers, handle_msg_continue(w) PROVE FlowTypeOK'
  <2>1. work' \in [Workers -> [at : Reading \union Stages \union {"returned"}, on : Messages] \union {Idle}]
    BY <1>11, GotoType, Places DEF handle_msg_continue, At, Stages, Reading
  <2>2. wire' \in Seq(Messages) /\ reads' \in Nat /\ listened' \in BOOLEAN
    BY <1>11 DEF handle_msg_continue, FlowTypeOK
  <2>3. /\ len' \in [Messages -> Messages \union {Nothing, "lost", "stream"}]
        /\ resume' \in [Messages -> {Nothing, "cleanup"}]
    BY <1>11, Places DEF handle_msg_continue, At, FlowTypeOK
  <2>4. heap' \subseteq Messages \X Blocks /\ queued' \subseteq Messages \X Ways
    BY <1>11, Places DEF handle_msg_continue, Cleanup, Free, Use, context_destroy, At, FlowTypeOK, Blocks, Ways
  <2>5. wrong' \in BOOLEAN /\ failed' \in BOOLEAN /\ dead' \in BOOLEAN
    BY <1>11 DEF handle_msg_continue, Cleanup, Free, Use, context_destroy, FlowTypeOK
  <2> QED BY <2>1, <2>2, <2>3, <2>4, <2>5 DEF FlowTypeOK
<1>12. ASSUME NEW w \in Workers, Async(w) PROVE FlowTypeOK'
  <2>1. work' \in [Workers -> [at : Reading \union Stages \union {"returned"}, on : Messages] \union {Idle}]
    BY <1>12, GotoType, Places DEF Async, At, Stages, Reading
  <2>2. wire' \in Seq(Messages) /\ reads' \in Nat /\ listened' \in BOOLEAN
    BY <1>12 DEF Async, FlowTypeOK
  <2>3. /\ len' \in [Messages -> Messages \union {Nothing, "lost", "stream"}]
        /\ resume' \in [Messages -> {Nothing, "cleanup"}]
    BY <1>12, Places DEF Async, At, FlowTypeOK
  <2>4. heap' \subseteq Messages \X Blocks /\ queued' \subseteq Messages \X Ways
    BY <1>12, Places DEF Async, Use, At, FlowTypeOK, Blocks, Ways
  <2>5. wrong' \in BOOLEAN /\ failed' \in BOOLEAN /\ dead' \in BOOLEAN
    BY <1>12 DEF Async, Use, FlowTypeOK
  <2> QED BY <2>1, <2>2, <2>3, <2>4, <2>5 DEF FlowTypeOK
<1>13. ASSUME NEW w \in Workers, WriteNow(w) PROVE FlowTypeOK'
  <2>1. work' \in [Workers -> [at : Reading \union Stages \union {"returned"}, on : Messages] \union {Idle}]
    BY <1>13, GotoType, Places DEF WriteNow, At, Stages, Reading
  <2>2. wire' \in Seq(Messages) /\ reads' \in Nat /\ listened' \in BOOLEAN
    BY <1>13 DEF WriteNow, FlowTypeOK
  <2>3. /\ len' \in [Messages -> Messages \union {Nothing, "lost", "stream"}]
        /\ resume' \in [Messages -> {Nothing, "cleanup"}]
    BY <1>13, Places DEF WriteNow, At, FlowTypeOK
  <2>4. heap' \subseteq Messages \X Blocks /\ queued' \subseteq Messages \X Ways
    BY <1>13, Places DEF WriteNow, At, FlowTypeOK, Blocks, Ways
  <2>5. wrong' \in BOOLEAN /\ failed' \in BOOLEAN /\ dead' \in BOOLEAN
    BY <1>13 DEF WriteNow, FlowTypeOK
  <2> QED BY <2>1, <2>2, <2>3, <2>4, <2>5 DEF FlowTypeOK
<1>14. ASSUME NEW w \in Workers, WriteLater(w) PROVE FlowTypeOK'
  <2>1. work' \in [Workers -> [at : Reading \union Stages \union {"returned"}, on : Messages] \union {Idle}]
    BY <1>14, GotoType, Places DEF WriteLater, At, Stages, Reading
  <2>2. wire' \in Seq(Messages) /\ reads' \in Nat /\ listened' \in BOOLEAN
    BY <1>14 DEF WriteLater, FlowTypeOK
  <2>3. /\ len' \in [Messages -> Messages \union {Nothing, "lost", "stream"}]
        /\ resume' \in [Messages -> {Nothing, "cleanup"}]
    BY <1>14, Places DEF WriteLater, At, FlowTypeOK
  <2>4. heap' \subseteq Messages \X Blocks /\ queued' \subseteq Messages \X Ways
    BY <1>14, Places DEF WriteLater, At, FlowTypeOK, Blocks, Ways
  <2>5. wrong' \in BOOLEAN /\ failed' \in BOOLEAN /\ dead' \in BOOLEAN
    BY <1>14 DEF WriteLater, FlowTypeOK
  <2> QED BY <2>1, <2>2, <2>3, <2>4, <2>5 DEF FlowTypeOK
<1>15. ASSUME NEW w \in Workers, Returned(w) PROVE FlowTypeOK'
  <2>1. work' \in [Workers -> [at : Reading \union Stages \union {"returned"}, on : Messages] \union {Idle}]
    BY <1>15, GotoType, Places DEF Returned, At, Stages, Reading
  <2>2. wire' \in Seq(Messages) /\ reads' \in Nat /\ listened' \in BOOLEAN
    BY <1>15 DEF Returned, FlowTypeOK
  <2>3. /\ len' \in [Messages -> Messages \union {Nothing, "lost", "stream"}]
        /\ resume' \in [Messages -> {Nothing, "cleanup"}]
    BY <1>15, Places DEF Returned, At, FlowTypeOK
  <2>4. heap' \subseteq Messages \X Blocks /\ queued' \subseteq Messages \X Ways
    BY <1>15, Places DEF Returned, At, FlowTypeOK, Blocks, Ways
  <2>5. wrong' \in BOOLEAN /\ failed' \in BOOLEAN /\ dead' \in BOOLEAN
    BY <1>15 DEF Returned, FlowTypeOK
  <2> QED BY <2>1, <2>2, <2>3, <2>4, <2>5 DEF FlowTypeOK
<1>16. ASSUME NEW w \in Workers, Wrote(w) PROVE FlowTypeOK'
  <2>1. work' \in [Workers -> [at : Reading \union Stages \union {"returned"}, on : Messages] \union {Idle}]
    BY <1>16, GotoType, Places DEF Wrote, At, Stages, Reading
  <2>2. wire' \in Seq(Messages) /\ reads' \in Nat /\ listened' \in BOOLEAN
    BY <1>16 DEF Wrote, FlowTypeOK
  <2>3. /\ len' \in [Messages -> Messages \union {Nothing, "lost", "stream"}]
        /\ resume' \in [Messages -> {Nothing, "cleanup"}]
    BY <1>16, Places DEF Wrote, At, FlowTypeOK
  <2>4. heap' \subseteq Messages \X Blocks /\ queued' \subseteq Messages \X Ways
    BY <1>16, Places DEF Wrote, Cleanup, Free, context_destroy, At, FlowTypeOK, Blocks, Ways
  <2>5. wrong' \in BOOLEAN /\ failed' \in BOOLEAN /\ dead' \in BOOLEAN
    BY <1>16 DEF Wrote, Cleanup, Free, context_destroy, FlowTypeOK
  <2> QED BY <2>1, <2>2, <2>3, <2>4, <2>5 DEF FlowTypeOK
<1>17. ASSUME NEW w \in Workers, context_resume(w) PROVE FlowTypeOK'
  <2>1. work' \in [Workers -> [at : Reading \union Stages \union {"returned"}, on : Messages] \union {Idle}]
    BY <1>17 DEF context_resume, FlowTypeOK
  <2>2. wire' \in Seq(Messages) /\ reads' \in Nat /\ listened' \in BOOLEAN
    BY <1>17 DEF context_resume, FlowTypeOK
  <2>3. /\ len' \in [Messages -> Messages \union {Nothing, "lost", "stream"}]
        /\ resume' \in [Messages -> {Nothing, "cleanup"}]
    BY <1>17, Places DEF context_resume, At, FlowTypeOK
  <2>4. heap' \subseteq Messages \X Blocks /\ queued' \subseteq Messages \X Ways
    BY <1>17, Places DEF context_resume, Cleanup, Free, context_destroy, At, FlowTypeOK, Blocks, Ways
  <2>5. wrong' \in BOOLEAN /\ failed' \in BOOLEAN /\ dead' \in BOOLEAN
    BY <1>17 DEF context_resume, Cleanup, Free, context_destroy, FlowTypeOK
  <2> QED BY <2>1, <2>2, <2>3, <2>4, <2>5 DEF FlowTypeOK
<1>18. CASE UNCHANGED flowVars
  BY <1>18 DEF flowVars, FlowTypeOK
<1> QED BY <1>1, <1>2, <1>3, <1>4, <1>5, <1>6, <1>7, <1>8, <1>9, <1>10, <1>11, <1>12, <1>13, <1>14, <1>15, <1>16, <1>17, <1>18 DEF FlowNext

(* What is in the socket when its first datagram has been read.             *)
LEMMA TailOther == FlowTypeOK /\ wire # <<>> => Tail(wire) # wire
<1> SUFFICES ASSUME FlowTypeOK, wire # <<>> PROVE Tail(wire) # wire
  OBVIOUS
<1>1. Len(Tail(wire)) = Len(wire) - 1 /\ Len(wire) \in Nat
  BY DEF FlowTypeOK
<1>2. ASSUME Tail(wire) = wire PROVE FALSE
  BY <1>1, <1>2
<1> QED BY <1>2

(* And no datagram is there twice.                                          *)
LEMMA RestUnread ==
  ASSUME FlowTypeOK, Unread, wire # <<>>, wire' = Tail(wire),
         \A x \in Messages : x # Head(wire) => len'[x] = len[x]
  PROVE  Unread'
<1>1. /\ Len(wire) \in Nat \ {0} /\ DOMAIN wire = 1 .. Len(wire) /\ DOMAIN wire' = 1 .. Len(wire) - 1
      /\ \A k \in 1 .. Len(wire) - 1 : wire'[k] = wire[k + 1]
      /\ Head(wire) = wire[1]
      /\ \A k \in DOMAIN wire : wire[k] \in Messages
  BY DEF FlowTypeOK
<1>2. ASSUME NEW k \in DOMAIN wire' PROVE k + 1 \in DOMAIN wire /\ wire'[k] = wire[k + 1] /\ wire[k + 1] # Head(wire)
  BY <1>1, <1>2 DEF Unread
<1>3. \A k \in DOMAIN wire' : len'[wire'[k]] = Nothing
  BY <1>1, <1>2 DEF Unread
<1>4. ASSUME NEW k \in DOMAIN wire', NEW l \in DOMAIN wire', wire'[k] = wire'[l] PROVE k = l
  <2>1. k + 1 = l + 1
    BY <1>2, <1>4 DEF Unread
  <2> QED BY <1>1, <2>1
<1> QED BY <1>3, <1>4 DEF Unread

(* The datagrams in the socket.                                             *)
LEMMA UnreadStep ==
  ASSUME FlowTypeOK, Unread, [FlowNext]_flowVars
  PROVE  Unread'
<1>1. CASE Event
  BY <1>1 DEF Event, Unread
<1>2. ASSUME NEW m \in Messages, Arrive(m) PROVE Unread'
  <2>1. /\ Len(wire') = Len(wire) + 1 /\ wire' \in Seq(Messages) /\ Len(wire) \in Nat
        /\ \A k \in 1 .. Len(wire) : wire'[k] = wire[k]
        /\ wire'[Len(wire) + 1] = m
    BY <1>2 DEF Arrive, FlowTypeOK
  <2>2. DOMAIN wire' = 1 .. Len(wire) + 1 /\ DOMAIN wire = 1 .. Len(wire)
    BY <2>1 DEF FlowTypeOK
  <2>3. len' = len /\ len[m] = Nothing /\ \A k \in DOMAIN wire : wire[k] # m
    BY <1>2 DEF Arrive, Unseen
  <2>4. \A k \in DOMAIN wire' : k = Len(wire) + 1 \/ (k \in DOMAIN wire /\ wire'[k] = wire[k])
    BY <2>1, <2>2
  <2> QED BY <2>1, <2>2, <2>3, <2>4 DEF Unread
<1>3. ASSUME NEW w \in Workers, NEW m \in Messages, FromTcp(w, m) PROVE Unread'
  <2>1. wire' = wire /\ \A k \in DOMAIN wire : len'[wire[k]] = len[wire[k]]
    BY <1>3, LenDomain DEF FromTcp, Unseen
  <2> QED BY <2>1 DEF Unread
<1>4. ASSUME NEW w \in Workers, Peek(w) PROVE Unread'
  BY <1>4 DEF Peek, Unread
<1>5. ASSUME NEW w \in Workers, Allocate(w) PROVE Unread'
  <2>1. CASE wire' = wire
    BY <1>5, <2>1, TailOther DEF Allocate, Unread
  <2>2. CASE wire' # wire
    <3>1. wire # <<>> /\ wire' = Tail(wire)
      BY <1>5, <2>2 DEF Allocate
    <3>2. \A x \in Messages : x # Head(wire) => len'[x] = len[x]
      BY <1>5, <2>2, LenDomain DEF Allocate
    <3> QED BY <3>1, <3>2, RestUnread
  <2> QED BY <2>1, <2>2
<1>6. ASSUME NEW w \in Workers, Read(w) PROVE Unread'
  <2>1. CASE wire' = wire
    BY <1>6, <2>1, TailOther DEF Read, Unread
  <2>2. CASE wire' # wire
    <3>1. wire # <<>> /\ wire' = Tail(wire)
      BY <1>6, <2>2 DEF Read
    <3>2. \A x \in Messages : x # Head(wire) => len'[x] = len[x]
      BY <1>6, <2>2, LenDomain DEF Read
    <3> QED BY <3>1, <3>2, RestUnread
  <2> QED BY <2>1, <2>2
<1>7. ASSUME NEW w \in Workers, Submit(w) PROVE Unread'
  BY <1>7 DEF Submit, Unread
<1>8. ASSUME NEW w \in Workers, Parse(w) PROVE Unread'
  BY <1>8 DEF Parse, Unread
<1>9. ASSUME NEW w \in Workers, handle_new_msg(w) PROVE Unread'
  BY <1>9 DEF handle_new_msg, Unread
<1>10. ASSUME NEW w \in Workers, Answer(w) PROVE Unread'
  BY <1>10 DEF Answer, Unread
<1>11. ASSUME NEW w \in Workers, handle_msg_continue(w) PROVE Unread'
  BY <1>11 DEF handle_msg_continue, Unread
<1>12. ASSUME NEW w \in Workers, Async(w) PROVE Unread'
  BY <1>12 DEF Async, Unread
<1>13. ASSUME NEW w \in Workers, WriteNow(w) PROVE Unread'
  BY <1>13 DEF WriteNow, Unread
<1>14. ASSUME NEW w \in Workers, WriteLater(w) PROVE Unread'
  BY <1>14 DEF WriteLater, Unread
<1>15. ASSUME NEW w \in Workers, Returned(w) PROVE Unread'
  BY <1>15 DEF Returned, Unread
<1>16. ASSUME NEW w \in Workers, Wrote(w) PROVE Unread'
  BY <1>16 DEF Wrote, Unread
<1>17. ASSUME NEW w \in Workers, context_resume(w) PROVE Unread'
  BY <1>17 DEF context_resume, Unread
<1>18. CASE UNCHANGED flowVars
  BY <1>18 DEF flowVars, Unread
<1> QED BY <1>1, <1>2, <1>3, <1>4, <1>5, <1>6, <1>7, <1>8, <1>9, <1>10, <1>11, <1>12, <1>13, <1>14, <1>15, <1>16, <1>17, <1>18 DEF FlowNext

(* Nothing is used that is not there.                                       *)
LEMMA UseStep ==
  ASSUME MemoryInv, [FlowNext]_flowVars
  PROVE  NoUseAfterFree'
<1>a. FlowTypeOK /\ NoUseAfterFree /\ \A k \in Messages : Account(k)
  BY DEF MemoryInv
<1> USE <1>a
<1>1. CASE Event
  BY <1>1 DEF Event, NoUseAfterFree
<1>2. ASSUME NEW m \in Messages, Arrive(m) PROVE NoUseAfterFree'
  BY <1>2 DEF Arrive, NoUseAfterFree
<1>3. ASSUME NEW w \in Workers, NEW m \in Messages, FromTcp(w, m) PROVE NoUseAfterFree'
  BY <1>3 DEF FromTcp, NoUseAfterFree
<1>4. ASSUME NEW w \in Workers, Peek(w) PROVE NoUseAfterFree'
  BY <1>4 DEF Peek, NoUseAfterFree
<1>5. ASSUME NEW w \in Workers, Allocate(w) PROVE NoUseAfterFree'
  BY <1>5 DEF Allocate, NoUseAfterFree
<1>6. ASSUME NEW w \in Workers, Read(w) PROVE NoUseAfterFree'
  BY <1>6 DEF Read, NoUseAfterFree
<1>7. ASSUME NEW w \in Workers, Submit(w) PROVE NoUseAfterFree'
  BY <1>7 DEF Submit, NoUseAfterFree
<1>8. ASSUME NEW w \in Workers, Parse(w) PROVE NoUseAfterFree'
  <2>1. work[w].at = "parse" /\ work[w].on \in Messages
    BY <1>8, Places DEF Parse, At
  <2>2. \A b \in Blocks : <<work[w].on, b>> \in heap <=> b \in Needs["parse"]
    BY <2>1, HolderHas DEF Holds, Stages, Held, There
  <2> QED BY <1>8, <2>2 DEF Parse, Free, NoUseAfterFree, Blocks, Needs, Stages, Ways
<1>9. ASSUME NEW w \in Workers, handle_new_msg(w) PROVE NoUseAfterFree'
  <2>1. work[w].at = "handle" /\ work[w].on \in Messages
    BY <1>9, Places DEF handle_new_msg, At
  <2>2. \A b \in Blocks : <<work[w].on, b>> \in heap <=> b \in Needs["handle"]
    BY <2>1, HolderHas DEF Holds, Stages, Held, There
  <2> QED BY <1>9, <2>2 DEF handle_new_msg, Free, context_create, NoUseAfterFree, Blocks, Needs, Stages, Ways
<1>10. ASSUME NEW w \in Workers, Answer(w) PROVE NoUseAfterFree'
  BY <1>10 DEF Answer, NoUseAfterFree
<1>11. ASSUME NEW w \in Workers, handle_msg_continue(w) PROVE NoUseAfterFree'
  <2>1. work[w].at = "answer" /\ work[w].on \in Messages
    BY <1>11, Places DEF handle_msg_continue, At
  <2>2. \A b \in Blocks : <<work[w].on, b>> \in heap <=> b \in Needs["answer"]
    BY <2>1, HolderHas DEF Holds, Stages, Held, There
  <2> QED BY <1>11, <2>2 DEF handle_msg_continue, Cleanup, Free, Use, context_destroy, NoUseAfterFree, Blocks, Needs, Stages, Ways
<1>12. ASSUME NEW w \in Workers, Async(w) PROVE NoUseAfterFree'
  <2>1. work[w].at = "async" /\ work[w].on \in Messages
    BY <1>12, Places DEF Async, At
  <2>2. \A b \in Blocks : <<work[w].on, b>> \in heap <=> b \in Needs["async"]
    BY <2>1, HolderHas DEF Holds, Stages, Held, There
  <2> QED BY <1>12, <2>2 DEF Async, Use, NoUseAfterFree, Blocks, Needs, Stages, Ways
<1>13. ASSUME NEW w \in Workers, WriteNow(w) PROVE NoUseAfterFree'
  BY <1>13 DEF WriteNow, NoUseAfterFree
<1>14. ASSUME NEW w \in Workers, WriteLater(w) PROVE NoUseAfterFree'
  BY <1>14 DEF WriteLater, NoUseAfterFree
<1>15. ASSUME NEW w \in Workers, Returned(w) PROVE NoUseAfterFree'
  BY <1>15 DEF Returned, NoUseAfterFree
<1>16. ASSUME NEW w \in Workers, Wrote(w) PROVE NoUseAfterFree'
  <2>1. work[w].at = "wrote" /\ work[w].on \in Messages
    BY <1>16, Places DEF Wrote, At
  <2>2. \A b \in Blocks : <<work[w].on, b>> \in heap <=> b \in Needs["wrote"]
    BY <2>1, HolderHas DEF Holds, Stages, Held, There
  <2> QED BY <1>16, <2>2 DEF Wrote, Cleanup, Free, context_destroy, NoUseAfterFree, Blocks, Needs, Stages, Ways
<1>17. ASSUME NEW w \in Workers, context_resume(w) PROVE NoUseAfterFree'
  <2>1. PICK q \in queued : q[2] = "written" /\ Cleanup(q[1], resume[q[1]] = "cleanup")
    BY <1>17 DEF context_resume
  <2>2. q[1] \in Messages /\ q = <<q[1], "written">>
    BY <2>1 DEF FlowTypeOK
  <2>3. \A b \in Blocks : <<q[1], b>> \in heap <=> b \in Needs["written"]
    BY <2>2, WaiterHas DEF Waits, Ways, Waiting, There
  <2> QED BY <2>1, <2>3 DEF Cleanup, Free, context_destroy, NoUseAfterFree, Blocks, Needs, Stages, Ways
<1>18. CASE UNCHANGED flowVars
  BY <1>18 DEF flowVars, NoUseAfterFree
<1> QED BY <1>1, <1>2, <1>3, <1>4, <1>5, <1>6, <1>7, <1>8, <1>9, <1>10, <1>11, <1>12, <1>13, <1>14, <1>15, <1>16, <1>17, <1>18 DEF FlowNext

(* One reading at a time.                                                   *)
LEMMA ReadingStep ==
  ASSUME FlowTypeOK, ReadingInv, [FlowNext]_flowVars
  PROVE  ReadingInv'
<1>1. CASE Event
  BY <1>1, GotoLands DEF Event, At, Lands, ReadingInv, Reads, Reading, Stages
<1>2. ASSUME NEW m \in Messages, Arrive(m) PROVE ReadingInv'
  BY <1>2, GotoLands DEF Arrive, At, Lands, ReadingInv, Reads, Reading, Stages
<1>3. ASSUME NEW w \in Workers, NEW m \in Messages, FromTcp(w, m) PROVE ReadingInv'
  BY <1>3, GotoLands DEF FromTcp, At, Lands, ReadingInv, Reads, Reading, Stages
<1>4. ASSUME NEW w \in Workers, Peek(w) PROVE ReadingInv'
  BY <1>4, GotoLands DEF Peek, At, Lands, ReadingInv, Reads, Reading, Stages
<1>5. ASSUME NEW w \in Workers, Allocate(w) PROVE ReadingInv'
  BY <1>5, GotoLands DEF Allocate, At, Lands, ReadingInv, Reads, Reading, Stages
<1>6. ASSUME NEW w \in Workers, Read(w) PROVE ReadingInv'
  BY <1>6, GotoLands DEF Read, At, Lands, ReadingInv, Reads, Reading, Stages
<1>7. ASSUME NEW w \in Workers, Submit(w) PROVE ReadingInv'
  BY <1>7, GotoLands DEF Submit, At, Lands, ReadingInv, Reads, Reading, Stages
<1>8. ASSUME NEW w \in Workers, Parse(w) PROVE ReadingInv'
  BY <1>8, GotoLands DEF Parse, At, Lands, ReadingInv, Reads, Reading, Stages
<1>9. ASSUME NEW w \in Workers, handle_new_msg(w) PROVE ReadingInv'
  BY <1>9, GotoLands DEF handle_new_msg, At, Lands, ReadingInv, Reads, Reading, Stages
<1>10. ASSUME NEW w \in Workers, Answer(w) PROVE ReadingInv'
  BY <1>10, GotoLands DEF Answer, At, Lands, ReadingInv, Reads, Reading, Stages
<1>11. ASSUME NEW w \in Workers, handle_msg_continue(w) PROVE ReadingInv'
  <2>1. work[w].at = "answer" /\ (Lands(w, "idle", Nothing) \/ Lands(w, "async", work[w].on))
    BY <1>11, GotoLands DEF handle_msg_continue, At
  <2>2. UNCHANGED <<listened, reads, wire>>
    BY <1>11 DEF handle_msg_continue
  <2> QED BY <2>1, <2>2 DEF Lands, ReadingInv, Reads, Reading
<1>12. ASSUME NEW w \in Workers, Async(w) PROVE ReadingInv'
  BY <1>12, GotoLands DEF Async, At, Lands, ReadingInv, Reads, Reading, Stages
<1>13. ASSUME NEW w \in Workers, WriteNow(w) PROVE ReadingInv'
  BY <1>13, GotoLands DEF WriteNow, At, Lands, ReadingInv, Reads, Reading, Stages
<1>14. ASSUME NEW w \in Workers, WriteLater(w) PROVE ReadingInv'
  BY <1>14, GotoLands DEF WriteLater, At, Lands, ReadingInv, Reads, Reading, Stages
<1>15. ASSUME NEW w \in Workers, Returned(w) PROVE ReadingInv'
  BY <1>15, GotoLands DEF Returned, At, Lands, ReadingInv, Reads, Reading, Stages
<1>16. ASSUME NEW w \in Workers, Wrote(w) PROVE ReadingInv'
  BY <1>16, GotoLands DEF Wrote, At, Lands, ReadingInv, Reads, Reading, Stages
<1>17. ASSUME NEW w \in Workers, context_resume(w) PROVE ReadingInv'
  BY <1>17, GotoLands DEF context_resume, At, Lands, ReadingInv, Reads, Reading, Stages
<1>18. CASE UNCHANGED flowVars
  BY <1>18 DEF flowVars, ReadingInv, Reads
<1> QED BY <1>1, <1>2, <1>3, <1>4, <1>5, <1>6, <1>7, <1>8, <1>9, <1>10, <1>11, <1>12, <1>13, <1>14, <1>15, <1>16, <1>17, <1>18 DEF FlowNext

(* The length of what is read.                                              *)
LEMMA LengthStep ==
  ASSUME FlowTypeOK, ReadingInv, LengthRight, [FlowNext]_flowVars
  PROVE  LengthRight'
<1>1. CASE Event
  BY <1>1 DEF Event, LengthRight
<1>2. ASSUME NEW m \in Messages, Arrive(m) PROVE LengthRight'
  BY <1>2 DEF Arrive, LengthRight
<1>3. ASSUME NEW w \in Workers, NEW m \in Messages, FromTcp(w, m) PROVE LengthRight'
  BY <1>3, LenDomain, FirstWire DEF FromTcp, At, LengthRight, ReadingInv, Reading, Reads
<1>4. ASSUME NEW w \in Workers, Peek(w) PROVE LengthRight'
  BY <1>4 DEF Peek, LengthRight
<1>5. ASSUME NEW w \in Workers, Allocate(w) PROVE LengthRight'
  BY <1>5, LenDomain, FirstWire DEF Allocate, At, LengthRight, ReadingInv, Reading, Reads
<1>6. ASSUME NEW w \in Workers, Read(w) PROVE LengthRight'
  BY <1>6, LenDomain, FirstWire DEF Read, At, LengthRight, ReadingInv, Reading, Reads
<1>7. ASSUME NEW w \in Workers, Submit(w) PROVE LengthRight'
  BY <1>7 DEF Submit, LengthRight
<1>8. ASSUME NEW w \in Workers, Parse(w) PROVE LengthRight'
  BY <1>8 DEF Parse, LengthRight
<1>9. ASSUME NEW w \in Workers, handle_new_msg(w) PROVE LengthRight'
  BY <1>9 DEF handle_new_msg, LengthRight
<1>10. ASSUME NEW w \in Workers, Answer(w) PROVE LengthRight'
  BY <1>10 DEF Answer, LengthRight
<1>11. ASSUME NEW w \in Workers, handle_msg_continue(w) PROVE LengthRight'
  BY <1>11 DEF handle_msg_continue, LengthRight
<1>12. ASSUME NEW w \in Workers, Async(w) PROVE LengthRight'
  BY <1>12 DEF Async, LengthRight
<1>13. ASSUME NEW w \in Workers, WriteNow(w) PROVE LengthRight'
  BY <1>13 DEF WriteNow, LengthRight
<1>14. ASSUME NEW w \in Workers, WriteLater(w) PROVE LengthRight'
  BY <1>14 DEF WriteLater, LengthRight
<1>15. ASSUME NEW w \in Workers, Returned(w) PROVE LengthRight'
  BY <1>15 DEF Returned, LengthRight
<1>16. ASSUME NEW w \in Workers, Wrote(w) PROVE LengthRight'
  BY <1>16 DEF Wrote, LengthRight
<1>17. ASSUME NEW w \in Workers, context_resume(w) PROVE LengthRight'
  BY <1>17 DEF context_resume, LengthRight
<1>18. CASE UNCHANGED flowVars
  BY <1>18 DEF flowVars, LengthRight
<1> QED BY <1>1, <1>2, <1>3, <1>4, <1>5, <1>6, <1>7, <1>8, <1>9, <1>10, <1>11, <1>12, <1>13, <1>14, <1>15, <1>16, <1>17, <1>18 DEF FlowNext

(* The descriptor is listened on again, but after a failure.                *)
LEMMA ListeningStep ==
  ASSUME FlowTypeOK, ReadingInv, Listening, [FlowNext]_flowVars
  PROVE  Listening'
<1>1. CASE Event
  <2>1. reads' = reads + 1 /\ reads \in Nat
    BY <1>1, Zenon DEF Event, FlowTypeOK
  <2> QED BY <2>1 DEF Listening
<1>2. ASSUME NEW m \in Messages, Arrive(m) PROVE Listening'
  BY <1>2, GotoLands DEF Arrive, At, Lands, Listening
<1>3. ASSUME NEW w \in Workers, NEW m \in Messages, FromTcp(w, m) PROVE Listening'
  BY <1>3, GotoLands DEF FromTcp, At, Lands, Listening
<1>4. ASSUME NEW w \in Workers, Peek(w) PROVE Listening'
  BY <1>4, GotoLands DEF Peek, At, Lands, Listening
<1>5. ASSUME NEW w \in Workers, Allocate(w) PROVE Listening'
  BY <1>5, GotoLands DEF Allocate, At, Lands, Listening
<1>6. ASSUME NEW w \in Workers, Read(w) PROVE Listening'
  BY <1>6, GotoLands DEF Read, At, Lands, Listening
<1>7. ASSUME NEW w \in Workers, Submit(w) PROVE Listening'
  BY <1>7, GotoLands DEF Submit, At, Lands, Listening
<1>8. ASSUME NEW w \in Workers, Parse(w) PROVE Listening'
  BY <1>8, GotoLands DEF Parse, At, Lands, Listening
<1>9. ASSUME NEW w \in Workers, handle_new_msg(w) PROVE Listening'
  BY <1>9, GotoLands DEF handle_new_msg, At, Lands, Listening
<1>10. ASSUME NEW w \in Workers, Answer(w) PROVE Listening'
  BY <1>10, GotoLands DEF Answer, At, Lands, Listening
<1>11. ASSUME NEW w \in Workers, handle_msg_continue(w) PROVE Listening'
  BY <1>11, GotoLands DEF handle_msg_continue, At, Lands, Listening
<1>12. ASSUME NEW w \in Workers, Async(w) PROVE Listening'
  BY <1>12, GotoLands DEF Async, At, Lands, Listening
<1>13. ASSUME NEW w \in Workers, WriteNow(w) PROVE Listening'
  BY <1>13, GotoLands DEF WriteNow, At, Lands, Listening
<1>14. ASSUME NEW w \in Workers, WriteLater(w) PROVE Listening'
  BY <1>14, GotoLands DEF WriteLater, At, Lands, Listening
<1>15. ASSUME NEW w \in Workers, Returned(w) PROVE Listening'
  BY <1>15, GotoLands DEF Returned, At, Lands, Listening
<1>16. ASSUME NEW w \in Workers, Wrote(w) PROVE Listening'
  BY <1>16, GotoLands DEF Wrote, At, Lands, Listening
<1>17. ASSUME NEW w \in Workers, context_resume(w) PROVE Listening'
  BY <1>17, GotoLands DEF context_resume, At, Lands, Listening
<1>18. CASE UNCHANGED flowVars
  BY <1>18 DEF flowVars, Listening
<1> QED BY <1>1, <1>2, <1>3, <1>4, <1>5, <1>6, <1>7, <1>8, <1>9, <1>10, <1>11, <1>12, <1>13, <1>14, <1>15, <1>16, <1>17, <1>18 DEF FlowNext

(* At first nothing has come.                                              *)
LEMMA InitMemory == FlowInit => MemoryInv
<1> SUFFICES ASSUME FlowInit PROVE MemoryInv
  OBVIOUS
<1>1. FlowTypeOK
  <2>1. wire = <<>> /\ reads = 0 /\ listened = TRUE /\ heap = {} /\ queued = {}
    BY DEF FlowInit
  <2>2. work = [w \in Workers |-> Idle] /\ len = [m \in Messages |-> Nothing] /\ resume = [m \in Messages |-> Nothing]
    BY DEF FlowInit
  <2>3. wrong = FALSE /\ failed = FALSE /\ dead = FALSE
    BY DEF FlowInit
  <2>4. work \in [Workers -> [at : Reading \union Stages \union {"returned"}, on : Messages] \union {Idle}]
    BY <2>2, Zenon
  <2>5. wire \in Seq(Messages) /\ reads \in Nat /\ heap \subseteq Messages \X Blocks /\ queued \subseteq Messages \X Ways
    BY <2>1
  <2>6. /\ len \in [Messages -> Messages \union {Nothing, "lost", "stream"}]
        /\ resume \in [Messages -> {Nothing, "cleanup"}]
    BY <2>2
  <2> QED BY <2>1, <2>3, <2>4, <2>5, <2>6, Zenon DEF FlowTypeOK
<1>2. Unread /\ NoUseAfterFree
  BY DEF FlowInit, Unread, NoUseAfterFree
<1>3. ASSUME NEW m \in Messages PROVE Account(m)
  <2>1. \A w \in Workers : work[w].at = "idle"
    BY DEF FlowInit, Idle
  <2>2. Left(m)
    BY <2>1 DEF FlowInit, Left, Unowned, Holds, Waits, Stages
  <2> QED BY <2>2 DEF Account
<1> QED BY <1>1, <1>2, <1>3 DEF MemoryInv

(* The inductive invariant: every message has one owner and the blocks its *)
(* place says, for any workers, any messages and any kinds of them.         *)
THEOREM MemoryInvariance == FlowSpec => []MemoryInv
<1>1. ASSUME MemoryInv, [FlowNext]_flowVars PROVE MemoryInv'
  <2>1. FlowTypeOK /\ Unread
    BY <1>1 DEF MemoryInv
  <2>2. FlowTypeOK'
    BY <1>1, <2>1, TypeStep
  <2>3. Unread'
    BY <1>1, <2>1, UnreadStep
  <2>4. NoUseAfterFree'
    BY <1>1, UseStep
  <2>5. \A m \in Messages : Account(m)'
    BY <1>1, AccountStep
  <2> QED BY <2>2, <2>3, <2>4, <2>5 DEF MemoryInv
<1> QED BY <1>1, InitMemory, PTL DEF FlowSpec

(* One reading at a time, of the datagram that is first in the socket, and  *)
(* the descriptor put back after it.                                        *)
THEOREM ReadingInvariance == FlowSpec => [](ReadingInv /\ LengthRight /\ Listening)
<1>1. FlowInit => ReadingInv
  BY DEF FlowInit, ReadingInv, Reads, Reading, Idle
<1>2. FlowTypeOK /\ ReadingInv /\ [FlowNext]_flowVars => ReadingInv'
  BY ReadingStep
<1>3. FlowInit => LengthRight /\ Listening
  BY DEF FlowInit, LengthRight, Listening
<1>4. FlowTypeOK /\ ReadingInv /\ LengthRight /\ [FlowNext]_flowVars => LengthRight'
  BY LengthStep
<1>5. FlowTypeOK /\ ReadingInv /\ Listening /\ [FlowNext]_flowVars => Listening'
  BY ListeningStep
<1>6. MemoryInv => FlowTypeOK
  BY DEF MemoryInv
<1> QED BY <1>1, <1>2, <1>3, <1>4, <1>5, <1>6, MemoryInvariance, PTL DEF FlowSpec

(* udp.c, msg_handler.c, context.c: a message, its context and its buffer   *)
(* are used while they are there, freed once, and not left behind when      *)
(* nobody is busy with the message any longer; the length a message is      *)
(* given by a first recvfrom is that of the datagram a second one reads;    *)
(* and the socket is listened on but after a call that failed.              *)
THEOREM MessagesRightHolds == FlowSpec => []MessagesRight
<1>1. ASSUME MemoryInv PROVE AllFreed /\ NoUseAfterFree
  <2>1. ASSUME NEW b \in heap PROVE Busy(b[1]) \/ b[2] = "addr"
    <3>1. b[1] \in Messages /\ b[2] \in Blocks /\ b = <<b[1], b[2]>>
      BY <1>1 DEF MemoryInv, FlowTypeOK
    <3>2. Account(b[1])
      BY <1>1, <3>1 DEF MemoryInv
    <3>3. CASE \E w \in Workers : Held(w, b[1])
      BY <3>3 DEF Held, HeldBy, Holds, Busy
    <3>4. CASE \E way \in Ways : Waiting(b[1], way)
      <4>1. PICK way \in Ways : <<b[1], way>> \in queued
        BY <3>4 DEF Waiting, WaitsFor, Waits
      <4> QED BY <4>1 DEF Busy
    <3>5. CASE Left(b[1])
      BY <3>1, <3>5 DEF Left
    <3> QED BY <3>2, <3>3, <3>4, <3>5 DEF Account
  <2> QED BY <1>1, <2>1 DEF MemoryInv, AllFreed
<1>2. AllFreed /\ NoUseAfterFree /\ LengthRight /\ Listening => MessagesRight
  BY DEF MessagesRight
<1> QED BY <1>1, <1>2, MemoryInvariance, ReadingInvariance, PTL

-----------------------------------------------------------------------------
(* Threads *)

Points == {"create", "moved", "new", "created", "wait", "cancel", "join", "shutdown", "resume", "exit",
           "exited", "killed"}
Entries == [id : 0 .. N + 1, core_dump : {"none", "waiting", "allowed"}]
States == {"none", "starting", "running", "returned", "ended", "crashed", "waiting", "cancelled"}

ThreadTypeOK ==
  /\ rt_coredump \in BOOLEAN /\ sigterm \in BOOLEAN
  /\ pc \in Points
  /\ turn \in Threads /\ counter \in 0 .. N
  /\ tt \in [Threads -> Entries] /\ moved \in [Threads -> Entries]
  /\ state \in [Threads -> States] /\ fault \in [Threads -> Faults \union {"none"}]
  /\ cancelled \subseteq Threads
  /\ mem_lock \in 0 .. N

(* The threads are counted one by one. *)
Counting ==
  /\ pc \in {"moved", "new", "created"} => counter < N
  /\ pc \in {"wait", "cancel", "join"} => counter = N

Done == {"returned", "ended", "cancelled"}

(* A thread without an id, in the table or in its copy, does not run. *)
NoIdNoThread ==
  /\ \A t \in Threads : t <= counter /\ tt[t].id = 0 => state[t] \in Done
  /\ pc = "moved" => \A t \in Threads : t <= counter /\ moved[t].id = 0 => state[t] \in Done

Stopped(t) == state[t] \in Gone \union {"none", "returned"} \/ tt[t].core_dump # "none"

(* The loop of pthread_join. *)
JoinedSoFar ==
  /\ pc = "join" => \A t \in Threads : t < turn => Stopped(t)
  /\ pc \in {"shutdown", "resume"} => \A t \in Threads : Stopped(t)

ThreadIInv == ThreadTypeOK /\ Counting /\ NoIdNoThread /\ JoinedSoFar

-----------------------------------------------------------------------------

(* At first there is no thread.                                             *)
LEMMA ThreadsStart == Init => ThreadIInv
<1> SUFFICES ASSUME Init PROVE ThreadIInv
  OBVIOUS
<1>1. Empty \in Entries
  BY NAssumption DEF Empty, Entries
<1>2. tt \in [Threads -> Entries] /\ moved \in [Threads -> Entries]
  BY <1>1 DEF Init
<1>3. ThreadTypeOK
  <2>1. turn \in Threads /\ counter \in 0 .. N /\ mem_lock \in 0 .. N
    BY NAssumption DEF Init, Threads
  <2>2. state \in [Threads -> States] /\ fault \in [Threads -> Faults \union {"none"}]
    BY DEF Init, States
  <2>3. rt_coredump \in BOOLEAN /\ sigterm \in BOOLEAN /\ cancelled \subseteq Threads /\ pc \in Points
    BY DEF Init, Points
  <2> QED
    BY <1>2, <2>1, <2>2, <2>3 DEF ThreadTypeOK
<1>4. Counting /\ JoinedSoFar
  BY DEF Init, Counting, JoinedSoFar
<1>5. NoIdNoThread
  BY DEF Init, NoIdNoThread, Threads
<1> QED
  BY <1>3, <1>4, <1>5 DEF ThreadIInv

(* While the threads are made. *)
LEMMA CreateInv == ThreadIInv /\ pt_create_thread => ThreadIInv'
<1> SUFFICES ASSUME ThreadIInv, pt_create_thread PROVE ThreadIInv'
  OBVIOUS
<1> USE NAssumption DEF Threads
<1>1. CASE Realloc
  BY <1>1 DEF Realloc, ThreadIInv, ThreadTypeOK, Counting, NoIdNoThread, JoinedSoFar, Points
<1>2. CASE NewTable
  BY <1>2 DEF NewTable, ThreadIInv, ThreadTypeOK, Counting, NoIdNoThread, JoinedSoFar, Points
<1>3. CASE Create
  <2>1. counter + 1 \in Threads
    BY <1>3 DEF Create, ThreadIInv, ThreadTypeOK, Counting
  <2>2. ThreadTypeOK'
    BY <1>3, <2>1 DEF Create, ThreadIInv, ThreadTypeOK, Points, States
  <2>3. NoIdNoThread'
    BY <1>3, <2>1 DEF Create, ThreadIInv, ThreadTypeOK, NoIdNoThread
  <2> QED
    BY <1>3, <2>2, <2>3 DEF Create, ThreadIInv, Counting, JoinedSoFar
<1>4. ASSUME NEW i \in {Garbage, counter + 1}, pc \in {"new", "created"}, pc' = "create", counter' = counter + 1,
             tt' = [tt EXCEPT ![counter + 1].id = i],
             UNCHANGED <<rt_coredump, turn, moved, state, fault, cancelled, mem_lock, sigterm>>
      PROVE  ThreadIInv'
  <2>1. counter + 1 \in Threads /\ counter + 1 \in 0 .. N /\ i \in 0 .. N + 1 /\ i # 0
    BY <1>4 DEF ThreadIInv, ThreadTypeOK, Counting, Garbage
  <2>2. tt' \in [Threads -> Entries]
    BY <1>4, <2>1 DEF ThreadIInv, ThreadTypeOK, Entries
  <2>3. ThreadTypeOK'
    BY <1>4, <2>1, <2>2 DEF ThreadIInv, ThreadTypeOK, Points
  <2>4. \A t \in Threads : tt'[t].id = IF t = counter + 1 THEN i ELSE tt[t].id
    BY <1>4, <2>1 DEF ThreadIInv, ThreadTypeOK, Entries
  <2>5. NoIdNoThread'
    BY <1>4, <2>1, <2>4 DEF ThreadIInv, ThreadTypeOK, NoIdNoThread
  <2> QED
    BY <1>4, <2>3, <2>5 DEF ThreadIInv, Counting, JoinedSoFar
<1>5. CASE CreateFails
  BY <1>4, <1>5 DEF CreateFails
<1>6. CASE Counted
  BY <1>4, <1>6 DEF Counted
<1>7. CASE Started
  BY <1>7 DEF Started, ThreadIInv, ThreadTypeOK, Counting, NoIdNoThread, JoinedSoFar, Points
<1> QED
  BY <1>1, <1>2, <1>3, <1>5, <1>6, <1>7 DEF pt_create_thread

(* While they are stopped. *)
LEMMA StopInv == ThreadIInv /\ pt_wait_signals => ThreadIInv'
<1> SUFFICES ASSUME ThreadIInv, pt_wait_signals PROVE ThreadIInv'
  OBVIOUS
<1> USE NAssumption DEF Threads
<1>1. CASE SigWait
  BY <1>1 DEF SigWait, ThreadIInv, ThreadTypeOK, Counting, NoIdNoThread, JoinedSoFar, Points
<1>2. CASE Cancel
  <2>1. ThreadTypeOK' /\ Counting' /\ pc \in {"cancel"} /\ pc' \in {"cancel", "join", "killed"} /\ counter' = counter
    <3>1. tt' \in [Threads -> Entries]
      BY <1>2 DEF Cancel, ThreadIInv, ThreadTypeOK, Entries
    <3>2. turn' \in Threads /\ pc' \in {"cancel", "join", "killed"} /\ cancelled' \subseteq Threads
      BY <1>2 DEF Cancel, NextTurn, ThreadIInv, ThreadTypeOK, Counting
    <3> QED
      BY <1>2, <3>1, <3>2 DEF Cancel, ThreadIInv, ThreadTypeOK, Counting, Points
  <2>2. ASSUME NEW t \in Threads, t <= counter, tt'[t].id = 0
        PROVE  state[t] \in Done
    <3>1. CASE tt' = tt
      BY <2>2, <3>1 DEF ThreadIInv, NoIdNoThread
    <3>2. CASE tt' = [tt EXCEPT ![turn].id = 0] /\ state[turn] = "ended"
      <4>1. t = turn \/ tt'[t] = tt[t]
        BY <3>2 DEF ThreadIInv, ThreadTypeOK
      <4> QED
        BY <2>2, <3>2, <4>1 DEF ThreadIInv, NoIdNoThread, Done
    <3> QED
      BY <1>2, <3>1, <3>2 DEF Cancel
  <2>3. NoIdNoThread'
    BY <1>2, <2>1, <2>2 DEF Cancel, NoIdNoThread
  <2>4. JoinedSoFar'
    <3>1. pc' = "join" => turn' = 1
      BY <1>2 DEF Cancel, NextTurn
    <3> QED
      BY <2>1, <3>1 DEF JoinedSoFar
  <2> QED
    BY <2>1, <2>3, <2>4 DEF ThreadIInv
<1>3. CASE Join
  <2>1. ThreadTypeOK' /\ Counting' /\ NoIdNoThread'
    BY <1>3 DEF Join, NextTurn, ThreadIInv, ThreadTypeOK, Counting, NoIdNoThread, Points
  <2>2. Stopped(turn)
    BY <1>3 DEF Join, Joined, Stopped, Done, Gone, ThreadIInv, ThreadTypeOK, Counting, NoIdNoThread
  <2>3. \A t \in Threads : t <= turn => Stopped(t)'
    BY <1>3, <2>2 DEF Join, Stopped, ThreadIInv, ThreadTypeOK, JoinedSoFar
  <2>4. JoinedSoFar'
    BY <1>3, <2>3 DEF Join, NextTurn, ThreadIInv, ThreadTypeOK, Counting, JoinedSoFar
  <2> QED
    BY <2>1, <2>4 DEF ThreadIInv
<1>4. CASE do_shutdown
  BY <1>4 DEF do_shutdown, ThreadIInv, ThreadTypeOK, Counting, NoIdNoThread, JoinedSoFar, Stopped, Points
<1>5. CASE resume_threads_coredumping
  <2> DEFINE Woken(t) == IF tt[t].core_dump = "waiting" THEN [tt[t] EXCEPT !.core_dump = "allowed"] ELSE tt[t]
  <2>1. \A t \in Threads : Woken(t) \in Entries /\ Woken(t).id = tt[t].id
    BY DEF ThreadIInv, ThreadTypeOK, Entries
  <2>2. tt' = [t \in Threads |-> Woken(t)] /\ pc' = "exit"
    BY <1>5 DEF resume_threads_coredumping
  <2> HIDE DEF Woken
  <2>3. tt' \in [Threads -> Entries] /\ \A t \in Threads : tt'[t].id = tt[t].id
    BY <2>1, <2>2
  <2> QED
    BY <1>5, <2>3 DEF resume_threads_coredumping, ThreadIInv, ThreadTypeOK, Counting, NoIdNoThread, JoinedSoFar, Points
<1>6. CASE Exit
  BY <1>6 DEF Exit, ThreadIInv, ThreadTypeOK, Counting, NoIdNoThread, JoinedSoFar, Points
<1> QED
  BY <1>1, <1>2, <1>3, <1>4, <1>5, <1>6 DEF pt_wait_signals

-----------------------------------------------------------------------------
(* What a thread does. *)

(* The table and the attendant are left alone, and a thread that was done  *)
(* or stopped stays so.                                                    *)
LEMMA QuietStep ==
  ASSUME ThreadIInv, ThreadTypeOK',
         UNCHANGED <<turn, counter, tt, moved>>,
         pc' = pc \/ pc' = "killed",
         \A t \in Threads : /\ state[t] \in Done => state'[t] \in Done
                            /\ state[t] \in Gone \union {"none", "returned"} =>
                                state'[t] \in Gone \union {"none", "returned"}
  PROVE  ThreadIInv'
<1>1. Counting'
  BY DEF ThreadIInv, Counting
<1>2. NoIdNoThread'
  BY DEF ThreadIInv, NoIdNoThread
<1>3. \A t \in Threads : Stopped(t) => Stopped(t)'
  BY DEF Stopped
<1>4. JoinedSoFar'
  BY <1>3 DEF ThreadIInv, JoinedSoFar
<1> QED
  BY <1>1, <1>2, <1>4 DEF ThreadIInv

(* A step of a thread keeps the invariant: a thread writes to its own entry *)
(* of tt only.                                                              *)
LEMMA ThreadInv == ASSUME NEW t \in Threads, ThreadIInv, Thread(t) PROVE ThreadIInv'
<1>0. t \in 0 .. N
  BY NAssumption DEF Threads
<1>1. CASE Startup(t)
  <2>1. ThreadTypeOK'
    BY <1>1 DEF Startup, Crash, ThreadIInv, ThreadTypeOK, States, Faults
  <2> QED
    BY <1>1, <2>1, QuietStep DEF Startup, Crash, ThreadIInv, ThreadTypeOK, Done, Gone
<1>2. CASE Lock(t) \/ Unlock(t)
  <2>1. mem_lock' \in 0 .. N
    BY <1>0, <1>2, NAssumption DEF Lock, Unlock
  <2>2. ThreadTypeOK'
    BY <1>2, <2>1 DEF Lock, Unlock, ThreadIInv, ThreadTypeOK
  <2> QED
    BY <1>2, <2>2, QuietStep DEF Lock, Unlock
<1>3. CASE Routine(t)
  <2>1. /\ state[t] = "running" /\ state' = [state EXCEPT ![t] = "returned"]
        /\ tt' = [tt EXCEPT ![t].id = 0]
        /\ UNCHANGED <<rt_coredump, pc, turn, counter, moved, fault, cancelled, mem_lock, sigterm>>
    BY <1>3 DEF Routine
  <2>2. tt' \in [Threads -> Entries]
    BY <1>0, <2>1, NAssumption DEF ThreadIInv, ThreadTypeOK, Entries
  <2>3. ThreadTypeOK'
    BY <2>1, <2>2 DEF ThreadIInv, ThreadTypeOK, States
  <2>4. \A s \in Threads : s # t => tt'[s] = tt[s] /\ state'[s] = state[s]
    BY <2>1 DEF ThreadIInv, ThreadTypeOK
  <2>5. state'[t] = "returned"
    BY <2>1 DEF ThreadIInv, ThreadTypeOK
  <2>6. NoIdNoThread'
    BY <2>1, <2>4, <2>5 DEF ThreadIInv, NoIdNoThread, Done
  <2>7. \A s \in Threads : Stopped(s) => Stopped(s)'
    BY <2>4, <2>5 DEF Stopped
  <2>8. Counting' /\ JoinedSoFar'
    BY <2>1, <2>7 DEF ThreadIInv, Counting, JoinedSoFar
  <2> QED
    BY <2>3, <2>6, <2>8 DEF ThreadIInv
<1>4. CASE Trigger(t)
  <2>1. ThreadTypeOK'
    BY <1>4 DEF Trigger, ThreadIInv, ThreadTypeOK, States
  <2> QED
    BY <1>4, <2>1, QuietStep DEF Trigger, ThreadIInv, ThreadTypeOK, Done, Gone
<1>5. CASE Fault(t)
  <2>1. ThreadTypeOK'
    BY <1>5 DEF Fault, Crash, ThreadIInv, ThreadTypeOK, States
  <2> QED
    BY <1>5, <2>1, QuietStep DEF Fault, Crash, ThreadIInv, ThreadTypeOK, Done, Gone
<1>6. ASSUME state[t] \in {"crashed", "waiting"}, Again(t),
             UNCHANGED <<rt_coredump, turn, counter, tt, moved, fault, cancelled, mem_lock, sigterm>>
      PROVE  ThreadIInv'
  <2>1. ThreadTypeOK'
    BY <1>6 DEF Again, ThreadIInv, ThreadTypeOK, States, Points
  <2> QED
    BY <1>6, <2>1, QuietStep DEF Again, ThreadIInv, ThreadTypeOK, Done, Gone
<1>7. CASE sig_handler(t)
  <2>1. CASE rt_coredump
    BY <1>6, <1>7, <2>1 DEF sig_handler
  <2>2. CASE ~ rt_coredump
    <3>1. /\ state[t] = "crashed" /\ state' = [state EXCEPT ![t] = "waiting"]
          /\ tt' = [tt EXCEPT ![t].core_dump = "waiting"] /\ sigterm' = TRUE
          /\ UNCHANGED <<rt_coredump, pc, turn, counter, moved, fault, cancelled, mem_lock>>
      BY <1>7, <2>2 DEF sig_handler
    <3>2. tt' \in [Threads -> Entries] /\ \A s \in Threads : tt'[s].id = tt[s].id
      BY <3>1 DEF ThreadIInv, ThreadTypeOK, Entries
    <3>3. ThreadTypeOK'
      BY <3>1, <3>2 DEF ThreadIInv, ThreadTypeOK, States
    <3>4. tt'[t].core_dump = "waiting" /\ \A s \in Threads : s # t => tt'[s] = tt[s] /\ state'[s] = state[s]
      BY <3>1 DEF ThreadIInv, ThreadTypeOK, Entries
    <3>5. NoIdNoThread'
      BY <3>1, <3>2, <3>4 DEF ThreadIInv, NoIdNoThread, Done
    <3>6. \A s \in Threads : Stopped(s) => Stopped(s)'
      BY <3>4 DEF Stopped
    <3>7. Counting' /\ JoinedSoFar'
      BY <3>1, <3>6 DEF ThreadIInv, Counting, JoinedSoFar
    <3> QED
      BY <3>3, <3>5, <3>7 DEF ThreadIInv
  <2> QED
    BY <2>1, <2>2
<1>8. CASE Dump(t)
  BY <1>6, <1>8 DEF Dump
<1>9. CASE Die(t)
  <2>1. ThreadTypeOK'
    BY <1>9 DEF Die, ThreadIInv, ThreadTypeOK, States
  <2> QED
    BY <1>9, <2>1, QuietStep DEF Die, ThreadIInv, ThreadTypeOK, Done, Gone
<1> QED
  BY <1>1, <1>2, <1>3, <1>4, <1>5, <1>7, <1>8, <1>9 DEF Thread, Handled

-----------------------------------------------------------------------------

(* threading.c: an entry of the table that has lost its id is that of a    *)
(* thread that has returned, even if it was moved while the thread wrote.  *)
THEOREM ThreadInvariance == Spec => []ThreadIInv
<1>1. ThreadIInv /\ [Next]_threadVars => ThreadIInv'
  <2> SUFFICES ASSUME ThreadIInv, [Next]_threadVars PROVE ThreadIInv'
    OBVIOUS
  <2>1. CASE Signal
    BY <2>1 DEF Signal, ThreadIInv, ThreadTypeOK, Counting, NoIdNoThread, JoinedSoFar, Stopped
  <2>2. CASE UNCHANGED threadVars
    BY <2>2 DEF threadVars, ThreadIInv, ThreadTypeOK, Counting, NoIdNoThread, JoinedSoFar, Stopped
  <2> QED
    BY <2>1, <2>2, CreateInv, StopInv, ThreadInv DEF Next, Attendant
<1> QED
  BY <1>1, ThreadsStart, PTL DEF Spec

(* main.c:238: when everything is destroyed every thread has ended, or     *)
(* waits in its signal handler for its core dump, however many they are.   *)
THEOREM AllStoppedHolds == Spec => []AllStopped
<1>1. ThreadIInv => AllStopped
  BY DEF ThreadIInv, JoinedSoFar, Stopped, AllStopped, Gone
<1> QED
  BY <1>1, ThreadInvariance, PTL
=============================================================================
