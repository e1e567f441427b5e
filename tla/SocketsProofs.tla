----------------------------- MODULE SocketsProofs -----------------------------
(***************************************************************************)
(* What the loops of poll, select and kqueue do with a descriptor, and     *)
(* what mi_stream does with a connection.                                  *)
(***************************************************************************)
EXTENDS MCThreads, FiniteSetTheorems, TLAPS

-----------------------------------------------------------------------------
(* The back-ends of the reactor: the invariant *)

Ops == {"ADD_FD", "FIRE_FD"} \X Fds
Entries == [fd : Fds, revents : BOOLEAN]

PollTypeOK ==
  /\ back \in {"poll", "select", "kqueue"}
  /\ at \in {"wait", "pipe", "messages", "scan"}
  /\ arr \in Seq(Entries)
  /\ pipe \in Seq(Ops) /\ batch \in Seq(Ops)
  /\ slot \in [Fds -> Nat] /\ count \in [Fds -> Nat]
  /\ place \in [Fds -> {"owner", "hashed", "reactor"}]
  /\ put \in [Fds -> Seq(Nat)]
  /\ ready \subseteq Fds /\ local \subseteq Fds
  /\ r \in Nat \ {0}

(* An ADD_FD of fd is among the messages. *)
Adding(ops, fd) == \E k \in DOMAIN ops : ops[k] = <<"ADD_FD", fd>>
AddOnce(ops) == \A k, l \in DOMAIN ops : ops[k][1] = "ADD_FD" /\ ops[k] = ops[l] => k = l
ArrOnce == \A k, l \in DOMAIN arr : arr[k].fd = arr[l].fd => k = l

(* Where a descriptor the reactor was given is. *)
OnItsWay(fd) == Adding(pipe, fd) /\ ~ Adding(batch, fd) /\ fd \notin Registered /\ put[fd] = <<>>
InBatch(fd)  == ~ Adding(pipe, fd) /\ Adding(batch, fd) /\ fd \notin Registered /\ put[fd] = <<>>
Watched(fd)  == ~ Adding(pipe, fd) /\ ~ Adding(batch, fd) /\ fd \in Registered /\ put[fd] = <<>>
Nowhere(fd)  == ~ Adding(pipe, fd) /\ ~ Adding(batch, fd) /\ fd \notin Registered
Given(fd)    == Nowhere(fd) /\ put[fd] = <<count[fd]>>

PlaceInv(fd) ==
  IF place[fd] = "reactor" THEN \/ slot[fd] = count[fd] /\ (OnItsWay(fd) \/ InBatch(fd) \/ Watched(fd))
                                \/ Given(fd)
  ELSE Nowhere(fd) /\ put[fd] = <<>> /\ (place[fd] = "hashed" => slot[fd] = count[fd])

(* The copy the loop works on says nothing of descriptors that came later. *)
LoopInv ==
  /\ at # "messages" => batch = <<>>
  /\ back = "kqueue" => at \in {"wait", "scan"}
  /\ back # "poll" /\ (at = "pipe" \/ (at = "scan" /\ back = "kqueue")) => local \subseteq Registered
  /\ back = "select" /\ at = "messages" => \A fd \in local : ~ Adding(batch, fd)
  /\ at # "wait" => \A k \in DOMAIN arr : Reported(k) => arr[k].fd \in ready

PollIInv ==
  /\ PollTypeOK /\ LoopInv
  /\ AddOnce(pipe) /\ AddOnce(batch) /\ ArrOnce
  /\ \A fd \in Fds : PlaceInv(fd)

-----------------------------------------------------------------------------
(* Sequences of messages and of descriptors *)

(* One more message. *)
LEMMA MessageAdded ==
  ASSUME NEW ops \in Seq(Ops), NEW op \in Ops, AddOnce(ops),
         op[1] = "ADD_FD" => ~ Adding(ops, op[2])
  PROVE  /\ Append(ops, op) \in Seq(Ops) /\ AddOnce(Append(ops, op))
         /\ \A fd \in Fds : Adding(Append(ops, op), fd) <=> Adding(ops, fd) \/ op = <<"ADD_FD", fd>>
<1> DEFINE new == Append(ops, op)
<1>1. /\ new \in Seq(Ops) /\ Len(new) = Len(ops) + 1
      /\ \A k \in 1 .. Len(ops) : new[k] = ops[k]
      /\ new[Len(ops) + 1] = op
  OBVIOUS
<1>2. DOMAIN new = 1 .. Len(ops) + 1 /\ DOMAIN ops = 1 .. Len(ops)
  BY <1>1
<1>3. op = <<op[1], op[2]>> /\ op[2] \in Fds
  BY DEF Ops
<1> HIDE DEF new
<1>4. ASSUME NEW fd \in Fds PROVE Adding(new, fd) <=> Adding(ops, fd) \/ op = <<"ADD_FD", fd>>
  <2>1. ASSUME Adding(new, fd) PROVE Adding(ops, fd) \/ op = <<"ADD_FD", fd>>
    <3>1. PICK k \in DOMAIN new : new[k] = <<"ADD_FD", fd>>
      BY <2>1 DEF Adding
    <3>2. CASE k = Len(ops) + 1
      BY <3>1, <3>2, <1>1
    <3>3. CASE k \in 1 .. Len(ops)
      <4>1. k \in DOMAIN ops /\ ops[k] = <<"ADD_FD", fd>>
        BY <3>1, <3>3, <1>1, <1>2
      <4> QED
        BY <4>1 DEF Adding
    <3> QED
      BY <3>2, <3>3, <1>2
  <2>2. ASSUME Adding(ops, fd) PROVE Adding(new, fd)
    <3>1. PICK k \in DOMAIN ops : ops[k] = <<"ADD_FD", fd>>
      BY <2>2 DEF Adding
    <3> QED
      BY <3>1, <1>1, <1>2 DEF Adding
  <2>3. ASSUME op = <<"ADD_FD", fd>> PROVE Adding(new, fd)
    BY <2>3, <1>1, <1>2 DEF Adding
  <2> QED
    BY <2>1, <2>2, <2>3
<1>5. AddOnce(new)
  <2> SUFFICES ASSUME NEW k \in DOMAIN new, NEW l \in DOMAIN new, new[k][1] = "ADD_FD", new[k] = new[l]
               PROVE  k = l
    BY DEF AddOnce
  <2>1. CASE k \in DOMAIN ops /\ l \in DOMAIN ops
    BY <2>1, <1>1, <1>2 DEF AddOnce
  <2>2. CASE k \in DOMAIN ops /\ l = Len(ops) + 1
    BY <2>2, <1>1, <1>2, <1>3 DEF Adding
  <2>3. CASE l \in DOMAIN ops /\ k = Len(ops) + 1
    BY <2>3, <1>1, <1>2, <1>3 DEF Adding
  <2> QED
    BY <2>1, <2>2, <2>3, <1>2
<1> QED
  BY <1>1, <1>4, <1>5 DEF new

(* The first message taken. *)
LEMMA MessageTaken ==
  ASSUME NEW ops \in Seq(Ops), ops # <<>>, AddOnce(ops)
  PROVE  /\ Head(ops) \in Ops /\ Tail(ops) \in Seq(Ops) /\ AddOnce(Tail(ops))
         /\ \A fd \in Fds : Adding(ops, fd) <=> Adding(Tail(ops), fd) \/ Head(ops) = <<"ADD_FD", fd>>
         /\ \A fd \in Fds : Head(ops) = <<"ADD_FD", fd>> => ~ Adding(Tail(ops), fd)
<1> DEFINE new == Tail(ops)
<1>1. /\ new \in Seq(Ops) /\ Len(new) = Len(ops) - 1 /\ Head(ops) \in Ops /\ Head(ops) = ops[1]
      /\ Len(ops) \in Nat \ {0}
      /\ \A k \in 1 .. Len(ops) - 1 : new[k] = ops[k + 1]
  OBVIOUS
<1>2. DOMAIN new = 1 .. Len(ops) - 1 /\ DOMAIN ops = 1 .. Len(ops)
  BY <1>1
<1> HIDE DEF new
<1>3. AddOnce(new)
  <2> SUFFICES ASSUME NEW k \in DOMAIN new, NEW l \in DOMAIN new, new[k][1] = "ADD_FD", new[k] = new[l]
               PROVE  k = l
    BY DEF AddOnce
  <2>1. /\ k \in Nat /\ l \in Nat /\ k + 1 \in DOMAIN ops /\ l + 1 \in DOMAIN ops
        /\ new[k] = ops[k + 1] /\ new[l] = ops[l + 1]
    BY <1>1, <1>2
  <2>2. k + 1 = l + 1
    BY <2>1 DEF AddOnce
  <2> QED
    BY <2>1, <2>2
<1>4. ASSUME NEW fd \in Fds PROVE Adding(ops, fd) <=> Adding(new, fd) \/ Head(ops) = <<"ADD_FD", fd>>
  <2>1. ASSUME Adding(ops, fd) PROVE Adding(new, fd) \/ Head(ops) = <<"ADD_FD", fd>>
    <3>1. PICK k \in DOMAIN ops : ops[k] = <<"ADD_FD", fd>>
      BY <2>1 DEF Adding
    <3>2. CASE k = 1
      BY <3>1, <3>2, <1>1
    <3>3. CASE k # 1
      <4>1. k - 1 \in DOMAIN new /\ new[k - 1] = ops[k]
        BY <3>3, <1>1, <1>2
      <4> QED
        BY <4>1, <3>1 DEF Adding
    <3> QED
      BY <3>2, <3>3
  <2>2. ASSUME Adding(new, fd) PROVE Adding(ops, fd)
    <3>1. PICK k \in DOMAIN new : new[k] = <<"ADD_FD", fd>>
      BY <2>2 DEF Adding
    <3>2. k + 1 \in DOMAIN ops /\ ops[k + 1] = new[k]
      BY <1>1, <1>2
    <3> QED
      BY <3>1, <3>2 DEF Adding
  <2>3. ASSUME Head(ops) = <<"ADD_FD", fd>> PROVE Adding(ops, fd)
    BY <2>3, <1>1, <1>2 DEF Adding
  <2> QED
    BY <2>1, <2>2, <2>3
<1>5. ASSUME NEW fd \in Fds, Head(ops) = <<"ADD_FD", fd>>, Adding(new, fd) PROVE FALSE
  <2>1. PICK k \in DOMAIN new : new[k] = <<"ADD_FD", fd>>
    BY <1>5 DEF Adding
  <2>2. k + 1 \in DOMAIN ops /\ ops[k + 1] = new[k] /\ 1 \in DOMAIN ops /\ k + 1 # 1
    BY <1>1, <1>2
  <2>3. ops[1][1] = "ADD_FD" /\ ops[1] = ops[k + 1]
    BY <1>5, <1>1, <2>1, <2>2
  <2> QED
    BY <2>2, <2>3 DEF AddOnce
<1> QED
  BY <1>1, <1>3, <1>4, <1>5 DEF new

(* No message. *)
LEMMA NoMessages == <<>> \in Seq(Ops) /\ AddOnce(<<>>) /\ \A fd \in Fds : ~ Adding(<<>>, fd)
  BY DEF AddOnce, Adding

(* A sequence without the element in one place. *)
LEMMA Removed ==
  ASSUME NEW S, NEW s \in Seq(S), NEW k \in DOMAIN s
  PROVE  /\ RemoveAt(s, k) \in Seq(S) /\ Len(RemoveAt(s, k)) = Len(s) - 1
         /\ \A l \in 1 .. Len(s) - 1 : RemoveAt(s, k)[l] = IF l < k THEN s[l] ELSE s[l + 1]
<1>1. k \in 1 .. Len(s) /\ Len(s) \in Nat
  OBVIOUS
<1>2. /\ SubSeq(s, 1, k - 1) \in Seq(S) /\ Len(SubSeq(s, 1, k - 1)) = k - 1
      /\ \A l \in 1 .. k - 1 : SubSeq(s, 1, k - 1)[l] = s[l]
  BY <1>1
<1>3. /\ SubSeq(s, k + 1, Len(s)) \in Seq(S) /\ Len(SubSeq(s, k + 1, Len(s))) = Len(s) - k
      /\ \A l \in 1 .. Len(s) - k : SubSeq(s, k + 1, Len(s))[l] = s[l + k]
  BY <1>1
<1> DEFINE a == SubSeq(s, 1, k - 1)
           b == SubSeq(s, k + 1, Len(s))
<1>4. RemoveAt(s, k) = a \o b
  BY DEF RemoveAt
<1> HIDE DEF a, b
<1>5. /\ a \in Seq(S) /\ b \in Seq(S) /\ Len(a) = k - 1 /\ Len(b) = Len(s) - k
      /\ \A l \in 1 .. k - 1 : a[l] = s[l]
      /\ \A l \in 1 .. Len(s) - k : b[l] = s[l + k]
  BY <1>2, <1>3 DEF a, b
<1>6. a \o b \in Seq(S) /\ Len(a \o b) = Len(s) - 1
  BY <1>1, <1>5
<1>7. ASSUME NEW l \in 1 .. Len(s) - 1 PROVE (a \o b)[l] = IF l < k THEN s[l] ELSE s[l + 1]
  <2>1. CASE l < k
    BY <2>1, <1>1, <1>5
  <2>2. CASE l >= k
    <3>1. l - (k - 1) \in 1 .. Len(s) - k /\ (l - (k - 1)) + k = l + 1
      BY <2>2, <1>1
    <3>2. (a \o b)[l] = b[l - (k - 1)]
      <4>1. l \in 1 .. Len(a) + Len(b) /\ ~ (l <= Len(a)) /\ l - Len(a) = l - (k - 1)
        BY <2>2, <1>1, <1>5
      <4>2. \A u \in 1 .. Len(a) + Len(b) : (a \o b)[u] = IF u <= Len(a) THEN a[u] ELSE b[u - Len(a)]
        BY <1>5
      <4>3. (a \o b)[l] = b[l - Len(a)]
        BY <4>1, <4>2
      <4> QED
        BY <4>1, <4>3
    <3>3. b[l - (k - 1)] = s[(l - (k - 1)) + k]
      BY <3>1, <1>5
    <3>4. ~ (l < k)
      BY <2>2, <1>1
    <3>5. (a \o b)[l] = s[l + 1]
      BY <3>1, <3>2, <3>3
    <3> QED
      BY <3>4, <3>5
  <2>3. l < k \/ l >= k
    BY <1>1
  <2> QED
    BY <2>1, <2>2, <2>3
<1> QED
  BY <1>4, <1>6, <1>7

(* The entries of the array. *)
LEMMA EntriesOf ==
  /\ \A fd \in Fds, b \in BOOLEAN : [fd |-> fd, revents |-> b] \in Entries
  /\ \A e \in Entries : e.fd \in Fds /\ e.revents \in BOOLEAN
  /\ \A e \in Entries, b \in BOOLEAN : /\ [e EXCEPT !.revents = b] \in Entries
                                    /\ [e EXCEPT !.revents = b].fd = e.fd
                                    /\ [e EXCEPT !.revents = b].revents = b
  BY DEF Entries

(* A descriptor taken out of the array. *)
LEMMA EntryRemoved ==
  ASSUME PollTypeOK, ArrOnce, NEW k \in DOMAIN arr, array_fd_del(k)
  PROVE  /\ arr' \in Seq(Entries) /\ ArrOnce'
         /\ Registered' = Registered \ {arr[k].fd}
         /\ \A l \in DOMAIN arr' : \E j \in DOMAIN arr : arr'[l] = arr[j]
<1>1. /\ arr' \in Seq(Entries) /\ Len(arr') = Len(arr) - 1
      /\ \A l \in 1 .. Len(arr) - 1 : arr'[l] = IF l < k THEN arr[l] ELSE arr[l + 1]
  BY Removed DEF PollTypeOK, array_fd_del
<1>2. /\ DOMAIN arr' = 1 .. Len(arr) - 1 /\ DOMAIN arr = 1 .. Len(arr) /\ Len(arr) \in Nat
  BY <1>1 DEF PollTypeOK
<1>3. \A l \in DOMAIN arr' : LET j == IF l < k THEN l ELSE l + 1
                              IN j \in DOMAIN arr /\ j # k /\ arr'[l] = arr[j]
  BY <1>1, <1>2
<1>4. ASSUME NEW j \in DOMAIN arr, j # k PROVE \E l \in DOMAIN arr' : arr'[l] = arr[j]
  <2>1. CASE j < k
    BY <2>1, <1>1, <1>2
  <2>2. CASE j > k
    <3>1. j - 1 \in DOMAIN arr' /\ arr'[j - 1] = arr[j]
      BY <2>2, <1>1, <1>2
    <3> QED
      BY <3>1
  <2> QED
    BY <1>4, <2>1, <2>2, <1>2
<1>5. Registered' = Registered \ {arr[k].fd}
  <2>1. ASSUME NEW fd \in Registered' PROVE fd \in Registered /\ fd # arr[k].fd
    BY <2>1, <1>3 DEF Registered, ArrOnce
  <2>2. ASSUME NEW fd \in Registered, fd # arr[k].fd PROVE fd \in Registered'
    BY <2>2, <1>4 DEF Registered
  <2> QED
    BY <2>1, <2>2
<1>6. ArrOnce'
  BY <1>1, <1>2, <1>3 DEF ArrOnce
<1> QED
  BY <1>1, <1>3, <1>5, <1>6

(* One put at its end. *)
LEMMA EntryAdded ==
  ASSUME PollTypeOK, ArrOnce, NEW fd \in Fds, fd \notin Registered, arr' = array_fd_add(fd)
  PROVE  /\ arr' \in Seq(Entries) /\ ArrOnce'
         /\ Registered' = Registered \union {fd}
         /\ \A l \in DOMAIN arr' : (l \in DOMAIN arr /\ arr'[l] = arr[l]) \/ arr'[l] = [fd |-> fd, revents |-> FALSE]
<1> DEFINE e == [fd |-> fd, revents |-> FALSE]
<1>0. e \in Entries /\ e.fd = fd /\ arr' = Append(arr, e) /\ arr \in Seq(Entries)
  BY EntriesOf DEF PollTypeOK, array_fd_add
<1> HIDE DEF e
<1>1. /\ arr' \in Seq(Entries) /\ Len(arr') = Len(arr) + 1
      /\ \A l \in 1 .. Len(arr) : arr'[l] = arr[l]
      /\ arr'[Len(arr) + 1] = e
  BY <1>0
<1>2. /\ DOMAIN arr' = 1 .. Len(arr) + 1 /\ DOMAIN arr = 1 .. Len(arr) /\ Len(arr) \in Nat
  BY <1>1 DEF PollTypeOK
<1>3. Registered' = Registered \union {fd}
  BY <1>0, <1>1, <1>2 DEF Registered
<1>4. ArrOnce'
  BY <1>0, <1>1, <1>2 DEF ArrOnce, Registered
<1> QED
  BY <1>1, <1>2, <1>3, <1>4 DEF e

(* array_fd_del looks for it. *)
LEMMA Found ==
  ASSUME PollTypeOK, ArrOnce, NEW fd \in Registered
  PROVE  Index(fd) \in DOMAIN arr /\ arr[Index(fd)].fd = fd
<1>1. DOMAIN arr = 1 .. Len(arr) /\ Len(arr) \in Nat
  BY DEF PollTypeOK
<1>2. PICK k \in DOMAIN arr : arr[k].fd = fd
  BY DEF Registered
<1>3. { l \in 1 .. Len(arr) : arr[l].fd = fd } = {k}
  BY <1>1, <1>2 DEF ArrOnce
<1>4. Min({k}) = k
  BY <1>1, <1>2 DEF Min
<1>5. Index(fd) = k
  BY <1>3, <1>4 DEF Index, SelectInSeq
<1> QED
  BY <1>2, <1>5

-----------------------------------------------------------------------------
(* The steps of the threads that use the reactor *)

(* Nothing happens to q. *)
SameFor(q) ==
  /\ place'[q] = place[q] /\ slot'[q] = slot[q] /\ count'[q] = count[q] /\ put'[q] = put[q]
  /\ q \in Registered' <=> q \in Registered
  /\ Adding(pipe, q)' <=> Adding(pipe, q)
  /\ Adding(batch, q)' <=> Adding(batch, q)

(* It keeps its place. *)
LEMMA SameKept == ASSUME NEW q \in Fds, PlaceInv(q), SameFor(q) PROVE PlaceInv(q)'
  BY DEF SameFor, PlaceInv, OnItsWay, InBatch, Watched, Nowhere, Given

(* safe_add_to_hash keeps the invariant. *)
LEMMA HashKeeps == ASSUME PollIInv, NEW fd \in Fds, Hash(fd) PROVE PollIInv'
<1> USE DEF PollIInv
<1>1. /\ place[fd] = "owner" /\ count' = [count EXCEPT ![fd] = @ + 1] /\ slot' = [slot EXCEPT ![fd] = count'[fd]]
      /\ place' = [place EXCEPT ![fd] = "hashed"]
      /\ UNCHANGED <<back, arr, local, pipe, batch, put, ready, at, r>>
  BY DEF Hash
<1>2. PollTypeOK'
  BY <1>1 DEF PollTypeOK
<1>3. LoopInv' /\ AddOnce(pipe)' /\ AddOnce(batch)' /\ ArrOnce'
  BY <1>1 DEF LoopInv, Reported, Registered, AddOnce, ArrOnce, Adding
<1>4. ASSUME NEW q \in Fds PROVE PlaceInv(q)'
  <2>1. Registered' = Registered /\ put'[q] = put[q] /\ (Adding(pipe, q)' <=> Adding(pipe, q))
        /\ (Adding(batch, q)' <=> Adding(batch, q))
    BY <1>1 DEF Registered, Adding
  <2>2. CASE q = fd
    <3>1. Nowhere(q) /\ put[q] = <<>>
      BY <1>1, <2>2 DEF PlaceInv, PollTypeOK
    <3>2. place'[q] = "hashed" /\ slot'[q] = count'[q]
      BY <1>1, <2>2 DEF PollTypeOK
    <3> QED
      BY <2>1, <3>1, <3>2 DEF PlaceInv, Nowhere
  <2>3. CASE q # fd
    <3>1. place'[q] = place[q] /\ slot'[q] = slot[q] /\ count'[q] = count[q]
      BY <1>1, <2>3 DEF PollTypeOK
    <3> QED
      BY <2>1, <3>1, SameKept DEF SameFor
  <2> QED
    BY <2>2, <2>3
<1> QED
  BY <1>2, <1>3, <1>4

(* poll_add, select_add and kqueue_add keep it. *)
LEMMA AddKeeps == ASSUME PollIInv, NEW fd \in Fds, Add(fd) PROVE PollIInv'
<1> USE DEF PollIInv
<1>1. /\ place[fd] = "hashed" /\ place' = [place EXCEPT ![fd] = "reactor"]
      /\ UNCHANGED <<back, local, slot, count, batch, put, ready, at, r>>
  BY DEF Add
<1>2. Nowhere(fd) /\ put[fd] = <<>> /\ slot[fd] = count[fd]
  BY <1>1 DEF PlaceInv
<1>3. CASE back = "kqueue"
  <2>1. arr' = array_fd_add(fd) /\ pipe' = pipe
    BY <1>3 DEF Add
  <2>2. /\ arr' \in Seq(Entries) /\ ArrOnce'
        /\ Registered' = Registered \union {fd}
        /\ \A l \in DOMAIN arr' : (l \in DOMAIN arr /\ arr'[l] = arr[l]) \/ arr'[l] = [fd |-> fd, revents |-> FALSE]
    BY <1>2, <2>1, EntryAdded DEF Nowhere
  <2>3. PollTypeOK'
    BY <1>1, <2>1, <2>2 DEF PollTypeOK
  <2>4. LoopInv'
    BY <1>1, <1>2, <1>3, <2>1, <2>2 DEF LoopInv, Reported, Nowhere, Adding
  <2>5. ASSUME NEW q \in Fds PROVE PlaceInv(q)'
    <3>1. (Adding(pipe, q)' <=> Adding(pipe, q)) /\ (Adding(batch, q)' <=> Adding(batch, q))
      BY <1>1, <2>1 DEF Adding
    <3>2. CASE q = fd
      BY <1>1, <1>2, <2>2, <3>1, <3>2 DEF PlaceInv, Watched, Nowhere, PollTypeOK
    <3>3. CASE q # fd
      BY <1>1, <2>2, <3>1, <3>3, SameKept DEF SameFor, PollTypeOK
    <3> QED
      BY <3>2, <3>3
  <2> QED
    BY <1>1, <2>1, <2>2, <2>3, <2>4, <2>5 DEF AddOnce
<1>4. CASE back # "kqueue"
  <2> DEFINE op == <<"ADD_FD", fd>>
  <2>1. pipe' = Append(pipe, op) /\ arr' = arr
    BY <1>4 DEF Add
  <2>2. op \in Ops /\ op[1] = "ADD_FD" /\ op[2] = fd
    BY DEF Ops
  <2>3. /\ pipe' \in Seq(Ops) /\ AddOnce(pipe')
        /\ \A q \in Fds : Adding(pipe', q) <=> Adding(pipe, q) \/ op = <<"ADD_FD", q>>
    BY <1>2, <2>1, <2>2, MessageAdded DEF Nowhere, PollTypeOK
  <2>4. PollTypeOK'
    BY <1>1, <2>1, <2>3 DEF PollTypeOK
  <2>5. Registered' = Registered
    BY <2>1 DEF Registered
  <2>6. LoopInv'
    BY <1>1, <2>1, <2>5 DEF LoopInv, Reported, Adding
  <2>7. ASSUME NEW q \in Fds PROVE PlaceInv(q)'
    <3>1. (Adding(batch, q)' <=> Adding(batch, q)) /\ (Adding(pipe, q)' <=> Adding(pipe', q))
      BY <1>1 DEF Adding
    <3>2. CASE q = fd
      BY <1>1, <1>2, <2>3, <2>5, <3>1, <3>2 DEF PlaceInv, OnItsWay, Nowhere, PollTypeOK
    <3>3. CASE q # fd
      BY <1>1, <2>3, <2>5, <3>1, <3>3, SameKept DEF SameFor, PollTypeOK
    <3> QED
      BY <3>2, <3>3
  <2> QED
    BY <1>1, <2>1, <2>3, <2>4, <2>6, <2>7 DEF AddOnce, ArrOnce
<1> QED
  BY <1>3, <1>4

(* fire_fd. *)
LEMMA FireKeeps == ASSUME PollIInv, NEW fd \in Fds, send_fire(fd) PROVE PollIInv'
<1> USE DEF PollIInv
<1> DEFINE op == <<"FIRE_FD", fd>>
<1>1. pipe' = Append(pipe, op) /\ UNCHANGED <<back, arr, local, slot, count, place, batch, put, ready, at, r>>
  BY DEF send_fire
<1>2. op \in Ops /\ op[1] # "ADD_FD"
  BY DEF Ops
<1>3. /\ pipe' \in Seq(Ops) /\ AddOnce(pipe')
      /\ \A q \in Fds : Adding(pipe', q) <=> Adding(pipe, q) \/ op = <<"ADD_FD", q>>
  BY <1>1, <1>2, MessageAdded DEF PollTypeOK
<1>4. PollTypeOK'
  BY <1>1, <1>3 DEF PollTypeOK
<1>5. Registered' = Registered
  BY <1>1 DEF Registered
<1>6. LoopInv'
  BY <1>1, <1>5 DEF LoopInv, Reported, Adding
<1>7. ASSUME NEW q \in Fds PROVE PlaceInv(q)'
  <2>1. (Adding(batch, q)' <=> Adding(batch, q)) /\ (Adding(pipe, q)' <=> Adding(pipe', q))
    BY <1>1 DEF Adding
  <2> QED
    BY <1>1, <1>3, <1>5, <2>1, SameKept DEF SameFor
<1> QED
  BY <1>1, <1>3, <1>4, <1>6, <1>7 DEF AddOnce, ArrOnce

(* Something to read. *)
LEMMA ArrivalKeeps == ASSUME PollIInv, NEW fd \in Fds, Arrival(fd) PROVE PollIInv'
<1> USE DEF PollIInv
<1>1. ready' = ready \union {fd} /\ UNCHANGED <<back, arr, local, slot, count, place, pipe, batch, put, at, r>>
  BY DEF Arrival
<1>2. Registered' = Registered
  BY <1>1 DEF Registered
<1>3. PollTypeOK' /\ LoopInv' /\ AddOnce(pipe)' /\ AddOnce(batch)' /\ ArrOnce'
  BY <1>1, <1>2 DEF PollTypeOK, LoopInv, Reported, AddOnce, ArrOnce, Adding
<1>4. ASSUME NEW q \in Fds PROVE PlaceInv(q)'
  BY <1>1, <1>2, SameKept DEF SameFor, Adding
<1> QED
  BY <1>3, <1>4

(* The callback. *)
LEMMA RunKeeps == ASSUME PollIInv, NEW fd \in Fds, RunTask(fd) PROVE PollIInv'
<1> USE DEF PollIInv
<1>1. /\ put[fd] # <<>> /\ put' = [put EXCEPT ![fd] = Tail(@)] /\ place' = [place EXCEPT ![fd] = "owner"]
      /\ ready' = ready \ {fd}
      /\ UNCHANGED <<back, arr, local, slot, count, pipe, batch, at, r>>
  BY DEF RunTask
<1>2. Nowhere(fd) /\ put[fd] = <<count[fd]>>
  BY <1>1 DEF PlaceInv, OnItsWay, InBatch, Watched, Given
<1>3. Tail(put[fd]) = <<>>
  BY <1>2
<1>4. Registered' = Registered
  BY <1>1 DEF Registered
<1>5. PollTypeOK'
  BY <1>1, <1>3 DEF PollTypeOK
<1>6. LoopInv' /\ AddOnce(pipe)' /\ AddOnce(batch)' /\ ArrOnce'
  <2>1. \A k \in DOMAIN arr : arr[k].fd # fd
    BY <1>2 DEF Nowhere, Registered
  <2> QED
    BY <1>1, <1>4, <2>1 DEF LoopInv, Reported, AddOnce, ArrOnce, Adding
<1>7. ASSUME NEW q \in Fds PROVE PlaceInv(q)'
  <2>1. (Adding(pipe, q)' <=> Adding(pipe, q)) /\ (Adding(batch, q)' <=> Adding(batch, q))
    BY <1>1 DEF Adding
  <2>2. CASE q = fd
    BY <1>1, <1>2, <1>3, <1>4, <2>1, <2>2 DEF PlaceInv, Nowhere, PollTypeOK
  <2>3. CASE q # fd
    BY <1>1, <1>4, <2>1, <2>3, SameKept DEF SameFor, PollTypeOK
  <2> QED
    BY <2>2, <2>3
<1> QED
  BY <1>5, <1>6, <1>7

-----------------------------------------------------------------------------
(* The steps of the reactor thread *)

(* poll, select and kevent keep the invariant. *)
LEMMA WaitKeeps == ASSUME PollIInv, Wait PROVE PollIInv'
<1> USE DEF PollIInv
<1>1. /\ at = "wait" /\ at' \in {"pipe", "scan"} /\ (at' = "pipe" => back # "kqueue") /\ r' = 1
      /\ local' = (IF back = "poll" THEN {} ELSE Seen)
      /\ arr' = IF back # "poll" THEN arr
                ELSE [k \in DOMAIN arr |-> [arr[k] EXCEPT !.revents = arr[k].fd \in Seen]]
      /\ UNCHANGED <<back, slot, count, place, pipe, batch, put, ready>>
  BY DEF Wait, PipeReadable
<1>2. Seen \subseteq Registered /\ Seen \subseteq ready
  BY DEF Seen
<1>3. /\ arr' \in Seq(Entries) /\ DOMAIN arr' = DOMAIN arr
      /\ \A k \in DOMAIN arr : arr'[k].fd = arr[k].fd
      /\ back = "poll" => \A k \in DOMAIN arr : arr'[k].revents = (arr[k].fd \in Seen)
  <2>1. CASE back # "poll"
    BY <1>1, <2>1 DEF PollTypeOK
  <2>2. CASE back = "poll"
    <3>0. arr \in Seq(Entries)
      BY DEF PollTypeOK
    <3>1. \A k \in DOMAIN arr : arr[k] \in Entries
      BY <3>0
    <3>2. DOMAIN arr = 1 .. Len(arr) /\ Len(arr) \in Nat
      BY DEF PollTypeOK
    <3> DEFINE Marked(k) == [arr[k] EXCEPT !.revents = arr[k].fd \in Seen]
    <3>3. arr' = [k \in 1 .. Len(arr) |-> Marked(k)]
      BY <1>1, <2>2, <3>2
    <3>4. ASSUME NEW k \in 1 .. Len(arr)
          PROVE  Marked(k) \in Entries /\ Marked(k).fd = arr[k].fd /\ Marked(k).revents = (arr[k].fd \in Seen)
      <4>1. arr[k] \in Entries /\ (arr[k].fd \in Seen) \in BOOLEAN
        BY <3>1, <3>2
      <4> QED
        BY <4>1, EntriesOf
    <3> HIDE DEF Marked
    <3>5. arr' \in [1 .. Len(arr) -> Entries]
      BY <3>3, <3>4
    <3>6. arr' \in Seq(Entries) /\ DOMAIN arr' = DOMAIN arr
      BY <3>2, <3>5
    <3>7. \A k \in 1 .. Len(arr) : arr'[k] = Marked(k)
      BY <3>3
    <3> QED
      BY <2>2, <3>2, <3>4, <3>6, <3>7
  <2> QED
    BY <2>1, <2>2
<1>4. Registered' = Registered /\ ArrOnce'
  BY <1>3 DEF Registered, ArrOnce
<1>5. PollTypeOK'
  BY <1>1, <1>2, <1>3 DEF PollTypeOK
<1>6. ASSUME NEW k \in DOMAIN arr', Reported(k)' PROVE arr'[k].fd \in ready'
  BY <1>1, <1>2, <1>3, <1>6 DEF Reported
<1>7. LoopInv'
  BY <1>1, <1>2, <1>4, <1>6 DEF LoopInv
<1>8. ASSUME NEW q \in Fds PROVE PlaceInv(q)'
  BY <1>1, <1>4, SameKept DEF SameFor, Adding
<1> QED
  BY <1>1, <1>4, <1>5, <1>7, <1>8 DEF AddOnce

(* The read of the pipe. *)
LEMMA ReadPipeKeeps == ASSUME PollIInv, ReadPipe PROVE PollIInv'
<1> USE DEF PollIInv
<1>1. /\ at = "pipe" /\ batch' = pipe /\ pipe' = <<>> /\ at' = "messages" /\ batch = <<>>
      /\ UNCHANGED <<back, arr, local, slot, count, place, put, ready, r>>
  BY DEF ReadPipe, LoopInv
<1>2. Registered' = Registered
  BY <1>1 DEF Registered
<1>3. PollTypeOK' /\ AddOnce(pipe)' /\ AddOnce(batch)' /\ ArrOnce'
  BY <1>1, NoMessages DEF PollTypeOK, AddOnce, ArrOnce
<1>4. ASSUME NEW q \in Fds PROVE ~ Adding(pipe, q)' /\ (Adding(batch, q)' <=> Adding(pipe, q)) /\ ~ Adding(batch, q)
  BY <1>1 DEF Adding
<1>5. ASSUME NEW q \in Fds PROVE PlaceInv(q)'
  BY <1>1, <1>2, <1>4 DEF PlaceInv, OnItsWay, InBatch, Watched, Nowhere, Given
<1>6. LoopInv'
  <2>1. \A q \in local' : back = "select" => ~ Adding(batch, q)'
    <3> SUFFICES ASSUME NEW q \in local', back = "select" PROVE ~ Adding(batch, q)'
      OBVIOUS
    <3>1. q \in Registered /\ q \in Fds
      BY <1>1 DEF LoopInv, PollTypeOK
    <3>2. ~ Adding(pipe, q)
      BY <3>1 DEF PlaceInv, OnItsWay, InBatch, Watched, Nowhere, Given
    <3> QED
      BY <1>4, <3>1, <3>2
  <2> QED
    BY <1>1, <1>2, <2>1 DEF LoopInv, Reported
<1> QED
  BY <1>3, <1>5, <1>6

(* The task of a descriptor that was in the array is put; what else the    *)
(* step does is to a copy.                                                 *)
LEMMA FiredKeeps ==
  ASSUME PollIInv, NEW k \in DOMAIN arr, array_fd_del(k), put_task(arr[k].fd),
         UNCHANGED <<count, place, pipe>>,
         \A q \in Fds : Adding(batch, q)' <=> Adding(batch, q),
         \A q \in Fds \ {arr[k].fd} : slot'[q] = slot[q]
  PROVE  /\ arr' \in Seq(Entries) /\ put' \in [Fds -> Seq(Nat)] /\ ArrOnce'
         /\ Registered' = Registered \ {arr[k].fd}
         /\ \A l \in DOMAIN arr' : \E j \in DOMAIN arr : arr'[l] = arr[j]
         /\ \A q \in Fds : PlaceInv(q)'
<1> USE DEF PollIInv
<1> DEFINE fd == arr[k].fd
<1>1. fd \in Fds /\ fd \in Registered
  BY EntriesOf DEF PollTypeOK, Registered
<1>2. /\ arr' \in Seq(Entries) /\ ArrOnce' /\ Registered' = Registered \ {fd}
      /\ \A l \in DOMAIN arr' : \E j \in DOMAIN arr : arr'[l] = arr[j]
  BY EntryRemoved
<1> HIDE DEF fd
<1>3. Watched(fd) /\ slot[fd] = count[fd] /\ place[fd] = "reactor"
  BY <1>1 DEF PlaceInv, OnItsWay, InBatch, Watched, Nowhere, Given
<1>4. put' = [put EXCEPT ![fd] = Append(@, slot[fd])]
  BY DEF put_task, fd
<1>5. Append(put[fd], slot[fd]) = <<count[fd]>> /\ count[fd] \in Nat
  BY <1>1, <1>3 DEF Watched, PollTypeOK
<1>6. put' \in [Fds -> Seq(Nat)]
  BY <1>1, <1>4, <1>5 DEF PollTypeOK
<1>7. ASSUME NEW q \in Fds PROVE PlaceInv(q)'
  <2>1. Adding(pipe, q)' <=> Adding(pipe, q)
    BY DEF Adding
  <2>2. CASE q = fd
    <3>1. put'[q] = <<count'[q]>>
      BY <1>1, <1>4, <1>5, <2>2 DEF PollTypeOK
    <3>2. Nowhere(q)'
      BY <1>2, <1>3, <2>1, <2>2 DEF Watched, Nowhere
    <3> QED
      BY <1>3, <2>2, <3>1, <3>2 DEF PlaceInv, Given
  <2>3. CASE q # fd
    <3>1. put'[q] = put[q] /\ slot'[q] = slot[q]
      BY <1>4, <2>3 DEF PollTypeOK, fd
    <3> QED
      BY <1>2, <2>1, <2>3, <3>1, SameKept DEF SameFor
  <2> QED
    BY <2>2, <2>3
<1> QED
  BY <1>2, <1>6, <1>7 DEF fd

(* A message is handled. *)
LEMMA MessageKeeps == ASSUME PollIInv, Message PROVE PollIInv'
<1> USE DEF PollIInv
<1>1. /\ at = "messages" /\ batch # <<>> /\ batch' = Tail(batch)
      /\ UNCHANGED <<back, local, slot, count, place, pipe, ready, at, r>>
  BY DEF Message
<1>2. /\ Head(batch) \in Ops /\ batch' \in Seq(Ops) /\ AddOnce(batch')
      /\ \A q \in Fds : Adding(batch, q) <=> Adding(batch', q) \/ Head(batch) = <<"ADD_FD", q>>
      /\ \A q \in Fds : Head(batch) = <<"ADD_FD", q>> => ~ Adding(batch', q)
  BY <1>1, MessageTaken DEF PollTypeOK
<1>3. PICK fd \in Fds : Head(batch) \in {<<"ADD_FD", fd>>, <<"FIRE_FD", fd>>}
  BY <1>2 DEF Ops
<1>4. \A q \in Fds : (Adding(batch, q)' <=> Adding(batch', q)) /\ (Adding(pipe, q)' <=> Adding(pipe, q))
  BY <1>1 DEF Adding
<1>5. back # "kqueue"
  BY <1>1 DEF LoopInv
<1>6. CASE Head(batch) = <<"ADD_FD", fd>>
  <2>1. arr' = array_fd_add(fd) /\ put' = put
    <3>1. Head(batch)[1] = "ADD_FD" /\ Head(batch)[2] = fd
      BY <1>6
    <3> QED
      BY <3>1 DEF Message
  <2>2. place[fd] = "reactor" /\ slot[fd] = count[fd] /\ InBatch(fd)
    BY <1>2, <1>6 DEF PlaceInv, OnItsWay, InBatch, Watched, Nowhere, Given
  <2>3. /\ arr' \in Seq(Entries) /\ ArrOnce'
        /\ Registered' = Registered \union {fd}
        /\ \A l \in DOMAIN arr' : (l \in DOMAIN arr /\ arr'[l] = arr[l]) \/ arr'[l] = [fd |-> fd, revents |-> FALSE]
    BY <2>1, <2>2, EntryAdded DEF InBatch
  <2>4. PollTypeOK'
    BY <1>1, <1>2, <2>1, <2>3 DEF PollTypeOK
  <2>5. back = "select" => fd \notin local
    BY <1>1, <1>2, <1>6 DEF LoopInv
  <2>6. \A l \in DOMAIN arr' : Reported(l)' => l \in DOMAIN arr /\ arr'[l] = arr[l] /\ Reported(l)
    BY <1>1, <1>5, <2>3, <2>5 DEF Reported, PollTypeOK
  <2>7. LoopInv'
    BY <1>1, <1>2, <1>4, <1>5, <2>6 DEF LoopInv, PollTypeOK
  <2>8. ASSUME NEW q \in Fds PROVE PlaceInv(q)'
    <3>1. CASE q = fd
      BY <1>1, <1>2, <1>4, <1>6, <2>1, <2>2, <2>3, <3>1 DEF PlaceInv, InBatch, Watched
    <3>2. CASE q # fd
      BY <1>1, <1>2, <1>4, <1>6, <2>1, <2>3, <3>2, SameKept DEF SameFor
    <3> QED
      BY <3>1, <3>2
  <2> QED
    BY <1>1, <1>2, <2>3, <2>4, <2>7, <2>8 DEF AddOnce
<1>7. CASE Head(batch) = <<"FIRE_FD", fd>>
  <2>1. Fired(fd)
    <3>1. Head(batch)[1] = "FIRE_FD" /\ Head(batch)[2] = fd
      BY <1>7
    <3> QED
      BY <3>1 DEF Message
  <2>2. \A q \in Fds : Adding(batch, q)' <=> Adding(batch, q)
    BY <1>2, <1>4, <1>7
  <2>3. CASE fd \in Registered
    <3> DEFINE k == Index(fd)
    <3>1. k \in DOMAIN arr /\ arr[k].fd = fd
      BY <2>3, Found
    <3>2. array_fd_del(k) /\ put_task(arr[k].fd)
      BY <2>1, <2>3, <3>1 DEF Fired
    <3> HIDE DEF k
    <3>3. /\ arr' \in Seq(Entries) /\ put' \in [Fds -> Seq(Nat)] /\ ArrOnce'
          /\ Registered' = Registered \ {arr[k].fd}
          /\ \A l \in DOMAIN arr' : \E j \in DOMAIN arr : arr'[l] = arr[j]
          /\ \A q \in Fds : PlaceInv(q)'
      BY <1>1, <2>2, <3>1, <3>2, FiredKeeps
    <3>4. PollTypeOK'
      BY <1>1, <1>2, <3>3 DEF PollTypeOK
    <3>5. LoopInv'
      BY <1>1, <1>5, <2>2, <3>3 DEF LoopInv, Reported, PollTypeOK
    <3> QED
      BY <1>1, <1>2, <3>3, <3>4, <3>5 DEF AddOnce
  <2>4. CASE fd \notin Registered
    <3>1. UNCHANGED <<arr, put>>
      BY <2>1, <2>4 DEF Fired
    <3>2. Registered' = Registered
      BY <3>1 DEF Registered
    <3>3. PollTypeOK' /\ LoopInv' /\ AddOnce(pipe)' /\ AddOnce(batch)' /\ ArrOnce'
      BY <1>1, <1>2, <1>5, <2>2, <3>1 DEF PollTypeOK, LoopInv, Reported, AddOnce, ArrOnce
    <3>4. ASSUME NEW q \in Fds PROVE PlaceInv(q)'
      BY <1>1, <1>4, <2>2, <3>1, <3>2, SameKept DEF SameFor
    <3> QED
      BY <3>3, <3>4
  <2> QED
    BY <2>3, <2>4
<1> QED
  BY <1>3, <1>6, <1>7

(* The second loop. *)
LEMMA ScanKeeps == ASSUME PollIInv, Scan PROVE PollIInv'
<1> USE DEF PollIInv
<1>1. /\ at = "scan" /\ back # "kqueue" /\ r <= Len(arr) /\ r \in DOMAIN arr
      /\ UNCHANGED <<back, local, slot, count, place, pipe, batch, ready, at>>
  BY DEF Scan, PollTypeOK
<1>2. \A q \in Fds : (Adding(batch, q)' <=> Adding(batch, q)) /\ (Adding(pipe, q)' <=> Adding(pipe, q))
  BY <1>1 DEF Adding
<1>3. CASE Reported(r)
  <2>1. array_fd_del(r) /\ put_task(arr[r].fd) /\ r' = r
    BY <1>3 DEF Scan
  <2>2. /\ arr' \in Seq(Entries) /\ put' \in [Fds -> Seq(Nat)] /\ ArrOnce'
        /\ Registered' = Registered \ {arr[r].fd}
        /\ \A l \in DOMAIN arr' : \E j \in DOMAIN arr : arr'[l] = arr[j]
        /\ \A q \in Fds : PlaceInv(q)'
    BY <1>1, <1>2, <2>1, FiredKeeps
  <2>3. PollTypeOK'
    BY <1>1, <2>1, <2>2 DEF PollTypeOK
  <2>4. LoopInv'
    BY <1>1, <2>2 DEF LoopInv, Reported, PollTypeOK
  <2> QED
    BY <1>1, <2>2, <2>3, <2>4 DEF AddOnce
<1>4. CASE ~ Reported(r)
  <2>1. r' = r + 1 /\ UNCHANGED <<arr, put>>
    BY <1>4 DEF Scan
  <2>2. Registered' = Registered
    BY <2>1 DEF Registered
  <2>3. PollTypeOK' /\ LoopInv' /\ AddOnce(pipe)' /\ AddOnce(batch)' /\ ArrOnce'
    BY <1>1, <2>1 DEF PollTypeOK, LoopInv, Reported, AddOnce, ArrOnce
  <2>4. ASSUME NEW q \in Fds PROVE PlaceInv(q)'
    BY <1>1, <1>2, <2>1, <2>2, SameKept DEF SameFor
  <2> QED
    BY <2>3, <2>4
<1> QED
  BY <1>3, <1>4

(* The loop over the events of kevent. *)
LEMMA KqueueKeeps == ASSUME PollIInv, KqueueEvent PROVE PollIInv'
<1> USE DEF PollIInv
<1>1. at = "scan" /\ back = "kqueue" /\ UNCHANGED <<back, count, place, pipe, batch, ready, at, r>>
  BY DEF KqueueEvent
<1>2. PICK fd \in local : /\ local' = local \ {fd} /\ slot' = [slot EXCEPT ![fd] = 0]
                         /\ array_fd_del(Index(fd)) /\ put_task(fd)
  BY DEF KqueueEvent
<1>3. fd \in Registered /\ fd \in Fds
  BY <1>1 DEF LoopInv, PollTypeOK
<1> DEFINE k == Index(fd)
<1>4. k \in DOMAIN arr /\ arr[k].fd = fd
  BY <1>3, Found
<1>5. array_fd_del(k) /\ put_task(arr[k].fd)
  BY <1>2, <1>4
<1> HIDE DEF k
<1>6. \A q \in Fds : Adding(batch, q)' <=> Adding(batch, q)
  BY <1>1 DEF Adding
<1>7. \A q \in Fds \ {arr[k].fd} : slot'[q] = slot[q]
  BY <1>2, <1>4 DEF PollTypeOK
<1>8. /\ arr' \in Seq(Entries) /\ put' \in [Fds -> Seq(Nat)] /\ ArrOnce'
      /\ Registered' = Registered \ {fd}
      /\ \A l \in DOMAIN arr' : \E j \in DOMAIN arr : arr'[l] = arr[j]
      /\ \A q \in Fds : PlaceInv(q)'
  BY <1>1, <1>4, <1>5, <1>6, <1>7, FiredKeeps
<1>9. PollTypeOK'
  BY <1>1, <1>2, <1>8 DEF PollTypeOK
<1>10. LoopInv'
  BY <1>1, <1>2, <1>8 DEF LoopInv, Reported, PollTypeOK
<1> QED
  BY <1>1, <1>8, <1>9, <1>10 DEF AddOnce

(* The ends of the two loops. *)
LEMMA DoneKeeps == ASSUME PollIInv, MessagesDone \/ ScanDone PROVE PollIInv'
<1> USE DEF PollIInv
<1>1. /\ UNCHANGED <<back, arr, local, slot, count, place, pipe, batch, put, ready, r>>
      /\ (at = "messages" /\ at' = "scan" /\ batch = <<>>) \/ (at = "scan" /\ at' = "wait")
  BY DEF MessagesDone, ScanDone
<1>2. Registered' = Registered
  BY <1>1 DEF Registered
<1>3. PollTypeOK' /\ LoopInv' /\ AddOnce(pipe)' /\ AddOnce(batch)' /\ ArrOnce'
  BY <1>1, <1>2 DEF PollTypeOK, LoopInv, Reported, AddOnce, ArrOnce
<1>4. ASSUME NEW q \in Fds PROVE PlaceInv(q)'
  BY <1>1, <1>2, SameKept DEF SameFor, Adding
<1> QED
  BY <1>3, <1>4

-----------------------------------------------------------------------------
(* The back-ends of the reactor: the theorems *)

(* The invariant holds when the reactor is made.  *)
LEMMA PollStarts == PollInit => PollIInv
<1> SUFFICES ASSUME PollInit PROVE PollIInv
  OBVIOUS
<1>1. PollTypeOK
  BY DEF PollInit, PollTypeOK
<1>2. Registered = {} /\ \A fd \in Fds : Nowhere(fd)
  BY NoMessages DEF PollInit, Registered, Nowhere
<1> QED
  BY <1>1, <1>2 DEF PollInit, PollIInv, PlaceInv, LoopInv, AddOnce, ArrOnce

(* And whatever happens then. *)
LEMMA PollKeeps == PollIInv /\ [PollNext]_pollVars => PollIInv'
<1> SUFFICES ASSUME PollIInv, [PollNext]_pollVars PROVE PollIInv'
  OBVIOUS
<1>1. ASSUME Loop PROVE PollIInv'
  BY <1>1, WaitKeeps, ReadPipeKeeps, MessageKeeps, DoneKeeps, ScanKeeps, KqueueKeeps DEF Loop
<1>2. ASSUME Submitters PROVE PollIInv'
  BY <1>2, HashKeeps, AddKeeps, FireKeeps, ArrivalKeeps DEF Submitters
<1>3. ASSUME Runs PROVE PollIInv'
  BY <1>3, RunKeeps DEF Runs
<1>4. ASSUME UNCHANGED pollVars PROVE PollIInv'
  <2>1. UNCHANGED <<back, arr, local, slot, count, place, pipe, batch, put, ready, at, r>>
    BY <1>4 DEF pollVars
  <2>2. Registered' = Registered
    BY <2>1 DEF Registered
  <2>3. \A fd \in Fds : PlaceInv(fd)'
    BY <2>1, <2>2, SameKept DEF SameFor, Adding, PollIInv
  <2> QED
    BY <2>1, <2>2, <2>3 DEF PollIInv, PollTypeOK, LoopInv, Reported, AddOnce, ArrOnce, Adding
<1> QED
  BY <1>1, <1>2, <1>3, <1>4 DEF PollNext

(* Whatever the threads do with it, the reactor keeps to its invariant. *)
THEOREM PollInvariance == PollSpec => []PollIInv
  BY PollStarts, PollKeeps, PTL DEF PollSpec

(* How many ADD_FD there are of a descriptor. *)
LEMMA AddsCounted ==
  ASSUME NEW ops \in Seq(Ops), AddOnce(ops), NEW fd \in Fds
  PROVE  Adds(ops, fd) = IF Adding(ops, fd) THEN 1 ELSE 0
<1> DEFINE I == { k \in DOMAIN ops : ops[k] = <<"ADD_FD", fd>> }
<1>1. CASE Adding(ops, fd)
  <2>1. PICK k \in DOMAIN ops : ops[k] = <<"ADD_FD", fd>>
    BY <1>1 DEF Adding
  <2>2. I = {k}
    BY <2>1 DEF AddOnce
  <2> QED
    BY <1>1, <2>2, FS_Singleton DEF Adds
<1>2. CASE ~ Adding(ops, fd)
  <2>1. I = {}
    BY <1>2 DEF Adding
  <2> QED
    BY <1>2, <2>1, FS_EmptySet DEF Adds
<1> QED
  BY <1>1, <1>2

(* And how many entries. *)
LEMMA EntriesCounted ==
  ASSUME ArrOnce, NEW fd \in Fds
  PROVE  Cardinality({ k \in DOMAIN arr : arr[k].fd = fd }) = IF fd \in Registered THEN 1 ELSE 0
<1> DEFINE I == { k \in DOMAIN arr : arr[k].fd = fd }
<1>1. CASE fd \in Registered
  <2>1. PICK k \in DOMAIN arr : arr[k].fd = fd
    BY <1>1 DEF Registered
  <2>2. I = {k}
    BY <2>1 DEF ArrOnce
  <2> QED
    BY <1>1, <2>2, FS_Singleton
<1>2. CASE fd \notin Registered
  <2>1. I = {}
    BY <1>2 DEF Registered
  <2> QED
    BY <1>2, <2>1, FS_EmptySet
<1> QED
  BY <1>1, <1>2

(* The invariant says where a descriptor is, that its task is that of its   *)
(* last submission, and that no event is made up.                           *)
LEMMA PollRight == PollIInv => InOnePlace /\ Fresh /\ Honest
<1> SUFFICES ASSUME PollIInv PROVE InOnePlace /\ Fresh /\ Honest
  OBVIOUS
<1> USE DEF PollIInv
<1>1. ASSUME NEW fd \in Fds
      PROVE  Adds(pipe, fd) + Adds(batch, fd) + Cardinality({ k \in DOMAIN arr : arr[k].fd = fd }) + Len(put[fd])
               = IF place[fd] = "reactor" THEN 1 ELSE 0
  <2>1. /\ Adds(pipe, fd) = (IF Adding(pipe, fd) THEN 1 ELSE 0)
        /\ Adds(batch, fd) = (IF Adding(batch, fd) THEN 1 ELSE 0)
        /\ Cardinality({ k \in DOMAIN arr : arr[k].fd = fd }) = IF fd \in Registered THEN 1 ELSE 0
    BY AddsCounted, EntriesCounted DEF PollTypeOK
  <2>2. Len(<<>>) = 0 /\ Len(<<count[fd]>>) = 1
    OBVIOUS
  <2>3. CASE place[fd] # "reactor"
    BY <2>1, <2>2, <2>3 DEF PlaceInv, Nowhere
  <2>4. CASE place[fd] = "reactor"
    <3>1. OnItsWay(fd) \/ InBatch(fd) \/ Watched(fd) \/ Given(fd)
      BY <2>4 DEF PlaceInv
    <3>2. CASE OnItsWay(fd)
      BY <2>1, <2>2, <2>4, <3>2 DEF OnItsWay
    <3>3. CASE InBatch(fd)
      BY <2>1, <2>2, <2>4, <3>3 DEF InBatch
    <3>4. CASE Watched(fd)
      BY <2>1, <2>2, <2>4, <3>4 DEF Watched
    <3>5. CASE Given(fd)
      BY <2>1, <2>2, <2>4, <3>5 DEF Given, Nowhere
    <3> QED
      BY <3>1, <3>2, <3>3, <3>4, <3>5
  <2> QED
    BY <2>3, <2>4
<1>2. InOnePlace
  BY <1>1 DEF InOnePlace
<1>3. Fresh
  BY DEF Fresh, PlaceInv, OnItsWay, InBatch, Watched, Nowhere, Given
<1>4. Honest
  BY DEF Honest, LoopInv
<1> QED
  BY <1>2, <1>3, <1>4

(* poll.c, select.c, kqueue.c: for any descriptors, submissions and fires,  *)
(* a descriptor the reactor was given is in one place, on its way in the    *)
(* pipe, in the array or a task.                                            *)
THEOREM InOnePlaceHolds == PollSpec => []InOnePlace
  BY PollInvariance, PollRight, PTL

(* poll.c, select.c, kqueue.c: the task put is that of the last submission. *)
THEOREM FreshHolds == PollSpec => []Fresh
  BY PollInvariance, PollRight, PTL

(* poll.c, select.c, kqueue.c: what is handled as ready is ready, whatever  *)
(* was fired and submitted again since the kernel said so.                  *)
THEOREM HonestHolds == PollSpec => []Honest
  BY PollInvariance, PollRight, PTL

-----------------------------------------------------------------------------
(* mi_stream: the invariant *)

Lines == [part : {"head", "arg", "end"}, id : Nat]

MiTypeOK ==
  /\ armed \in [Wraps -> Nat]
  /\ listener \in [Wraps -> {"idle", "read", "named", "opened"}]
  /\ writer \subseteq Streams /\ freed \subseteq Clients /\ waiting \subseteq Clients
  /\ buffer \in [Streams -> Seq(Lines)] /\ lines \in [Streams -> Seq(Lines)] /\ todo \in [Streams -> Seq(Lines)]
  /\ given \in [Streams -> Seq(Commands)]
  /\ answers \in [Streams -> Seq(Nat \X Nat)]

(* A line comes before another: in an earlier text, or earlier in its text. *)
Rank(x) == CASE x.part = "head" -> 0 [] x.part = "arg" -> 1 [] OTHER -> 2
Before(x, y) == x.id < y.id \/ (x.id = y.id /\ Rank(x) < Rank(y))

Elements(s) == { s[k] : k \in DOMAIN s }
Sorted(s) == \A k, l \in DOMAIN s : k < l => Before(s[k], s[l])
Apart(s, t) == \A x \in Elements(s), y \in Elements(t) : Before(x, y)

(* No head of a text is left in the stream once its command is answered.   *)
Ahead(w, x) == x.part = "head" => \A j \in DOMAIN answers[w] : answers[w][j][1] < x.id
InText(w, x) == x.id \in DOMAIN given[w] /\ Ahead(w, x)

(* The buffer, the pipe and what is yet to be sent are one stream. *)
OrderInv(w) ==
  /\ Sorted(buffer[w]) /\ Sorted(lines[w]) /\ Sorted(todo[w])
  /\ Apart(buffer[w], lines[w]) /\ Apart(buffer[w], todo[w]) /\ Apart(lines[w], todo[w])
  /\ \A x \in Elements(buffer[w]) \union Elements(lines[w]) \union Elements(todo[w]) : InText(w, x)

AnswersInv(w) ==
  /\ \A j \in DOMAIN answers[w] : /\ answers[w][j][1] \in DOMAIN given[w]
                                 /\ answers[w][j][2] = Code(given[w][answers[w][j][1]])
  /\ \A j, k \in DOMAIN answers[w] : j < k => answers[w][j][1] < answers[w][k][1]

(* Who has a command has its first line in the buffer. *)
CommandInv(w) ==
  /\ listener[w] \in {"named", "opened"} \/ w \in writer => buffer[w] # <<>> /\ Head(buffer[w]).part = "head"
  /\ w \in writer => Kind(w) \notin DOMAIN Errors

MiIInv ==
  /\ MiTypeOK /\ waiting \intersect freed = {} /\ OneUser
  /\ \A w \in Streams : OrderInv(w) /\ AnswersInv(w) /\ CommandInv(w)

-----------------------------------------------------------------------------
(* Sequences of lines *)

(* One sequence behind another. *)
LEMMA Concatenated ==
  ASSUME NEW X, NEW s \in Seq(X), NEW t \in Seq(X)
  PROVE  /\ s \o t \in Seq(X) /\ Elements(s \o t) = Elements(s) \union Elements(t)
         /\ Sorted(s) /\ Sorted(t) /\ Apart(s, t) => Sorted(s \o t)
<1> DEFINE u == s \o t
<1>1. /\ u \in Seq(X) /\ Len(u) = Len(s) + Len(t) /\ Len(s) \in Nat /\ Len(t) \in Nat
      /\ DOMAIN u = 1 .. Len(u) /\ DOMAIN s = 1 .. Len(s) /\ DOMAIN t = 1 .. Len(t)
  OBVIOUS
<1>2. /\ \A k \in DOMAIN s : k \in DOMAIN u /\ u[k] = s[k]
      /\ \A k \in DOMAIN t : k + Len(s) \in DOMAIN u /\ u[k + Len(s)] = t[k]
  BY <1>1
<1>3. \A k \in DOMAIN u : k \in DOMAIN s \/ (k > Len(s) /\ k - Len(s) \in DOMAIN t /\ u[k] = t[k - Len(s)])
  BY <1>1
<1> HIDE DEF u
<1>4. Elements(u) = Elements(s) \union Elements(t)
  <2>1. ASSUME NEW x \in Elements(u) PROVE x \in Elements(s) \union Elements(t)
    BY <1>2, <1>3 DEF Elements
  <2>2. ASSUME NEW x \in Elements(s) PROVE x \in Elements(u)
    BY <1>2 DEF Elements
  <2>3. ASSUME NEW x \in Elements(t) PROVE x \in Elements(u)
    BY <1>2 DEF Elements
  <2> QED
    BY <2>1, <2>2, <2>3
<1>5. ASSUME Sorted(s), Sorted(t), Apart(s, t), NEW k \in DOMAIN u, NEW l \in DOMAIN u, k < l
      PROVE  Before(u[k], u[l])
  <2>1. CASE k \in DOMAIN s /\ l \in DOMAIN s
    BY <2>1, <1>2, <1>5 DEF Sorted
  <2>2. CASE k \in DOMAIN s /\ l \notin DOMAIN s
    <3>1. u[k] \in Elements(s) /\ u[l] \in Elements(t)
      BY <2>2, <1>2, <1>3 DEF Elements
    <3> QED
      BY <3>1, <1>5 DEF Apart
  <2>3. CASE k \notin DOMAIN s
    <3>1. l \notin DOMAIN s
      BY <2>3, <1>1, <1>5
    <3>2. k - Len(s) \in DOMAIN t /\ l - Len(s) \in DOMAIN t /\ u[k] = t[k - Len(s)] /\ u[l] = t[l - Len(s)]
      BY <2>3, <3>1, <1>3
    <3>3. k - Len(s) < l - Len(s)
      BY <1>1, <1>5
    <3> QED
      BY <3>2, <3>3, <1>5 DEF Sorted
  <2> QED
    BY <2>1, <2>2, <2>3
<1>6. Sorted(s) /\ Sorted(t) /\ Apart(s, t) => Sorted(u)
  BY <1>5 DEF Sorted
<1> QED
  BY <1>1, <1>4, <1>6 DEF u

(* A sequence cut in two. *)
LEMMA Cut ==
  ASSUME NEW X, NEW s \in Seq(X), NEW k \in 0 .. Len(s)
  PROVE  LET u == SubSeq(s, 1, k)
             v == SubSeq(s, k + 1, Len(s))
         IN /\ u \in Seq(X) /\ v \in Seq(X) /\ Len(u) = k /\ (k > 0 => u # <<>> /\ Head(u) = Head(s))
            /\ Elements(u) \subseteq Elements(s) /\ Elements(v) \subseteq Elements(s)
            /\ Sorted(s) => Sorted(u) /\ Sorted(v) /\ Apart(u, v)
<1> DEFINE u == SubSeq(s, 1, k)
           v == SubSeq(s, k + 1, Len(s))
<1>1. /\ u \in Seq(X) /\ v \in Seq(X) /\ Len(u) = k /\ Len(v) = Len(s) - k /\ Len(s) \in Nat
      /\ DOMAIN s = 1 .. Len(s) /\ DOMAIN u = 1 .. k /\ DOMAIN v = 1 .. Len(s) - k
      /\ \A l \in 1 .. k : u[l] = s[l]
      /\ \A l \in 1 .. Len(s) - k : v[l] = s[l + k]
  OBVIOUS
<1> HIDE DEF u, v
<1>2. k > 0 => u # <<>> /\ Head(u) = Head(s)
  BY <1>1
<1>3. /\ \A l \in DOMAIN u : l \in DOMAIN s /\ l <= k /\ u[l] = s[l]
      /\ \A l \in DOMAIN v : l + k \in DOMAIN s /\ l + k > k /\ v[l] = s[l + k]
  BY <1>1
<1>4. Elements(u) \subseteq Elements(s) /\ Elements(v) \subseteq Elements(s)
  BY <1>3 DEF Elements
<1>5. ASSUME Sorted(s) PROVE Sorted(u)
  <2> SUFFICES ASSUME NEW l \in DOMAIN u, NEW m \in DOMAIN u, l < m PROVE Before(u[l], u[m])
    BY DEF Sorted
  <2> QED
    BY <1>3, <1>5 DEF Sorted
<1>6. ASSUME Sorted(s) PROVE Sorted(v)
  <2> SUFFICES ASSUME NEW l \in DOMAIN v, NEW m \in DOMAIN v, l < m PROVE Before(v[l], v[m])
    BY DEF Sorted
  <2>1. l + k < m + k
    BY <1>1
  <2> QED
    BY <2>1, <1>3, <1>6 DEF Sorted
<1>7. ASSUME Sorted(s) PROVE Apart(u, v)
  <2> SUFFICES ASSUME NEW l \in DOMAIN u, NEW m \in DOMAIN v PROVE Before(u[l], v[m])
    BY DEF Apart, Elements
  <2>1. l < m + k
    BY <1>1
  <2> QED
    BY <2>1, <1>3, <1>7 DEF Sorted
<1> QED
  BY <1>1, <1>2, <1>4, <1>5, <1>6, <1>7 DEF u, v

(* Nothing. *)
LEMMA NoLines == Sorted(<<>>) /\ Elements(<<>>) = {} /\ <<>> \in Seq(Lines)
  BY DEF Sorted, Elements

(* The lines of a text. *)
LEMMA TextSorted ==
  ASSUME NEW k \in Nat, NEW c
  PROVE  Text(k, c) \in Seq(Lines) /\ Sorted(Text(k, c)) /\ \A x \in Elements(Text(k, c)) : x.id = k
<1> DEFINE L(p) == [part |-> p, id |-> k]
<1>1. \A p \in {"head", "arg", "end"} : L(p) \in Lines /\ L(p).id = k /\ L(p).part = p
  BY DEF Lines
<1>2. Before(L("head"), L("arg")) /\ Before(L("arg"), L("end")) /\ Before(L("head"), L("end"))
  BY <1>1 DEF Before, Rank
<1>3. Text(k, c) = <<L("head")>> \o (IF c \in {"input", "badarg"} THEN <<L("arg")>> ELSE <<>>) \o <<L("end")>>
  BY DEF Text
<1> HIDE DEF L
<1> DEFINE One(x) == <<x>>
<1>4. ASSUME NEW x \in Lines PROVE One(x) \in Seq(Lines) /\ Elements(One(x)) = {x} /\ Sorted(One(x))
  BY DEF Elements, Sorted
<1>5. One(L("head")) \o <<>> = One(L("head"))
  BY <1>1, <1>4
<1>6. Text(k, c) = One(L("head")) \o (IF c \in {"input", "badarg"} THEN One(L("arg")) ELSE <<>>) \o One(L("end"))
  BY <1>3
<1> HIDE DEF One
<1>7. PICK t \in Seq(Lines) : /\ t = One(L("head")) \o (IF c \in {"input", "badarg"} THEN One(L("arg")) ELSE <<>>)
                            /\ Sorted(t) /\ Elements(t) \subseteq {L("head"), L("arg")}
  <2>1. CASE c \in {"input", "badarg"}
    <3>1. Apart(One(L("head")), One(L("arg")))
      BY <1>1, <1>2, <1>4 DEF Apart
    <3>2. /\ One(L("head")) \o One(L("arg")) \in Seq(Lines) /\ Sorted(One(L("head")) \o One(L("arg")))
          /\ Elements(One(L("head")) \o One(L("arg"))) = {L("head")} \union {L("arg")}
      BY <1>1, <1>4, <3>1, Concatenated
    <3> QED
      BY <2>1, <3>2
  <2>2. CASE c \notin {"input", "badarg"}
    BY <1>1, <1>4, <1>5, <2>2
  <2> QED
    BY <2>1, <2>2
<1>8. Apart(t, One(L("end")))
  BY <1>1, <1>2, <1>4, <1>7 DEF Apart
<1>9. /\ t \o One(L("end")) \in Seq(Lines) /\ Sorted(t \o One(L("end")))
      /\ Elements(t \o One(L("end"))) = Elements(t) \union {L("end")}
  <2> DEFINE e == One(L("end"))
  <2>1. e \in Seq(Lines) /\ Sorted(e) /\ Elements(e) = {L("end")} /\ Apart(t, e)
    BY <1>1, <1>4, <1>8
  <2> HIDE DEF e
  <2>2. /\ t \o e \in Seq(Lines) /\ Elements(t \o e) = Elements(t) \union Elements(e)
        /\ Sorted(t) /\ Sorted(e) /\ Apart(t, e) => Sorted(t \o e)
    BY <2>1, Concatenated
  <2> QED
    BY <1>7, <2>1, <2>2 DEF e
<1>10. Text(k, c) = t \o One(L("end"))
  BY <1>6, <1>7
<1> QED
  BY <1>1, <1>7, <1>9, <1>10

-----------------------------------------------------------------------------
(* The steps of mi_stream *)

(* The wrappers are different. *)
LEMMA WrapNames == /\ "server" \notin Streams /\ "fifo" \notin Clients /\ "server" \notin Clients
                   /\ Streams \subseteq Wraps /\ Clients \subseteq Streams
  BY MiAssumption DEF Streams, Wraps

(* Who is with a worker is with nobody else. *)
LEMMA WithWorker ==
  ASSUME MiTypeOK, OneUser, NEW w \in Wraps, listener[w] # "idle"
  PROVE  armed[w] = 0 /\ w \notin writer /\ w \notin freed /\ w \notin waiting
<1>1. armed[w] \in Nat
  BY DEF MiTypeOK
<1>2. armed[w] + 1 + (IF w \in writer THEN 1 ELSE 0) = IF w \in freed \union waiting THEN 0 ELSE 1
  BY DEF OneUser
<1> QED
  BY <1>1, <1>2

(* Nor is who waits with an answer. *)
LEMMA WithWriter ==
  ASSUME MiTypeOK, OneUser, NEW w \in Wraps, w \in writer
  PROVE  armed[w] = 0 /\ listener[w] = "idle" /\ w \notin freed /\ w \notin waiting
<1>1. armed[w] \in Nat
  BY DEF MiTypeOK
<1>2. armed[w] + (IF listener[w] = "idle" THEN 0 ELSE 1) + 1 = IF w \in freed \union waiting THEN 0 ELSE 1
  BY DEF OneUser
<1> QED
  BY <1>1, <1>2

(* Nothing happens to the stream of q. *)
StreamSame(q) == /\ buffer'[q] = buffer[q] /\ lines'[q] = lines[q] /\ todo'[q] = todo[q]
                 /\ given'[q] = given[q] /\ answers'[q] = answers[q]

(* Its order and its answers are kept. *)
LEMMA StreamKept ==
  ASSUME NEW q \in Streams, OrderInv(q), AnswersInv(q), StreamSame(q)
  PROVE  OrderInv(q)' /\ AnswersInv(q)'
<1>1. ASSUME NEW x \in Elements(buffer[q]) \union Elements(lines[q]) \union Elements(todo[q])
      PROVE  InText(q, x)'
  BY <1>1 DEF OrderInv, InText, Ahead, StreamSame
<1> QED
  BY <1>1 DEF StreamSame, OrderInv, AnswersInv

(* A stream of which something was dropped. *)
LEMMA StreamShrinks ==
  ASSUME NEW q \in Streams, OrderInv(q), AnswersInv(q), given'[q] = given[q], answers'[q] = answers[q],
         Sorted(buffer'[q]), Sorted(lines'[q]), Sorted(todo'[q]), Apart(buffer'[q], lines'[q]),
         Apart(buffer'[q], todo'[q]), Apart(lines'[q], todo'[q]),
         Elements(buffer'[q]) \union Elements(lines'[q]) \union Elements(todo'[q])
           \subseteq Elements(buffer[q]) \union Elements(lines[q]) \union Elements(todo[q])
  PROVE  OrderInv(q)' /\ AnswersInv(q)'
<1>1. ASSUME NEW x \in Elements(buffer'[q]) \union Elements(lines'[q]) \union Elements(todo'[q])
      PROVE  InText(q, x)'
  BY <1>1 DEF OrderInv, InText, Ahead
<1> QED
  BY <1>1 DEF OrderInv, AnswersInv

(* The command keeps its worker. *)
LEMMA CommandKept ==
  ASSUME MiTypeOK, NEW q \in Streams, CommandInv(q), buffer'[q] = buffer[q], given'[q] = given[q],
         listener'[q] \in {listener[q], "idle", "read"}, q \in writer' => q \in writer
  PROVE  CommandInv(q)'
  BY DEF CommandInv, Kind

(* A client gives a command. *)
LEMMA BeginKeeps == ASSUME MiIInv, NEW w \in Streams, Begin(w) PROVE MiIInv'
<1> USE DEF MiIInv
<1>1. PICK c \in Commands : /\ todo[w] = <<>> /\ given' = [given EXCEPT ![w] = Append(@, c)]
                           /\ todo' = [todo EXCEPT ![w] = Text(Len(given[w]) + 1, c)]
                           /\ UNCHANGED <<armed, listener, writer, freed, waiting, lines, buffer, answers>>
  BY DEF Begin, Allowed
<1> DEFINE k == Len(given[w]) + 1
           t == Text(k, c)
<1>2. given[w] \in Seq(Commands) /\ k \in Nat \ {0} /\ k \notin DOMAIN given[w] /\ DOMAIN given[w] = 1 .. k - 1
  BY DEF MiTypeOK
<1>3. t \in Seq(Lines) /\ Sorted(t) /\ \A x \in Elements(t) : x.id = k
  BY <1>2, TextSorted
<1>4. /\ given'[w] \in Seq(Commands) /\ DOMAIN given'[w] = 1 .. k
      /\ \A l \in DOMAIN given[w] : given'[w][l] = given[w][l]
  BY <1>1, <1>2 DEF MiTypeOK
<1>5. todo'[w] = t /\ \A q \in Streams \ {w} : given'[q] = given[q] /\ todo'[q] = todo[q]
  BY <1>1 DEF MiTypeOK
<1> HIDE DEF k, t
<1>6. MiTypeOK'
  BY <1>1, <1>3, <1>4, <1>5 DEF MiTypeOK, t, k
<1>7. OneUser' /\ waiting' \intersect freed' = {}
  BY <1>1 DEF OneUser
<1>8. ASSUME NEW q \in Streams PROVE OrderInv(q)' /\ AnswersInv(q)' /\ CommandInv(q)'
  <2>1. CASE q # w
    <3>1. StreamSame(q)
      BY <1>1, <1>5, <2>1 DEF StreamSame
    <3> QED
      BY <1>1, <1>5, <2>1, <3>1, StreamKept, CommandKept
  <2>2. CASE q = w
    <3>1. \A x \in Elements(buffer[w]) \union Elements(lines[w]) : x.id \in DOMAIN given[w] /\ Ahead(w, x)
      BY DEF OrderInv, InText
    <3>2. AnswersInv(w)'
      BY <1>1, <1>2, <1>4 DEF AnswersInv
    <3>3. ASSUME NEW x \in Elements(t) PROVE InText(w, x)'
      <4>1. x.id = k /\ k \in DOMAIN given'[w]
        BY <1>2, <1>3, <1>4
      <4>2. \A j \in DOMAIN answers[w] : answers[w][j][1] \in 1 .. k - 1
        BY <1>2 DEF AnswersInv
      <4> QED
        BY <1>1, <1>2, <4>1, <4>2 DEF InText, Ahead
    <3>4. \A x \in Elements(buffer[w]) \union Elements(lines[w]) : InText(w, x)'
      BY <1>1, <1>2, <1>4, <3>1 DEF InText, Ahead
    <3>5. Apart(buffer[w], t) /\ Apart(lines[w], t)
      BY <1>2, <1>3, <3>1 DEF Apart, Before
    <3>6. OrderInv(w)'
      BY <1>1, <1>3, <1>5, <3>3, <3>4, <3>5 DEF OrderInv
    <3>7. ASSUME w \in writer PROVE Kind(w)' = Kind(w)
      <4>1. buffer[w] # <<>> /\ buffer[w] \in Seq(Lines)
        BY <3>7 DEF CommandInv, MiTypeOK
      <4>2. Head(buffer[w]) \in Elements(buffer[w])
        BY <4>1 DEF Elements
      <4> QED
        BY <1>1, <1>4, <3>1, <4>2 DEF Kind
    <3>8. CommandInv(w)'
      BY <1>1, <3>7 DEF CommandInv
    <3> QED
      BY <2>2, <3>2, <3>6, <3>8
  <2> QED
    BY <2>1, <2>2
<1> QED
  BY <1>6, <1>7, <1>8

(* It sends a part of it. *)
LEMMA SendKeeps == ASSUME MiIInv, NEW w \in Streams, SendText(w) PROVE MiIInv'
<1> USE DEF MiIInv
<1>1. PICK k \in {1, Len(todo[w])} :
        /\ todo[w] # <<>>
        /\ lines' = [lines EXCEPT ![w] = @ \o SubSeq(todo[w], 1, k)]
        /\ todo' = [todo EXCEPT ![w] = SubSeq(@, k + 1, Len(@))]
        /\ UNCHANGED <<armed, listener, writer, freed, waiting, buffer, given, answers>>
  BY DEF SendText
<1> DEFINE old == todo[w]
           u == SubSeq(old, 1, k)
           v == SubSeq(old, k + 1, Len(old))
<1>2. old \in Seq(Lines) /\ k \in 0 .. Len(old) /\ lines[w] \in Seq(Lines)
  BY <1>1 DEF MiTypeOK
<1>3. /\ u \in Seq(Lines) /\ v \in Seq(Lines) /\ Elements(u) \subseteq Elements(old) /\ Elements(v) \subseteq Elements(old)
      /\ Sorted(old) => Sorted(u) /\ Sorted(v) /\ Apart(u, v)
  BY <1>2, Cut
<1>4. /\ lines'[w] = lines[w] \o u /\ todo'[w] = v
      /\ \A q \in Streams \ {w} : lines'[q] = lines[q] /\ todo'[q] = todo[q]
  BY <1>1 DEF MiTypeOK
<1> HIDE DEF u, v
<1>5. /\ lines[w] \o u \in Seq(Lines) /\ Elements(lines[w] \o u) = Elements(lines[w]) \union Elements(u)
      /\ Sorted(lines[w]) /\ Sorted(u) /\ Apart(lines[w], u) => Sorted(lines[w] \o u)
  BY <1>2, <1>3, Concatenated
<1>6. MiTypeOK'
  BY <1>1, <1>3, <1>4, <1>5 DEF MiTypeOK, u, v
<1>7. OneUser' /\ waiting' \intersect freed' = {}
  BY <1>1 DEF OneUser
<1>8. ASSUME NEW q \in Streams PROVE OrderInv(q)' /\ AnswersInv(q)' /\ CommandInv(q)'
  <2>1. CommandInv(q)'
    BY <1>1, CommandKept
  <2>2. CASE q # w
    <3>1. StreamSame(q)
      BY <1>1, <1>4, <2>2 DEF StreamSame
    <3> QED
      BY <2>1, <3>1, StreamKept
  <2>3. CASE q = w
    <3>1. /\ Sorted(old) /\ Sorted(lines[w]) /\ Sorted(buffer[w]) /\ Apart(buffer[w], lines[w])
          /\ Apart(buffer[w], old) /\ Apart(lines[w], old)
      BY DEF OrderInv
    <3>2. Sorted(v) /\ Sorted(lines[w] \o u)
      BY <1>3, <1>5, <3>1 DEF Apart
    <3>3. Apart(buffer[w], lines[w] \o u) /\ Apart(buffer[w], v) /\ Apart(lines[w] \o u, v)
      BY <1>3, <1>5, <3>1 DEF Apart
    <3>4. Elements(buffer[w]) \union Elements(lines[w] \o u) \union Elements(v)
            \subseteq Elements(buffer[w]) \union Elements(lines[w]) \union Elements(old)
      BY <1>3, <1>5
    <3>5. OrderInv(w)' /\ AnswersInv(w)'
      <4>1. buffer'[w] = buffer[w] /\ given'[w] = given[w] /\ answers'[w] = answers[w]
        BY <1>1
      <4> QED
        BY <1>4, <3>1, <3>2, <3>3, <3>4, <4>1, StreamShrinks
    <3> QED
      BY <2>1, <2>3, <3>5
  <2> QED
    BY <2>2, <2>3
<1> QED
  BY <1>6, <1>7, <1>8

(* It leaves. *)
LEMMA CloseKeeps == ASSUME MiIInv, NEW w \in Streams, Close(w) PROVE MiIInv'
<1> USE DEF MiIInv
<1>1. UNCHANGED <<armed, listener, writer, freed, waiting, lines, buffer, todo, given, answers>>
  BY DEF Close
<1>2. MiTypeOK' /\ OneUser' /\ waiting' \intersect freed' = {}
  BY <1>1 DEF MiTypeOK, OneUser
<1>3. ASSUME NEW q \in Streams PROVE OrderInv(q)' /\ AnswersInv(q)' /\ CommandInv(q)'
  <2>1. StreamSame(q)
    BY <1>1 DEF StreamSame
  <2> QED
    BY <1>1, <2>1, StreamKept, CommandKept
<1> QED
  BY <1>2, <1>3

(* A worker gets the task of a wrapper. *)
LEMMA EventKeeps == ASSUME MiIInv, NEW w \in Wraps, MiEvent(w) PROVE MiIInv'
<1> USE DEF MiIInv
<1>1. /\ armed[w] > 0 /\ listener[w] = "idle"
      /\ armed' = [armed EXCEPT ![w] = @ - 1] /\ listener' = [listener EXCEPT ![w] = "read"]
      /\ UNCHANGED <<writer, freed, waiting, lines, buffer, todo, given, answers>>
  BY DEF MiEvent
<1>2. MiTypeOK'
  BY <1>1 DEF MiTypeOK
<1>3. waiting' \intersect freed' = {}
  BY <1>1
<1>4. OneUser'
  <2> SUFFICES ASSUME NEW q \in Wraps
               PROVE  armed'[q] + (IF listener'[q] = "idle" THEN 0 ELSE 1) + (IF q \in writer THEN 1 ELSE 0)
                        = IF q \in freed \union waiting THEN 0 ELSE 1
    BY <1>1 DEF OneUser
  <2>1. /\ armed[q] + (IF listener[q] = "idle" THEN 0 ELSE 1) + (IF q \in writer THEN 1 ELSE 0)
             = IF q \in freed \union waiting THEN 0 ELSE 1
        /\ armed[q] \in Nat
    BY DEF OneUser, MiTypeOK
  <2>2. CASE q = w
    BY <1>1, <2>1, <2>2 DEF MiTypeOK
  <2>3. CASE q # w
    BY <1>1, <2>1, <2>3 DEF MiTypeOK
  <2> QED
    BY <2>2, <2>3
<1>5. ASSUME NEW q \in Streams PROVE OrderInv(q)' /\ AnswersInv(q)' /\ CommandInv(q)'
  <2>1. StreamSame(q)
    BY <1>1 DEF StreamSame
  <2>2. q \in Wraps /\ listener'[q] \in {listener[q], "read"}
    BY <1>1, WrapNames DEF MiTypeOK
  <2> QED
    BY <1>1, <2>1, <2>2, StreamKept, CommandKept
<1> QED
  BY <1>2, <1>3, <1>4, <1>5

(* A client is accepted, or there is no memory for it. *)
LEMMA AcceptKeeps == ASSUME MiIInv, Accept PROVE MiIInv'
<1> USE DEF MiIInv
<1>1. PICK c \in waiting :
        /\ listener["server"] = "read" /\ waiting' = waiting \ {c}
        /\ listener' = [listener EXCEPT !["server"] = "idle"]
        /\ \/ armed' = [armed EXCEPT ![c] = @ + 1, !["server"] = @ + 1] /\ freed' = freed
           \/ armed' = [armed EXCEPT !["server"] = @ + 1] /\ freed' = freed \union {c}
        /\ UNCHANGED <<writer, lines, buffer, todo, given, answers>>
  BY DEF Accept
<1>2. c \in Clients /\ c \in Streams /\ c \in Wraps /\ "server" \in Wraps /\ c # "server" /\ c \notin freed
  BY WrapNames DEF MiTypeOK, Wraps
<1>3. armed["server"] = 0 /\ "server" \notin writer /\ "server" \notin freed \union waiting
  BY <1>1, <1>2, WithWorker, WrapNames DEF MiTypeOK
<1>4. armed[c] = 0 /\ listener[c] = "idle" /\ c \notin writer
  <2>1. /\ armed[c] + (IF listener[c] = "idle" THEN 0 ELSE 1) + (IF c \in writer THEN 1 ELSE 0) = 0
        /\ armed[c] \in Nat
    BY <1>1, <1>2 DEF OneUser, MiTypeOK
  <2> QED
    BY <2>1
<1>5. MiTypeOK'
  <2>1. armed' \in [Wraps -> Nat]
    <3>1. CASE armed' = [armed EXCEPT ![c] = @ + 1, !["server"] = @ + 1]
      <4> DEFINE f == [armed EXCEPT ![c] = armed[c] + 1]
      <4>1. f \in [Wraps -> Nat] /\ f["server"] = armed["server"]
        BY <1>2 DEF MiTypeOK
      <4>2. armed' = [f EXCEPT !["server"] = f["server"] + 1]
        BY <3>1, <1>2 DEF MiTypeOK
      <4> HIDE DEF f
      <4> QED
        BY <4>1, <4>2, <1>2
    <3>2. CASE armed' = [armed EXCEPT !["server"] = @ + 1]
      BY <3>2, <1>2 DEF MiTypeOK
    <3> QED
      BY <1>1, <3>1, <3>2
  <2>2. freed' \subseteq Clients /\ waiting' \subseteq Clients
    BY <1>1, <1>2 DEF MiTypeOK
  <2>3. listener' \in [Wraps -> {"idle", "read", "named", "opened"}]
    BY <1>1, <1>2 DEF MiTypeOK
  <2> QED
    BY <1>1, <2>1, <2>2, <2>3 DEF MiTypeOK
<1>6. waiting' \intersect freed' = {}
  BY <1>1
<1>7. OneUser'
  <2> SUFFICES ASSUME NEW q \in Wraps
               PROVE  armed'[q] + (IF listener'[q] = "idle" THEN 0 ELSE 1) + (IF q \in writer THEN 1 ELSE 0)
                        = IF q \in freed' \union waiting' THEN 0 ELSE 1
    BY <1>1 DEF OneUser
  <2>1. /\ armed[q] + (IF listener[q] = "idle" THEN 0 ELSE 1) + (IF q \in writer THEN 1 ELSE 0)
             = IF q \in freed \union waiting THEN 0 ELSE 1
        /\ armed[q] \in Nat
    BY DEF OneUser, MiTypeOK
  <2>2. CASE q = "server"
    BY <1>1, <1>2, <1>3, <2>2 DEF MiTypeOK
  <2>3. CASE q = c
    BY <1>1, <1>2, <1>4, <2>3 DEF MiTypeOK
  <2>4. CASE q # c /\ q # "server"
    BY <1>1, <2>1, <2>4 DEF MiTypeOK
  <2> QED
    BY <2>2, <2>3, <2>4
<1>8. ASSUME NEW q \in Streams PROVE OrderInv(q)' /\ AnswersInv(q)' /\ CommandInv(q)'
  <2>1. StreamSame(q)
    BY <1>1 DEF StreamSame
  <2>2. listener'[q] = listener[q]
    BY <1>1, WrapNames DEF MiTypeOK
  <2> QED
    BY <1>1, <2>1, <2>2, StreamKept, CommandKept
<1> QED
  BY <1>5, <1>6, <1>7, <1>8

-----------------------------------------------------------------------------
(* The steps that change what w has and nothing else *)

UserInv(w) ==
  armed[w] + (IF listener[w] = "idle" THEN 0 ELSE 1) + (IF w \in writer THEN 1 ELSE 0)
    = IF w \in freed \union waiting THEN 0 ELSE 1

OnlyOf(w) ==
  /\ \A q \in Wraps \ {w} : /\ armed'[q] = armed[q] /\ listener'[q] = listener[q]
                            /\ (q \in writer' <=> q \in writer) /\ (q \in freed' <=> q \in freed)
  /\ \A q \in Streams \ {w} : StreamSame(q)
  /\ waiting' = waiting

(* The invariant follows from what becomes of w. *)
LEMMA StepOf ==
  ASSUME MiIInv, NEW w \in Streams, OnlyOf(w), MiTypeOK', UserInv(w)', w \notin waiting,
         OrderInv(w)', AnswersInv(w)', CommandInv(w)'
  PROVE  MiIInv'
<1> USE DEF MiIInv
<1>1. \A q \in Wraps : UserInv(q)
  BY DEF OneUser, UserInv
<1>2. ASSUME NEW q \in Wraps PROVE UserInv(q)'
  BY <1>1 DEF OnlyOf, UserInv
<1>3. OneUser'
  BY <1>2 DEF OneUser, UserInv
<1>4. waiting' \intersect freed' = {}
  <2> SUFFICES ASSUME NEW q \in waiting, q \in freed' PROVE FALSE
    BY DEF OnlyOf
  <2>1. q \in Wraps \ {w}
    BY DEF MiTypeOK, Wraps, Streams
  <2> QED
    BY <2>1 DEF OnlyOf
<1>5. ASSUME NEW q \in Streams \ {w} PROVE OrderInv(q)' /\ AnswersInv(q)' /\ CommandInv(q)'
  <2>1. StreamSame(q) /\ q \in Wraps \ {w}
    BY WrapNames DEF OnlyOf
  <2>2. /\ buffer'[q] = buffer[q] /\ given'[q] = given[q] /\ listener'[q] = listener[q]
        /\ q \in writer' => q \in writer
    BY <2>1 DEF OnlyOf, StreamSame
  <2> QED
    BY <2>1, <2>2, StreamKept, CommandKept
<1> QED
  BY <1>3, <1>4, <1>5

(* What a worker that reads leaves of the stream. *)
LEMMA ReadStream ==
  ASSUME MiIInv, NEW w \in Streams, NEW u, NEW v, Sorted(u), Sorted(v), Apart(u, v),
         Elements(u) \union Elements(v) \subseteq Elements(buffer[w]) \union Elements(lines[w]),
         buffer'[w] = u, lines'[w] = v, UNCHANGED <<todo, given, answers>>
  PROVE  OrderInv(w)' /\ AnswersInv(w)'
<1>1. Sorted(todo[w]) /\ Apart(buffer[w], todo[w]) /\ Apart(lines[w], todo[w]) /\ OrderInv(w) /\ AnswersInv(w)
  BY DEF MiIInv, OrderInv
<1>2. Apart(u, todo[w]) /\ Apart(v, todo[w])
  BY <1>1 DEF Apart
<1> QED
  BY <1>1, <1>2, StreamShrinks

(* What becomes of a command when its first line is read. *)
LEMMA LineRead ==
  ASSUME NEW w \in Streams, NEW b \in Seq(Lines), mi_is_valid(b), FirstLine(w, b)
  PROVE  \/ Resubmit(w) /\ buffer' = [buffer EXCEPT ![w] = <<>>]
         \/ /\ listener' = [listener EXCEPT ![w] = "named"] /\ armed' = armed
            /\ buffer' = [buffer EXCEPT ![w] = b] /\ b # <<>> /\ Head(b).part = "head"
<1>1. b # <<>>
  BY DEF mi_is_valid
<1> QED
  BY <1>1 DEF FirstLine, force_exit

(* What a worker reads is of the stream, and in order. *)
LEMMA GotLines ==
  ASSUME MiIInv, NEW w \in Streams
  PROVE  LET got == buffer[w] \o lines[w]
         IN /\ got \in Seq(Lines) /\ Sorted(got)
            /\ Elements(got) = Elements(buffer[w]) \union Elements(lines[w])
<1>1. /\ buffer[w] \in Seq(Lines) /\ lines[w] \in Seq(Lines)
      /\ Sorted(buffer[w]) /\ Sorted(lines[w]) /\ Apart(buffer[w], lines[w])
  BY DEF MiIInv, MiTypeOK, OrderInv
<1> QED
  BY <1>1, Concatenated

(* A part of the stream goes on, or is dropped, or the first command is    *)
(* taken out.                                                              *)
Taken(w, u, v) ==
  /\ buffer' = [buffer EXCEPT ![w] = u] /\ lines' = [lines EXCEPT ![w] = v]
  /\ \/ Resubmit(w) /\ freed' = freed
     \/ /\ listener' = [listener EXCEPT ![w] = "named"] /\ armed' = armed /\ freed' = freed
        /\ u # <<>> /\ Head(u).part = "head"
     \/ listener' = listener /\ armed' = armed /\ freed' = freed /\ u = <<>>
     \/ /\ listener' = [listener EXCEPT ![w] = "idle"] /\ armed' = armed
        /\ freed' = freed \union {w} /\ w \in Clients

(* Every outcome of the reading is one of those. *)
LEMMA ReadTakes ==
  ASSUME MiIInv, NEW w \in Streams, ReadLines(w)
  PROVE  \E u, v \in Seq(Lines) :
           /\ Taken(w, u, v) /\ Sorted(u) /\ Sorted(v) /\ Apart(u, v)
           /\ Elements(u) \union Elements(v) \subseteq Elements(buffer[w]) \union Elements(lines[w])
<1> DEFINE got == buffer[w] \o lines[w]
           full == SubSeq(got, 1, MaxBuffer)
           rest == SubSeq(got, MaxBuffer + 1, Len(got))
           none == <<>>
           Fits(u, v) == /\ u \in Seq(Lines) /\ v \in Seq(Lines) /\ Sorted(u) /\ Sorted(v) /\ Apart(u, v)
                         /\ Elements(u) \union Elements(v) \subseteq Elements(buffer[w]) \union Elements(lines[w])
<1>1. got \in Seq(Lines) /\ Sorted(got) /\ Elements(got) = Elements(buffer[w]) \union Elements(lines[w])
  BY GotLines
<1>2. none \in Seq(Lines) /\ Sorted(none) /\ Elements(none) = {}
  BY NoLines
<1>3. \/ /\ Len(got) >= MaxBuffer /\ lines' = [lines EXCEPT ![w] = rest] /\ freed' = freed
         /\ IF mi_is_valid(full) THEN FirstLine(w, full)
            ELSE buffer' = [buffer EXCEPT ![w] = none] /\ armed' = armed /\ listener' = listener
      \/ /\ w \in gone \ {"fifo"} /\ freed' = freed \union {w} /\ listener' = [listener EXCEPT ![w] = "idle"]
         /\ lines' = [lines EXCEPT ![w] = none] /\ armed' = armed /\ buffer' = buffer
      \/ /\ lines' = [lines EXCEPT ![w] = none] /\ freed' = freed
         /\ IF mi_is_valid(got) THEN FirstLine(w, got)
            ELSE Resubmit(w) /\ buffer' = [buffer EXCEPT ![w] = got]
  BY DEF ReadLines
<1>4. buffer[w] \in Seq(Lines) /\ Sorted(buffer[w]) /\ buffer = [buffer EXCEPT ![w] = buffer[w]]
  BY DEF MiIInv, MiTypeOK, OrderInv
<1> HIDE DEF got, none
<1>5. CASE Len(got) >= MaxBuffer /\ lines' = [lines EXCEPT ![w] = rest] /\ freed' = freed
           /\ IF mi_is_valid(full) THEN FirstLine(w, full)
              ELSE buffer' = [buffer EXCEPT ![w] = none] /\ armed' = armed /\ listener' = listener
  <2>1. MaxBuffer \in 0 .. Len(got)
    BY <1>1, <1>5, MiAssumption
  <2>2. /\ full \in Seq(Lines) /\ rest \in Seq(Lines) /\ Sorted(full) /\ Sorted(rest) /\ Apart(full, rest)
        /\ Elements(full) \subseteq Elements(got) /\ Elements(rest) \subseteq Elements(got)
    BY <1>1, <2>1, Cut
  <2> HIDE DEF full, rest
  <2>3. Fits(full, rest) /\ Fits(none, rest)
    BY <1>1, <1>2, <2>2 DEF Apart
  <2>4. Taken(w, full, rest) \/ Taken(w, none, rest)
    <3>1. CASE mi_is_valid(full)
      BY <1>5, <2>2, <3>1, LineRead DEF Taken, none
    <3>2. CASE ~ mi_is_valid(full)
      BY <1>5, <3>2 DEF Taken, none
    <3> QED
      BY <3>1, <3>2
  <2> QED
    BY <2>3, <2>4
<1>6. CASE w \in gone \ {"fifo"} /\ freed' = freed \union {w} /\ listener' = [listener EXCEPT ![w] = "idle"]
           /\ lines' = [lines EXCEPT ![w] = none] /\ armed' = armed /\ buffer' = buffer
  <2>1. Fits(buffer[w], none)
    BY <1>2, <1>4 DEF Apart
  <2>2. Taken(w, buffer[w], none)
    BY <1>4, <1>6 DEF Taken, Streams
  <2> QED
    BY <2>1, <2>2
<1>7. CASE lines' = [lines EXCEPT ![w] = none] /\ freed' = freed
           /\ IF mi_is_valid(got) THEN FirstLine(w, got)
              ELSE Resubmit(w) /\ buffer' = [buffer EXCEPT ![w] = got]
  <2>1. Fits(got, none) /\ Fits(none, none)
    BY <1>1, <1>2 DEF Apart
  <2>2. Taken(w, got, none) \/ Taken(w, none, none)
    <3>1. CASE mi_is_valid(got)
      BY <1>1, <1>7, <3>1, LineRead DEF Taken, none
    <3>2. CASE ~ mi_is_valid(got)
      BY <1>7, <3>2 DEF Taken
    <3> QED
      BY <3>1, <3>2
  <2> QED
    BY <2>1, <2>2
<1> QED
  BY <1>3, <1>5, <1>6, <1>7

(* A worker reads. *)
LEMMA ReadLinesKeeps == ASSUME MiIInv, NEW w \in Streams, ReadLines(w) PROVE MiIInv'
<1>1. PICK u, v \in Seq(Lines) :
        /\ Taken(w, u, v) /\ Sorted(u) /\ Sorted(v) /\ Apart(u, v)
        /\ Elements(u) \union Elements(v) \subseteq Elements(buffer[w]) \union Elements(lines[w])
  BY ReadTakes
<1> USE DEF MiIInv
<1>2. listener[w] = "read" /\ UNCHANGED <<writer, waiting, todo, given, answers>>
  BY DEF ReadLines
<1>3. w \in Wraps /\ armed[w] = 0 /\ w \notin writer /\ w \notin freed /\ w \notin waiting
  BY <1>2, WithWorker, WrapNames
<1>4. MiTypeOK'
  <2>1. buffer' \in [Streams -> Seq(Lines)] /\ lines' \in [Streams -> Seq(Lines)]
    BY <1>1 DEF MiTypeOK, Taken
  <2>2. armed' \in [Wraps -> Nat]
    <3>1. armed' = armed \/ armed' = [armed EXCEPT ![w] = @ + 1]
      BY <1>1 DEF Taken, Resubmit
    <3>2. armed \in [Wraps -> Nat] /\ w \in Wraps
      BY <1>3 DEF MiTypeOK
    <3> QED
      BY <3>1, <3>2
  <2>4. freed' \subseteq Clients
    BY <1>1 DEF MiTypeOK, Taken
  <2>3. listener' \in [Wraps -> {"idle", "read", "named", "opened"}]
    BY <1>1, <1>3 DEF MiTypeOK, Taken, Resubmit
  <2> QED
    BY <1>2, <2>1, <2>2, <2>3, <2>4 DEF MiTypeOK
<1>5. OnlyOf(w)
  <2>1. ASSUME NEW q \in Wraps \ {w} PROVE armed'[q] = armed[q] /\ listener'[q] = listener[q] /\ (q \in freed' <=> q \in freed)
    BY <1>1, <1>3 DEF MiTypeOK, Taken, Resubmit
  <2>2. ASSUME NEW q \in Streams \ {w} PROVE StreamSame(q)
    BY <1>1, <1>2 DEF MiTypeOK, Taken, StreamSame
  <2> QED
    BY <1>2, <2>1, <2>2 DEF OnlyOf
<1>6. buffer'[w] = u /\ lines'[w] = v
  BY <1>1 DEF MiTypeOK, Taken
<1>7. UserInv(w)'
  BY <1>1, <1>2, <1>3 DEF MiTypeOK, Taken, Resubmit, UserInv
<1>8. OrderInv(w)' /\ AnswersInv(w)'
  BY <1>1, <1>2, <1>6, ReadStream
<1>9. CommandInv(w)'
  BY <1>1, <1>2, <1>3, <1>6 DEF MiTypeOK, Taken, Resubmit, CommandInv
<1> QED
  BY <1>3, <1>4, <1>5, <1>7, <1>8, <1>9, StepOf

(* One more at the end of a sequence. *)
LEMMA OneMore ==
  ASSUME NEW X, NEW s \in Seq(X), NEW e \in X
  PROVE  /\ Append(s, e) \in Seq(X) /\ DOMAIN Append(s, e) = DOMAIN s \union {Len(s) + 1}
         /\ \A k \in DOMAIN s : Append(s, e)[k] = s[k] /\ k < Len(s) + 1
         /\ Append(s, e)[Len(s) + 1] = e /\ Len(s) \in Nat
  OBVIOUS

(* The codes are numbers. *)
LEMMA Codes == \A command : Code(command) \in Nat
  BY DEF Code, Errors

(* An answer is that of the first command of the stream, and the first     *)
(* after those before it.                                                  *)
LEMMA Answered ==
  ASSUME MiIInv, NEW w \in Streams, buffer[w] # <<>>, Head(buffer[w]).part = "head",
         WriteAnswer(w, Code(Kind(w))), buffer' = [buffer EXCEPT ![w] = <<>>],
         UNCHANGED <<lines, todo, given>>
  PROVE  /\ answers' \in [Streams -> Seq(Nat \X Nat)] /\ buffer' \in [Streams -> Seq(Lines)]
         /\ \A q \in Streams \ {w} : StreamSame(q)
         /\ OrderInv(w)' /\ AnswersInv(w)'
<1> USE DEF MiIInv
<1> DEFINE hd == Head(buffer[w])
           new == <<hd.id, Code(Kind(w))>>
           old == answers[w]
<1>1. buffer[w] \in Seq(Lines) /\ old \in Seq(Nat \X Nat)
  BY DEF MiTypeOK
<1>2. hd \in Lines /\ hd \in Elements(buffer[w])
  BY <1>1 DEF Elements
<1>3. hd.id \in DOMAIN given[w] /\ \A j \in DOMAIN old : old[j][1] < hd.id
  BY <1>2 DEF OrderInv, InText, Ahead
<1>4. new \in Nat \X Nat
  BY <1>2, Codes DEF Lines
<1>5. Kind(w) = given[w][hd.id]
  BY DEF Kind
<1>6. answers' = answers \/ answers' = [answers EXCEPT ![w] = Append(old, new)]
  BY DEF WriteAnswer
<1>7. buffer' \in [Streams -> Seq(Lines)] /\ buffer'[w] = <<>>
  BY NoLines DEF MiTypeOK
<1>8. /\ Append(old, new) \in Seq(Nat \X Nat) /\ DOMAIN Append(old, new) = DOMAIN old \union {Len(old) + 1}
      /\ \A j \in DOMAIN old : Append(old, new)[j] = old[j] /\ j < Len(old) + 1
      /\ Append(old, new)[Len(old) + 1] = new /\ Len(old) \in Nat
  <2> HIDE DEF old, new, hd
  <2> QED
    BY <1>1, <1>4, OneMore
<1>9. answers' \in [Streams -> Seq(Nat \X Nat)]
  BY <1>6, <1>8 DEF MiTypeOK
<1>10. ASSUME NEW q \in Streams \ {w} PROVE StreamSame(q)
  BY <1>6 DEF MiTypeOK, StreamSame
<1>11. Sorted(buffer'[w]) /\ Elements(buffer'[w]) = {}
  BY <1>7, NoLines
<1>12. CASE answers' = answers
  BY <1>7, <1>9, <1>10, <1>11, <1>12, ReadStream DEF OrderInv, Apart
<1>13. CASE answers' = [answers EXCEPT ![w] = Append(old, new)]
  <2> DEFINE more == Append(old, new)
  <2>1. answers'[w] = more
    BY <1>13 DEF MiTypeOK
  <2>2. AnswersInv(w) /\ OrderInv(w)
    OBVIOUS
  <2>3. new[1] = hd.id /\ new[2] = Code(given[w][hd.id])
    BY <1>5
  <2> HIDE DEF more, new, old, hd
  <2>4. ASSUME NEW j \in DOMAIN more PROVE more[j][1] \in DOMAIN given[w] /\ more[j][2] = Code(given[w][more[j][1]])
    BY <1>3, <1>8, <2>2, <2>3 DEF AnswersInv, more, old
  <2>5. ASSUME NEW j \in DOMAIN more, NEW k \in DOMAIN more, j < k PROVE more[j][1] < more[k][1]
    <3>1. DOMAIN old \subseteq Nat
      BY <1>1
    <3>2. j \in DOMAIN old
      BY <1>8, <2>5, <3>1 DEF more
    <3>3. CASE k \in DOMAIN old
      BY <1>8, <2>2, <2>5, <3>2, <3>3 DEF AnswersInv, more, old
    <3>4. CASE k = Len(old) + 1
      BY <1>3, <1>8, <2>3, <3>2, <3>4 DEF more
    <3> QED
      BY <1>8, <3>3, <3>4 DEF more
  <2>6. AnswersInv(w)'
    BY <2>1, <2>4, <2>5 DEF AnswersInv
  <2>7. ASSUME NEW y \in Elements(lines[w]) \union Elements(todo[w]) PROVE InText(w, y)'
    <3>1. InText(w, y) /\ Before(hd, y)
      BY <1>2, <2>2, <2>7 DEF OrderInv, Apart, hd
    <3>2. CASE y.part # "head"
      BY <3>1, <3>2 DEF InText, Ahead
    <3>3. CASE y.part = "head"
      <4>1. hd.id < y.id
        BY <3>1, <3>3 DEF Before, Rank, hd
      <4>2. \A j \in DOMAIN old : old[j][1] < y.id
        BY <3>1, <3>3 DEF InText, Ahead, old
      <4>3. \A j \in DOMAIN more : more[j][1] < y.id
        BY <1>8, <2>3, <4>1, <4>2 DEF more
      <4> QED
        BY <2>1, <3>1, <4>3 DEF InText, Ahead
    <3> QED
      BY <3>2, <3>3
  <2>8. OrderInv(w)'
    BY <1>7, <1>11, <2>2, <2>7 DEF OrderInv, Apart
  <2> QED
    BY <1>7, <1>9, <1>10, <2>6, <2>8
<1> QED
  BY <1>6, <1>12, <1>13

(* A worker opens the reply file, or gives up. *)
LEMMA OpenKeeps == ASSUME MiIInv, NEW w \in Streams, Open(w) PROVE MiIInv'
<1> USE DEF MiIInv
<1>1. /\ listener[w] = "named" /\ UNCHANGED <<writer, freed, waiting, lines, todo, given, answers>>
      /\ \/ Resubmit(w) /\ buffer' = [buffer EXCEPT ![w] = <<>>]
         \/ listener' = [listener EXCEPT ![w] = "opened"] /\ armed' = armed /\ buffer' = buffer
  BY DEF Open, force_exit
<1>2. w \in Wraps /\ armed[w] = 0 /\ w \notin writer /\ w \notin freed /\ w \notin waiting
  BY <1>1, WithWorker, WrapNames
<1>3. CASE Resubmit(w) /\ buffer' = [buffer EXCEPT ![w] = <<>>]
  <2>1. MiTypeOK' /\ OnlyOf(w) /\ UserInv(w)' /\ CommandInv(w)' /\ buffer'[w] = <<>> /\ lines'[w] = lines[w]
    BY <1>1, <1>2, <1>3, NoLines DEF MiTypeOK, OnlyOf, StreamSame, UserInv, CommandInv, Resubmit
  <2>2. OrderInv(w)' /\ AnswersInv(w)'
    BY <1>1, <2>1, NoLines, ReadStream DEF OrderInv, Apart
  <2> QED
    BY <1>2, <2>1, <2>2, StepOf
<1>4. CASE listener' = [listener EXCEPT ![w] = "opened"] /\ armed' = armed /\ buffer' = buffer
  <2>1. MiTypeOK' /\ OnlyOf(w) /\ UserInv(w)' /\ StreamSame(w)
    BY <1>1, <1>2, <1>4 DEF MiTypeOK, OnlyOf, StreamSame, UserInv
  <2>2. CommandInv(w)'
    BY <1>1, <1>2, <1>4 DEF MiTypeOK, CommandInv
  <2> QED
    BY <1>2, <2>1, <2>2, StreamKept, StepOf
<1> QED
  BY <1>1, <1>3, <1>4

(* It answers with an error. *)
LEMMA FailKeeps == ASSUME MiIInv, NEW w \in Streams, Fail(w) PROVE MiIInv'
<1> USE DEF MiIInv
<1>1. /\ listener[w] = "opened" /\ Kind(w) \in DOMAIN Errors /\ WriteAnswer(w, Errors[Kind(w)])
      /\ Resubmit(w) /\ buffer' = [buffer EXCEPT ![w] = <<>>]
      /\ UNCHANGED <<writer, freed, waiting, lines, todo, given>>
  BY DEF Fail, force_exit
<1>2. w \in Wraps /\ armed[w] = 0 /\ w \notin writer /\ w \notin freed /\ w \notin waiting
  BY <1>1, WithWorker, WrapNames
<1>3. buffer[w] # <<>> /\ Head(buffer[w]).part = "head" /\ WriteAnswer(w, Code(Kind(w)))
  BY <1>1 DEF CommandInv, Code
<1>4. /\ answers' \in [Streams -> Seq(Nat \X Nat)] /\ buffer' \in [Streams -> Seq(Lines)]
      /\ \A q \in Streams \ {w} : StreamSame(q)
      /\ OrderInv(w)' /\ AnswersInv(w)'
  BY <1>1, <1>3, Answered
<1>5. MiTypeOK'
  BY <1>1, <1>2, <1>4 DEF MiTypeOK, Resubmit
<1>6. OnlyOf(w) /\ UserInv(w)' /\ CommandInv(w)'
  BY <1>1, <1>2, <1>4 DEF MiTypeOK, OnlyOf, UserInv, CommandInv, Resubmit
<1> QED
  BY <1>2, <1>4, <1>5, <1>6, StepOf

(* It runs the command. *)
LEMMA RunCommandKeeps == ASSUME MiIInv, NEW w \in Streams, RunCommand(w) PROVE MiIInv'
<1> USE DEF MiIInv
<1>1. /\ listener[w] = "opened" /\ Kind(w) \notin DOMAIN Errors /\ writer' = writer \union {w}
      /\ listener' = [listener EXCEPT ![w] = "idle"]
      /\ UNCHANGED <<armed, freed, waiting, lines, buffer, todo, given, answers>>
  BY DEF RunCommand
<1>2. w \in Wraps /\ armed[w] = 0 /\ w \notin writer /\ w \notin freed /\ w \notin waiting
  BY <1>1, WithWorker, WrapNames
<1>3. MiTypeOK' /\ OnlyOf(w) /\ UserInv(w)' /\ StreamSame(w)
  BY <1>1, <1>2 DEF MiTypeOK, OnlyOf, StreamSame, UserInv
<1>4. CommandInv(w)'
  BY <1>1 DEF CommandInv, Kind
<1> QED
  BY <1>2, <1>3, <1>4, StreamKept, StepOf

(* There is no memory for its answer. *)
LEMMA StarveKeeps == ASSUME MiIInv, NEW w \in Streams, Starve(w) PROVE MiIInv'
<1> USE DEF MiIInv
<1>1. /\ listener[w] = "opened" /\ Resubmit(w) /\ buffer' = [buffer EXCEPT ![w] = <<>>]
      /\ UNCHANGED <<writer, freed, waiting, lines, todo, given, answers>>
  BY DEF Starve, force_exit
<1>2. w \in Wraps /\ armed[w] = 0 /\ w \notin writer /\ w \notin freed /\ w \notin waiting
  BY <1>1, WithWorker, WrapNames
<1>3. MiTypeOK' /\ OnlyOf(w) /\ UserInv(w)' /\ CommandInv(w)' /\ buffer'[w] = <<>> /\ lines'[w] = lines[w]
  BY <1>1, <1>2, NoLines DEF MiTypeOK, OnlyOf, StreamSame, UserInv, CommandInv, Resubmit
<1>4. OrderInv(w)' /\ AnswersInv(w)'
  BY <1>1, <1>3, NoLines, ReadStream DEF OrderInv, Apart
<1> QED
  BY <1>2, <1>3, <1>4, StepOf

(* The answer is written, and the connection goes back to reactor_in. *)
LEMMA WriterKeeps == ASSUME MiIInv, NEW w \in Streams, mi_writer(w) PROVE MiIInv'
<1> USE DEF MiIInv
<1>1. /\ w \in writer /\ writer' = writer \ {w} /\ WriteAnswer(w, 200)
      /\ buffer' = [buffer EXCEPT ![w] = <<>>] /\ armed' = [armed EXCEPT ![w] = @ + 1]
      /\ UNCHANGED <<listener, freed, waiting, lines, todo, given>>
  BY DEF mi_writer
<1>2. w \in Wraps /\ armed[w] = 0 /\ listener[w] = "idle" /\ w \notin freed /\ w \notin waiting
  BY <1>1, WithWriter, WrapNames
<1>3. buffer[w] # <<>> /\ Head(buffer[w]).part = "head" /\ WriteAnswer(w, Code(Kind(w)))
  BY <1>1 DEF CommandInv, Code
<1>4. /\ answers' \in [Streams -> Seq(Nat \X Nat)] /\ buffer' \in [Streams -> Seq(Lines)]
      /\ \A q \in Streams \ {w} : StreamSame(q)
      /\ OrderInv(w)' /\ AnswersInv(w)'
  BY <1>1, <1>3, Answered
<1>5. MiTypeOK'
  BY <1>1, <1>2, <1>4 DEF MiTypeOK
<1>6. OnlyOf(w) /\ UserInv(w)' /\ CommandInv(w)'
  BY <1>1, <1>2, <1>4 DEF MiTypeOK, OnlyOf, UserInv, CommandInv
<1> QED
  BY <1>2, <1>4, <1>5, <1>6, StepOf

-----------------------------------------------------------------------------
(* mi_stream: the theorems *)

(* At the start nobody has said anything. *)
LEMMA MiStarts == MiInit => MiIInv
<1> SUFFICES ASSUME MiInit PROVE MiIInv
  OBVIOUS
<1>1. MiTypeOK
  BY NoLines, WrapNames DEF MiInit, MiTypeOK
<1>2. OneUser
  BY WrapNames DEF MiInit, OneUser
<1>3. ASSUME NEW q \in Streams PROVE OrderInv(q) /\ AnswersInv(q) /\ CommandInv(q)
  <2>1. buffer[q] = <<>> /\ lines[q] = <<>> /\ todo[q] = <<>> /\ answers[q] = <<>> /\ writer = {} /\ listener[q] = "idle"
    BY <1>3, WrapNames DEF MiInit
  <2> QED
    BY <2>1, NoLines DEF OrderInv, AnswersInv, CommandInv, Apart
<1> QED
  BY <1>1, <1>2, <1>3 DEF MiInit, MiIInv

(* Every step keeps the invariant. *)
LEMMA MiKeeps == MiIInv /\ [MiNext]_miVars => MiIInv'
<1> SUFFICES ASSUME MiIInv, [MiNext]_miVars PROVE MiIInv'
  OBVIOUS
<1>1. CASE UNCHANGED miVars
  <2>1. UNCHANGED <<armed, listener, writer, freed, waiting, lines, buffer, todo, given, answers>>
    BY <1>1 DEF miVars
  <2>2. MiTypeOK' /\ OneUser' /\ waiting' \intersect freed' = {}
    BY <2>1 DEF MiIInv, MiTypeOK, OneUser
  <2>3. ASSUME NEW q \in Streams PROVE OrderInv(q)' /\ AnswersInv(q)' /\ CommandInv(q)'
    BY <2>1, StreamKept, CommandKept DEF MiIInv, StreamSame
  <2> QED
    BY <2>2, <2>3 DEF MiIInv
<1>2. ASSUME NEW w \in Streams, Client(w) PROVE MiIInv'
  BY <1>2, BeginKeeps, SendKeeps, CloseKeeps DEF Client
<1>3. CASE Accept
  BY <1>3, AcceptKeeps
<1>4. ASSUME NEW w \in Wraps, mi_listener(w) PROVE MiIInv'
  BY <1>4, EventKeeps, ReadLinesKeeps, OpenKeeps, FailKeeps, RunCommandKeeps, StarveKeeps, WriterKeeps
     DEF mi_listener
<1> QED
  BY <1>1, <1>2, <1>3, <1>4 DEF MiNext

(* mi_listener.c: for any clients, commands and buffer, what a connection  *)
(* has sent is one stream, in the buffer, the pipe and at the client, with *)
(* no first line of a command that is answered; it has one user.           *)
THEOREM MiInvariance == MiSpec => []MiIInv
  BY MiStarts, MiKeeps, PTL DEF MiSpec

(* What the invariant says of the answers. *)
LEMMA MiRight == MiIInv => OneUser /\ AnswersRight
  BY DEF MiIInv, AnswersInv, AnswersRight

(* mi_listener.c: a connection is with one reactor or one worker. *)
THEOREM OneUserHolds == MiSpec => []OneUser
  BY MiInvariance, MiRight, PTL

(* mi_listener.c: the answers of a connection are those of its commands,   *)
(* in their order and each at most once.                                   *)
THEOREM AnswersRightHolds == MiSpec => []AnswersRight
  BY MiInvariance, MiRight, PTL

-----------------------------------------------------------------------------
(* Both *)

(* A behaviour of the four components is one of each. *)
LEMMA PartsStart == PartInit => PollInit /\ MiInit
  BY DEF PartInit

(* A step is one of each or leaves it alone. *)
LEMMA PartsStep == [PartNext]_vars => [PollNext]_pollVars /\ [MiNext]_miVars
  BY DEF PartNext, vars, FlowPart, PollPart, StreamPart, ThreadPart

(* poll.c, select.c, kqueue.c, mi_listener.c: a socket is in one place,      *)
(* heard by one thread, no event is made up, and what is answered are the   *)
(* commands of the connection in their order: with any descriptors, clients *)
(* and commands.                                                            *)
THEOREM SocketsRightHolds == PartSpec => []SocketsRight
<1>1. PartInit => PollIInv /\ MiIInv
  BY PartsStart, PollStarts, MiStarts
<1>2. PollIInv /\ MiIInv /\ [PartNext]_vars => (PollIInv /\ MiIInv)'
  BY PartsStep, PollKeeps, MiKeeps
<1>3. PollIInv /\ MiIInv => SocketsRight
  BY PollRight, MiRight DEF SocketsRight
<1> QED
  BY <1>1, <1>2, <1>3, PTL DEF PartSpec
=============================================================================
