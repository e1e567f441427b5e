----------------------------- MODULE ServicesProofs -----------------------------
(***************************************************************************)
(* What holds of the services that stand alone: of the sockets of c-ares   *)
(* for any number of them and however much c-ares does in a call; of a     *)
(* connection to MySQL for any queries and however often it is lost; of    *)
(* the requests of sip_resolvehost for any answers of the DNS; of the      *)
(* pools of db_init for any URLs, module and memory; of the blocks of      *)
(* q_malloc for any sequence of calls.                                     *)
(***************************************************************************)
EXTENDS SipResolve, AresSockets, MySql, FiniteSetTheorems, SequenceTheorems, TLAPS

CONSTANTS Urls, Malformed, Numbers, Modules, Caps, Budgets, MaxCalls, db_connection_count
VARIABLES pool_list, returned, killed, failed

CONSTANTS FRAG_OVERHEAD, QM_MALLOC_OPTIMIZE_FACTOR

D == INSTANCE DbInit WITH crashed <- killed
Q == INSTANCE QMalloc

-----------------------------------------------------------------------------
(* The sockets of c-ares *)

AresTypeOK ==
  /\ opened \subseteq Socks
  /\ used \in [Sides -> SUBSET Socks]
  /\ inside \in [Sides -> SUBSET Socks]
  /\ deaf \in [Sides -> SUBSET Socks]
  /\ armed \in [Sides -> [Socks -> Nat]]
  /\ tasks \in [Sides -> [Socks -> Nat]]
  /\ caller = None \/ caller \in [side : Sides, fd : Socks] \/ caller \in [side : {"query", "timer"}, fd : {0}]

(* The bit says that a reactor or a task has the socket, unless the socket *)
(* was closed; a socket c-ares wants has the bit, but for the one whose    *)
(* event is being handled.                                                 *)
BitRight ==
  \A s \in Sides, f \in Socks : f \in inside[s] => Has(s, f) \/ f \in deaf[s]

WantedInside ==
  \A s \in Sides, f \in Socks :
    f \in used[s] => f \in inside[s] \/ (caller.side = s /\ caller.fd = f)

AresInv == AresTypeOK /\ OnceInside /\ BitRight /\ WantedInside

-----------------------------------------------------------------------------
(* At first no socket is open.                                              *)
LEMMA AresStarts == AresInit => AresInv
BY DEF AresInit, AresInv, AresTypeOK, OnceInside, BitRight, WantedInside, Has, Sides, None

(* A call of c-ares begins: nothing of the sockets changes. *)
LEMMA EnterInv ==
  ASSUME AresInv, Query \/ Timeout
  PROVE  AresInv'
<1>1. /\ caller = None /\ UNCHANGED <<opened, used, inside, armed, tasks, deaf>>
      /\ caller' \in [side : {"query", "timer"}, fd : {0}]
  BY DEF Query, Timeout, Enter
<1>2. AresTypeOK'
  BY <1>1 DEF AresInv, AresTypeOK
<1>3. OnceInside' /\ BitRight'
  BY <1>1 DEF AresInv, OnceInside, BitRight, Has
<1>4. WantedInside'
  BY <1>1 DEF AresInv, WantedInside, None, Sides
<1> QED
  BY <1>2, <1>3, <1>4 DEF AresInv

(* The worker takes the task: the bit goes with it, and the caller is the  *)
(* one socket that may be wanted without it.                               *)
LEMMA TaskInv ==
  ASSUME AresInv, NEW s \in Sides, NEW f \in Socks, reactor_to_ares(s, f)
  PROVE  AresInv'
<1>1. /\ tasks[s][f] > 0 /\ caller = None /\ caller' = [side |-> s, fd |-> f]
      /\ tasks' = [tasks EXCEPT ![s][f] = @ - 1]
      /\ inside' = [inside EXCEPT ![s] = @ \ {f}]
      /\ UNCHANGED <<opened, used, armed, deaf>>
  BY DEF reactor_to_ares, Enter
<1>2. AresTypeOK
  BY DEF AresInv
<1>3. armed[s][f] + tasks[s][f] <= 1 /\ armed[s][f] \in Nat /\ tasks[s][f] \in Nat
  BY <1>2 DEF AresInv, OnceInside, AresTypeOK
<1>4. armed[s][f] = 0 /\ tasks[s][f] = 1
  BY <1>1, <1>3
<1>5. \A t \in Sides, g \in Socks : tasks'[t][g] = IF t = s /\ g = f THEN 0 ELSE tasks[t][g]
  BY <1>1, <1>2, <1>4 DEF AresTypeOK
<1>6. \A t \in Sides, g \in Socks : g \in inside'[t] <=> g \in inside[t] /\ ~ (t = s /\ g = f)
  BY <1>1, <1>2 DEF AresTypeOK
<1>7. AresTypeOK'
  <2>1. tasks' \in [Sides -> [Socks -> Nat]]
    BY <1>1, <1>2, <1>4 DEF AresTypeOK
  <2>2. inside' \in [Sides -> SUBSET Socks]
    BY <1>1, <1>2 DEF AresTypeOK
  <2> QED
    BY <1>1, <1>2, <2>1, <2>2 DEF AresTypeOK
<1>8. OnceInside'
  <2> SUFFICES ASSUME NEW t \in Sides, NEW g \in Socks
               PROVE  (armed[t][g] + tasks[t][g] <= 1 /\ (Has(t, g) => g \in inside[t]))'
    BY DEF OnceInside
  <2> QED
    BY <1>1, <1>4, <1>5, <1>6 DEF AresInv, OnceInside, Has
<1>9. BitRight'
  BY <1>1, <1>5, <1>6 DEF AresInv, BitRight, Has
<1>10. WantedInside'
  <2>1. \A t \in Sides, g \in Socks : g \in used[t] => g \in inside[t]
    BY <1>1 DEF AresInv, WantedInside, None, Sides
  <2> QED
    BY <1>1, <1>6, <2>1 DEF WantedInside
<1> QED
  BY <1>7, <1>8, <1>9, <1>10 DEF AresInv

(* What SubmitTo does when no side it is given has the bit. *)
LEMMA SubmitInv ==
  ASSUME AresTypeOK, OnceInside, BitRight,
         NEW f \in Socks, NEW S \in SUBSET Sides, \A s \in S : f \notin inside[s],
         SubmitTo(S, f), UNCHANGED <<tasks, deaf>>
  PROVE  /\ armed' \in [Sides -> [Socks -> Nat]] /\ inside' \in [Sides -> SUBSET Socks]
         /\ OnceInside' /\ BitRight'
         /\ \A s \in Sides, g \in Socks : g \in inside'[s] <=> g \in inside[s] \/ (s \in S /\ g = f)
<1>1. armed' \in [Sides -> [Socks -> Nat]] /\ inside' \in [Sides -> SUBSET Socks]
  <2>1. armed' = [s \in Sides |-> IF s \in S THEN [armed[s] EXCEPT ![f] = @ + 1] ELSE armed[s]]
    BY DEF SubmitTo
  <2>2. \A s \in Sides : (IF s \in S THEN [armed[s] EXCEPT ![f] = @ + 1] ELSE armed[s]) \in [Socks -> Nat]
    BY DEF AresTypeOK
  <2>3. armed' \in [Sides -> [Socks -> Nat]]
    BY <2>1, <2>2
  <2>4. inside' = [s \in Sides |-> IF s \in S THEN inside[s] \union {f} ELSE inside[s]]
    BY DEF SubmitTo
  <2>5. \A s \in Sides : (IF s \in S THEN inside[s] \union {f} ELSE inside[s]) \in SUBSET Socks
    BY DEF AresTypeOK
  <2>6. inside' \in [Sides -> SUBSET Socks]
    BY <2>4, <2>5
  <2> QED
    BY <2>3, <2>6
<1>2. \A s \in Sides, g \in Socks : armed'[s][g] = IF s \in S /\ g = f THEN armed[s][g] + 1 ELSE armed[s][g]
  BY DEF SubmitTo, AresTypeOK
<1>3. \A s \in Sides, g \in Socks : g \in inside'[s] <=> g \in inside[s] \/ (s \in S /\ g = f)
  BY DEF SubmitTo, AresTypeOK
<1>4. \A s \in Sides, g \in Socks : armed[s][g] \in Nat /\ tasks[s][g] \in Nat
  BY DEF AresTypeOK
<1>5. \A s \in S : armed[s][f] = 0 /\ tasks[s][f] = 0
  BY <1>4 DEF OnceInside, Has
<1>6. OnceInside'
  <2> SUFFICES ASSUME NEW s \in Sides, NEW g \in Socks
               PROVE  (armed[s][g] + tasks[s][g] <= 1 /\ (Has(s, g) => g \in inside[s]))'
    BY DEF OnceInside
  <2>1. CASE s \in S /\ g = f
    BY <1>2, <1>3, <1>5, <2>1
  <2>2. CASE ~ (s \in S /\ g = f)
    BY <1>2, <1>3, <2>2 DEF OnceInside, Has
  <2> QED
    BY <2>1, <2>2
<1>7. BitRight'
  <2> SUFFICES ASSUME NEW s \in Sides, NEW g \in Socks, g \in inside'[s]
               PROVE  (Has(s, g) \/ g \in deaf[s])'
    BY DEF BitRight
  <2>1. CASE s \in S /\ g = f
    BY <1>2, <1>5, <2>1 DEF Has
  <2>2. CASE ~ (s \in S /\ g = f)
    BY <1>2, <1>3, <2>2 DEF BitRight, Has
  <2> QED
    BY <2>1, <2>2
<1> QED
  BY <1>1, <1>3, <1>6, <1>7

(* c-ares tells of a socket: it is given to the reactors that lack it.     *)
LEMMA CallbackInv ==
  ASSUME AresInv, NEW f \in Socks, NEW wants \in SUBSET Sides, socket_change_callback(f, wants),
         opened' \subseteq Socks, UNCHANGED <<tasks, caller, deaf>>
  PROVE  AresInv'
<1> DEFINE S == { s \in wants : f \notin inside[s] }
<1>1. AresTypeOK /\ OnceInside /\ BitRight /\ S \in SUBSET Sides /\ SubmitTo(S, f)
  BY DEF AresInv, socket_change_callback
<1>2. /\ armed' \in [Sides -> [Socks -> Nat]] /\ inside' \in [Sides -> SUBSET Socks]
      /\ OnceInside' /\ BitRight'
      /\ \A s \in Sides, g \in Socks : g \in inside'[s] <=> g \in inside[s] \/ (s \in S /\ g = f)
  <2> HIDE DEF S
  <2>1. \A s \in S : f \notin inside[s]
    BY DEF S
  <2> QED
    BY <1>1, <2>1, SubmitInv
<1>3. used' = [s \in Sides |-> IF s \in wants THEN used[s] \union {f} ELSE used[s] \ {f}]
  BY DEF socket_change_callback
<1>4. used' \in [Sides -> SUBSET Socks]
  <2>1. \A s \in Sides : (IF s \in wants THEN used[s] \union {f} ELSE used[s] \ {f}) \in SUBSET Socks
    BY <1>1 DEF AresTypeOK
  <2> QED
    BY <1>3, <2>1
<1>5. AresTypeOK'
  BY <1>1, <1>2, <1>4 DEF AresTypeOK
<1>6. WantedInside'
  <2> SUFFICES ASSUME NEW s \in Sides, NEW g \in Socks, g \in used'[s]
               PROVE  (g \in inside[s] \/ (caller.side = s /\ caller.fd = g))'
    BY DEF WantedInside
  <2>1. g \in used[s] \/ (s \in wants /\ g = f)
    BY <1>3
  <2>2. CASE s \in wants /\ g = f
    BY <1>2, <2>2
  <2>3. CASE g \in used[s]
    BY <1>2, <2>3 DEF AresInv, WantedInside
  <2> QED
    BY <2>1, <2>2, <2>3
<1> QED
  BY <1>2, <1>5, <1>6 DEF AresInv

(* A socket is closed: what a reactor had of it is gone without a task.    *)
LEMMA ClosesInv ==
  ASSUME AresInv, Closes
  PROVE  AresInv'
<1>1. PICK f \in opened :
        /\ opened' = opened \ {f}
        /\ used' = [s \in Sides |-> used[s] \ {f}]
        /\ armed' = [s \in Sides |-> [armed[s] EXCEPT ![f] = 0]]
        /\ deaf' = [s \in Sides |-> IF armed[s][f] > 0 THEN deaf[s] \union {f} ELSE deaf[s]]
  BY DEF Closes
<1>2. AresTypeOK /\ f \in Socks /\ UNCHANGED <<inside, tasks, caller>>
  BY DEF AresInv, AresTypeOK, Closes
<1>3. \A s \in Sides, g \in Socks : armed'[s][g] = IF g = f THEN 0 ELSE armed[s][g]
  BY <1>1, <1>2 DEF AresTypeOK
<1>4. \A s \in Sides, g \in Socks :
        g \in deaf'[s] <=> g \in deaf[s] \/ (g = f /\ armed[s][f] > 0)
  BY <1>1
<1>5. AresTypeOK'
  <2>1. armed' \in [Sides -> [Socks -> Nat]]
    <3>1. \A s \in Sides : [armed[s] EXCEPT ![f] = 0] \in [Socks -> Nat]
      BY <1>2 DEF AresTypeOK
    <3> QED
      BY <1>1, <3>1
  <2>2. deaf' \in [Sides -> SUBSET Socks]
    <3>1. \A s \in Sides : (IF armed[s][f] > 0 THEN deaf[s] \union {f} ELSE deaf[s]) \in SUBSET Socks
      BY <1>2 DEF AresTypeOK
    <3> QED
      BY <1>1, <3>1
  <2>3. used' \in [Sides -> SUBSET Socks] /\ opened' \subseteq Socks
    BY <1>1, <1>2 DEF AresTypeOK
  <2> QED
    BY <1>2, <2>1, <2>2, <2>3 DEF AresTypeOK
<1>6. \A s \in Sides, g \in Socks : armed[s][g] \in Nat /\ tasks[s][g] \in Nat
  BY <1>2 DEF AresTypeOK
<1>7. OnceInside'
  <2> SUFFICES ASSUME NEW s \in Sides, NEW g \in Socks
               PROVE  (armed[s][g] + tasks[s][g] <= 1 /\ (Has(s, g) => g \in inside[s]))'
    BY DEF OnceInside
  <2> QED
    BY <1>2, <1>3, <1>6 DEF AresInv, OnceInside, Has
<1>8. BitRight'
  <2> SUFFICES ASSUME NEW s \in Sides, NEW g \in Socks, g \in inside[s]
               PROVE  (Has(s, g) \/ g \in deaf[s])'
    BY <1>2 DEF BitRight
  <2> QED
    BY <1>2, <1>3, <1>4, <1>6 DEF AresInv, BitRight, Has
<1>9. WantedInside'
  BY <1>1, <1>2 DEF AresInv, WantedInside
<1> QED
  BY <1>5, <1>7, <1>8, <1>9 DEF AresInv

(* c-ares returns: the socket of the event goes back if it is wanted.      *)
LEMMA ReturnInv ==
  ASSUME AresInv, AresReturn
  PROVE  AresInv'
<1> DEFINE s == caller.side
           f == caller.fd
           Back == s \in Sides /\ f \in used[s] /\ f \notin inside[s]
<1>1. AresTypeOK /\ OnceInside /\ BitRight /\ WantedInside /\ caller' = None /\ UNCHANGED <<opened, used, tasks, deaf>>
  BY DEF AresInv, AresReturn
<1>2. CASE Back
  <2>1. f \in Socks /\ SubmitTo({s}, f) /\ {s} \in SUBSET Sides /\ \A t \in {s} : f \notin inside[t]
    BY <1>1, <1>2 DEF AresReturn, AresTypeOK
  <2>2. /\ armed' \in [Sides -> [Socks -> Nat]] /\ inside' \in [Sides -> SUBSET Socks]
        /\ OnceInside' /\ BitRight'
        /\ \A t \in Sides, g \in Socks : g \in inside'[t] <=> g \in inside[t] \/ (t \in {s} /\ g = f)
    <3> HIDE DEF s, f
    <3> QED
      BY <1>1, <2>1, SubmitInv
  <2>3. WantedInside'
    BY <1>1, <2>2 DEF WantedInside
  <2> QED
    BY <1>1, <2>2, <2>3 DEF AresInv, AresTypeOK
<1>3. CASE ~ Back
  <2>1. SubmitTo({}, f)
    BY <1>3 DEF AresReturn
  <2>2. \A t \in Sides : armed'[t] = armed[t] /\ inside'[t] = inside[t]
    BY <2>1 DEF SubmitTo
  <2>3. armed' \in [Sides -> [Socks -> Nat]] /\ inside' \in [Sides -> SUBSET Socks]
    BY <1>1, <2>1, <2>2 DEF SubmitTo, AresTypeOK
  <2>4. OnceInside' /\ BitRight'
    BY <1>1, <2>2 DEF OnceInside, BitRight, Has
  <2>5. WantedInside'
    <3> SUFFICES ASSUME NEW t \in Sides, NEW g \in Socks, g \in used[t]
                 PROVE  g \in inside[t]
      BY <1>1, <2>2 DEF WantedInside
    <3> QED
      BY <1>1, <1>3 DEF WantedInside
  <2> QED
    BY <1>1, <2>3, <2>4, <2>5 DEF AresInv, AresTypeOK
<1> QED
  BY <1>2, <1>3

(* The reactor sees an event: the socket goes from it to a task.           *)
LEMMA EventInv ==
  ASSUME AresInv, NEW s \in Sides, NEW f \in Socks, Event(s, f)
  PROVE  AresInv'
<1>1. /\ armed[s][f] > 0
      /\ armed' = [armed EXCEPT ![s][f] = 0]
      /\ tasks' = [tasks EXCEPT ![s][f] = @ + 1]
      /\ UNCHANGED <<opened, used, inside, caller, deaf>>
  BY DEF Event
<1>2. AresTypeOK
  BY DEF AresInv
<1>3. \A t \in Sides, g \in Socks : armed[t][g] \in Nat /\ tasks[t][g] \in Nat
  BY <1>2 DEF AresTypeOK
<1>4. armed[s][f] + tasks[s][f] <= 1
  BY DEF AresInv, OnceInside
<1>5. armed[s][f] = 1 /\ tasks[s][f] = 0
  BY <1>1, <1>3, <1>4
<1>6. \A t \in Sides, g \in Socks : /\ armed'[t][g] = IF t = s /\ g = f THEN 0 ELSE armed[t][g]
                                    /\ tasks'[t][g] = IF t = s /\ g = f THEN 1 ELSE tasks[t][g]
  BY <1>1, <1>2, <1>5 DEF AresTypeOK
<1>7. AresTypeOK'
  <2>1. armed' \in [Sides -> [Socks -> Nat]]
    BY <1>1, <1>2 DEF AresTypeOK
  <2>2. tasks' \in [Sides -> [Socks -> Nat]]
    BY <1>1, <1>2, <1>5 DEF AresTypeOK
  <2> QED
    BY <1>1, <1>2, <2>1, <2>2 DEF AresTypeOK
<1>8. OnceInside'
  <2> SUFFICES ASSUME NEW t \in Sides, NEW g \in Socks
               PROVE  (armed[t][g] + tasks[t][g] <= 1 /\ (Has(t, g) => g \in inside[t]))'
    BY DEF OnceInside
  <2> QED
    BY <1>1, <1>3, <1>5, <1>6 DEF AresInv, OnceInside, Has
<1>9. BitRight'
  BY <1>1, <1>5, <1>6 DEF AresInv, BitRight, Has
<1>10. WantedInside'
  BY <1>1 DEF AresInv, WantedInside
<1> QED
  BY <1>7, <1>8, <1>9, <1>10 DEF AresInv

-----------------------------------------------------------------------------
(* Every step keeps the invariant: the calls of c-ares and what they do,    *)
(* the tasks, and the changes of a socket.                                  *)
LEMMA AresKeeps == AresInv /\ [AresNext]_aresVars => AresInv'
<1> SUFFICES ASSUME AresInv, [AresNext]_aresVars
             PROVE  AresInv'
  OBVIOUS
<1>1. CASE Query \/ Timeout
  BY <1>1, EnterInv
<1>2. CASE Opens
  <2>1. PICK f \in Socks \ opened :
          /\ opened' = opened \union {f}
          /\ \E w \in {{"in"}, {"in", "out"}} : socket_change_callback(f, w)
    BY <1>2 DEF Opens
  <2>2. PICK w \in {{"in"}, {"in", "out"}} : socket_change_callback(f, w)
    BY <2>1
  <2>3. w \in SUBSET Sides
    BY <2>2 DEF Sides
  <2>4. opened' \subseteq Socks /\ UNCHANGED <<tasks, caller, deaf>>
    BY <1>2, <2>1 DEF Opens, AresInv, AresTypeOK
  <2> QED
    BY <2>2, <2>3, <2>4, CallbackInv
<1>3. CASE Changes
  <2>1. PICK f \in opened, w \in {{"in"}, {"in", "out"}} : socket_change_callback(f, w)
    BY <1>3 DEF Changes
  <2>2. f \in Socks /\ w \in SUBSET Sides
    BY <2>1 DEF AresInv, AresTypeOK, Sides
  <2>3. opened' \subseteq Socks /\ UNCHANGED <<tasks, caller, deaf>>
    BY <1>3 DEF Changes, AresInv, AresTypeOK
  <2> QED
    BY <2>1, <2>2, <2>3, CallbackInv
<1>4. CASE Closes
  BY <1>4, ClosesInv
<1>5. CASE AresReturn
  BY <1>5, ReturnInv
<1>6. CASE \E s \in Sides, f \in Socks : reactor_to_ares(s, f)
  BY <1>6, TaskInv
<1>7. CASE \E s \in Sides, f \in Socks : Event(s, f)
  BY <1>7, EventInv
<1>8. CASE UNCHANGED aresVars
  BY <1>8 DEF aresVars, AresInv, AresTypeOK, OnceInside, BitRight, WantedInside, Has
<1> QED
  BY <1>1, <1>2, <1>3, <1>4, <1>5, <1>6, <1>7, <1>8 DEF AresNext

(* resolve.c:80: a reactor has a socket of c-ares at most once, and only   *)
(* with the bit set: no two workers call c-ares for one event.             *)
THEOREM OnceInsideHolds == AresSpec => []OnceInside
<1>1. AresInv => OnceInside
  BY DEF AresInv
<1> QED
  BY <1>1, AresStarts, AresKeeps, PTL DEF AresSpec

(* resolve.c:80: outside of a call of c-ares every socket it waits for is  *)
(* in its reactor or has a task, unless its number is that of a socket     *)
(* that was closed while the reactor had it.                               *)
THEOREM NoneForgottenHolds == AresSpec => []NoneForgotten
<1>1. AresInv => NoneForgotten
  <2> SUFFICES ASSUME AresInv, caller = None, NEW s \in Sides, NEW f \in Socks, f \in used[s]
               PROVE  Has(s, f) \/ f \in deaf[s]
    BY DEF NoneForgotten
  <2>1. f \in inside[s]
    BY DEF AresInv, WantedInside, None, Sides
  <2> QED
    BY <2>1 DEF AresInv, BitRight
<1> QED
  BY <1>1, AresStarts, AresKeeps, PTL DEF AresSpec

(* resolve.c:80: every socket of c-ares is watched, and none twice, for any *)
(* sockets and any number of changes in a call.                             *)
THEOREM SocketsWatchedHolds == AresSpec => []SocketsWatched
  BY OnceInsideHolds, NoneForgottenHolds, PTL DEF SocketsWatched

-----------------------------------------------------------------------------
(* The connection to MySQL *)

(* What is known of a query while it is made. *)
Handles == [is : {"none", "null", "raw", "ready"}, con : Nat]

ConTypeOK ==
  /\ disconnected \in BOOLEAN /\ errno \in {"lost", "other"} /\ con \in Nat
  /\ stmt \in [Queries -> Handles] /\ query \in Queries
  /\ freed \in BOOLEAN /\ crashed \in BOOLEAN /\ starved \in BOOLEAN
  /\ at \in {"idle", "prepare", "reinit", "execute", "executed", "store"}
  /\ i \in 1 .. 2 /\ round \in 0 .. 2 /\ ran \in Nat /\ lost \in Nat

(* A query that goes on was not executed but when the connection was lost, *)
(* and another round is for another loss.                                  *)
CountsRight ==
  /\ at \in {"prepare", "reinit", "execute", "executed"} => ran <= lost /\ round <= lost
  /\ at = "executed" => round = 2
  /\ at = "store" => ran >= 1 /\ ran <= 1 + lost

(* Where a loss is behind the query, and where it has a handle. *)
LossesKnown ==
  /\ at # "idle" /\ disconnected => lost >= 1
  /\ at = "reinit" /\ i = 2 => lost >= 1
  /\ at = "execute" => stmt[query].is \in {"raw", "ready"}
  /\ freed => starved

ConInv == ConTypeOK /\ HandlesLive /\ ToldRight /\ NoCrash /\ CountsRight /\ LossesKnown

-----------------------------------------------------------------------------
(* What a command comes to *)

Live(st, d, c) == \A q \in Queries : st[q].is = "ready" => ~ d /\ st[q].con = c

(* The record of an outcome. *)
Result(o, code, d, e, c, st, l, x) ==
  o = [code |-> code, disconnected |-> d, errno |-> e, con |-> c, stmt |-> st, lost |-> l, cost |-> x]

(* Its fields. *)
LEMMA Fields ==
  ASSUME NEW o, NEW code, NEW d, NEW e, NEW c, NEW st, NEW l, NEW x, Result(o, code, d, e, c, st, l, x)
  PROVE  /\ o.code = code /\ o.disconnected = d /\ o.errno = e /\ o.con = c
         /\ o.stmt = st /\ o.lost = l /\ o.cost = x
  BY DEF Result

(* The five of them. *)
LEMMA FiveOutcomes ==
  ASSUME ConTypeOK, NEW st, NEW o \in Commands(st)
  PROVE  \/ ~ disconnected /\ Result(o, 0, FALSE, "lost", con, st, 0, 0)
         \/ ~ disconnected /\ Result(o, 2, FALSE, "lost", con, st, 0, 1)
         \/ ~ disconnected /\ Result(o, 1, FALSE, "lost", con + 1, reset_all_statements(st), 1, 1)
         \/ ~ disconnected /\ \E e \in {"lost", "other"} : Result(o, 2, TRUE, e, con, reset_all_statements(st), 1, 1)
         \/ disconnected /\ Result(o, 1, FALSE, "lost", con + 1, st, 0, 0)
         \/ disconnected /\ \E e \in {"lost", "other"}, x \in {0, 1} : Result(o, 2, TRUE, e, con, st, 0, x)
<1>1. CASE ~ disconnected
  <2> DEFINE Lost == [Outcome(2, reset_all_statements(st)) EXCEPT !.lost = 1, !.cost = 1]
  <2>1. Result(Lost, 2, FALSE, "lost", con, reset_all_statements(st), 1, 1)
    <3> DEFINE reset == reset_all_statements(st)
    <3>1. Lost = [Outcome(2, reset) EXCEPT !.lost = 1, !.cost = 1]
      OBVIOUS
    <3> HIDE DEF reset, Lost
    <3>2. Result(Lost, 2, FALSE, "lost", con, reset, 1, 1)
      BY <3>1 DEF Outcome, Result
    <3> QED
      BY <3>2 DEF reset, Lost
  <2>2. o \in {Outcome(0, st), [Outcome(2, st) EXCEPT !.cost = 1], Reconnected(Lost)} \union NotReconnected(Lost)
    BY <1>1 DEF Commands
  <2> HIDE DEF Lost
  <2>3. CASE o = Outcome(0, st)
    BY <1>1, <2>3 DEF Outcome, Result
  <2>4. CASE o = [Outcome(2, st) EXCEPT !.cost = 1]
    BY <1>1, <2>4 DEF Outcome, Result
  <2>5. CASE o = Reconnected(Lost)
    BY <1>1, <2>1, <2>5 DEF Reconnected, Result
  <2>6. CASE o \in NotReconnected(Lost)
    <3>1. PICK e \in {"lost", "other"} : o = [Lost EXCEPT !.disconnected = TRUE, !.errno = e, !.cost = 1]
      BY <2>6 DEF NotReconnected
    <3>2. Result(o, 2, TRUE, e, con, reset_all_statements(st), 1, 1)
      BY <2>1, <3>1 DEF Result
    <3> QED
      BY <1>1, <3>2
  <2> QED
    BY <2>2, <2>3, <2>4, <2>5, <2>6
<1>2. CASE disconnected /\ errno = "lost"
  <2> DEFINE Try == Outcome(2, st)
  <2>1. Result(Try, 2, FALSE, "lost", con, st, 0, 0)
    BY DEF Outcome, Result
  <2>2. o \in {Reconnected(Try)} \union NotReconnected(Try)
    BY <1>2 DEF Commands
  <2> HIDE DEF Try
  <2>3. CASE o = Reconnected(Try)
    BY <1>2, <2>1, <2>3 DEF Reconnected, Result
  <2>4. CASE o \in NotReconnected(Try)
    <3>1. PICK e \in {"lost", "other"} : o = [Try EXCEPT !.disconnected = TRUE, !.errno = e, !.cost = 1]
      BY <2>4 DEF NotReconnected
    <3>2. Result(o, 2, TRUE, e, con, st, 0, 1)
      BY <2>1, <3>1 DEF Result
    <3> QED
      BY <1>2, <3>2
  <2> QED
    BY <2>2, <2>3, <2>4
<1>3. CASE disconnected /\ errno # "lost"
  <2>1. o = [Outcome(2, st) EXCEPT !.disconnected = TRUE, !.errno = errno]
    BY <1>3 DEF Commands
  <2>2. Result(o, 2, TRUE, errno, con, st, 0, 0) /\ errno \in {"lost", "other"}
    BY <2>1 DEF Outcome, Result, ConTypeOK
  <2> QED
    BY <1>3, <2>2
<1> QED
  BY <1>1, <1>2, <1>3

(* What the steps need of them: the handles stay those of the connection,  *)
(* and what is lost is lost with the connection.                           *)
LEMMA Comes ==
  ASSUME ConTypeOK, NEW st \in [Queries -> Handles], Live(st, disconnected, con), NEW o \in Commands(st)
  PROVE  /\ o.code \in 0 .. 2 /\ o.disconnected \in BOOLEAN /\ o.errno \in {"lost", "other"} /\ o.con \in Nat
         /\ o.stmt \in [Queries -> Handles] /\ Live(o.stmt, o.disconnected, o.con)
         /\ o.lost \in {0, 1} /\ o.cost \in {0, 1}
         /\ o.lost = 0 => o.stmt = st
         /\ o.code = 0 => ~ disconnected /\ ~ o.disconnected /\ o.con = con /\ o.lost = 0
         /\ o.code = 1 => ~ o.disconnected /\ (disconnected \/ o.lost = 1)
         /\ o.code = 2 /\ o.lost = 1 => o.disconnected
         /\ o.disconnected => disconnected \/ o.lost = 1
<1> DEFINE reset == reset_all_statements(st)
<1>1. reset \in [Queries -> Handles] /\ \A q \in Queries : reset[q].is # "ready"
  BY DEF reset_all_statements, Handles, NoCtx, Null
<1>2. \A d, c : Live(reset, d, c)
  BY <1>1 DEF Live
<1>3. con \in Nat /\ con + 1 \in Nat /\ disconnected \in BOOLEAN
  BY DEF ConTypeOK
<1>4. disconnected => \A d, c : Live(st, d, c)
  BY DEF Live
<1> HIDE DEF reset
<1> DEFINE Typed == /\ o.code \in 0 .. 2 /\ o.errno \in {"lost", "other"} /\ o.con \in Nat
                    /\ o.stmt \in [Queries -> Handles] /\ o.lost \in {0, 1} /\ o.cost \in {0, 1}
<1>5. CASE ~ disconnected /\ Result(o, 0, FALSE, "lost", con, st, 0, 0)
  <2>1. /\ o.code = 0 /\ o.disconnected = FALSE /\ o.errno = "lost" /\ o.con = con
        /\ o.stmt = st /\ o.lost = 0 /\ o.cost = 0
    BY <1>5, Fields
  <2>3. Typed
    BY <1>3, <1>5, <2>1
  <2>4. Live(o.stmt, o.disconnected, o.con) /\ o.disconnected \in BOOLEAN
    BY <1>3, <1>5, <2>1
  <2> QED
    BY <1>3, <1>5, <2>1, <2>3, <2>4
<1>6. CASE ~ disconnected /\ Result(o, 2, FALSE, "lost", con, st, 0, 1)
  <2>1. /\ o.code = 2 /\ o.disconnected = FALSE /\ o.errno = "lost" /\ o.con = con
        /\ o.stmt = st /\ o.lost = 0 /\ o.cost = 1
    BY <1>6, Fields
  <2>3. Typed
    BY <1>3, <1>6, <2>1
  <2>4. Live(o.stmt, o.disconnected, o.con) /\ o.disconnected \in BOOLEAN
    BY <1>3, <1>6, <2>1
  <2> QED
    BY <1>3, <1>6, <2>1, <2>3, <2>4
<1>7. CASE ~ disconnected /\ Result(o, 1, FALSE, "lost", con + 1, reset, 1, 1)
  <2>1. /\ o.code = 1 /\ o.disconnected = FALSE /\ o.errno = "lost" /\ o.con = con + 1
        /\ o.stmt = reset /\ o.lost = 1 /\ o.cost = 1
    BY <1>7, Fields
  <2>3. Typed
    BY <1>1, <1>2, <1>3, <2>1
  <2>4. Live(o.stmt, o.disconnected, o.con) /\ o.disconnected \in BOOLEAN
    BY <1>1, <1>2, <1>3, <2>1
  <2> QED
    BY <1>1, <1>2, <1>3, <2>1, <2>3, <2>4
<1>8. CASE ~ disconnected /\ \E e \in {"lost", "other"} : Result(o, 2, TRUE, e, con, reset, 1, 1)
  <2>1. PICK e \in {"lost", "other"} : Result(o, 2, TRUE, e, con, reset, 1, 1)
    BY <1>8
  <2>2. /\ o.code = 2 /\ o.disconnected = TRUE /\ o.errno = e /\ o.con = con
        /\ o.stmt = reset /\ o.lost = 1 /\ o.cost = 1
    BY <2>1 DEF Result
  <2>3. Typed
    <3>1. o.errno \in {"lost", "other"} /\ o.con \in Nat /\ o.stmt \in [Queries -> Handles]
      BY <1>1, <1>3, <2>2
    <3>2. o.code \in 0 .. 2 /\ o.lost \in {0, 1} /\ o.cost \in {0, 1}
      BY <2>2
    <3> QED
      BY <3>1, <3>2
  <2>4. Live(o.stmt, o.disconnected, o.con) /\ o.disconnected \in BOOLEAN
    BY <1>1, <1>2, <1>3, <2>2
  <2> QED
    BY <1>1, <1>2, <1>3, <2>2, <2>3, <2>4
<1>9. CASE disconnected /\ Result(o, 1, FALSE, "lost", con + 1, st, 0, 0)
  <2>1. /\ o.code = 1 /\ o.disconnected = FALSE /\ o.errno = "lost" /\ o.con = con + 1
        /\ o.stmt = st /\ o.lost = 0 /\ o.cost = 0
    BY <1>9, Fields
  <2>3. Typed
    BY <1>3, <1>4, <1>9, <2>1
  <2>4. Live(o.stmt, o.disconnected, o.con) /\ o.disconnected \in BOOLEAN
    BY <1>3, <1>4, <1>9, <2>1
  <2> QED
    BY <1>3, <1>4, <1>9, <2>1, <2>3, <2>4
<1>10. CASE disconnected /\ \E e \in {"lost", "other"}, x \in {0, 1} : Result(o, 2, TRUE, e, con, st, 0, x)
  <2>1. PICK e \in {"lost", "other"}, x \in {0, 1} : Result(o, 2, TRUE, e, con, st, 0, x)
    BY <1>10
  <2>2. /\ o.code = 2 /\ o.disconnected = TRUE /\ o.errno = e /\ o.con = con
        /\ o.stmt = st /\ o.lost = 0 /\ o.cost = x
    BY <2>1 DEF Result
  <2>3. Typed
    BY <1>3, <1>4, <1>10, <2>2
  <2>4. Live(o.stmt, o.disconnected, o.con) /\ o.disconnected \in BOOLEAN
    BY <1>3, <1>4, <1>10, <2>2
  <2> QED
    BY <1>3, <1>4, <1>10, <2>2, <2>3, <2>4
<1> QED
  BY <1>5, <1>6, <1>7, <1>8, <1>9, <1>10, FiveOutcomes DEF reset

-----------------------------------------------------------------------------
(* The steps of a query *)

(* The step of a command that comes to o, while nothing freed is in the    *)
(* list but for want of memory.                                            *)
LEMMA CommandMakes ==
  ASSUME ConInv, ~ crashed, NEW o, o.lost \in {0, 1}, o.disconnected \in BOOLEAN, o.errno \in {"lost", "other"},
         o.con \in Nat, Command(o), starved' = starved
  PROVE  /\ disconnected' = o.disconnected /\ errno' = o.errno /\ con' = o.con
         /\ lost' \in Nat /\ lost' = lost + o.lost /\ lost' >= lost
         /\ crashed' \in BOOLEAN /\ NoCrash'
<1>1. lost \in Nat /\ freed \in BOOLEAN /\ (freed => starved)
  BY DEF ConInv, ConTypeOK, LossesKnown
<1>2. /\ disconnected' = o.disconnected /\ errno' = o.errno /\ con' = o.con /\ lost' = lost + o.lost
      /\ crashed' = (freed /\ o.lost > 0)
  BY DEF Command
<1>3. crashed' \in BOOLEAN /\ (crashed' => starved')
  <2>1. CASE freed /\ o.lost > 0
    <3>1. crashed' = TRUE
      BY <1>2, <2>1
    <3> QED
      BY <1>1, <2>1, <3>1
  <2>2. CASE ~ (freed /\ o.lost > 0)
    <3>1. crashed' = FALSE
      BY <1>2, <2>2
    <3> QED
      BY <3>1
  <2> QED
    BY <2>1, <2>2
<1>4. NoCrash'
  BY <1>3 DEF NoCrash
<1>5. lost' \in Nat /\ lost' >= lost
  BY <1>1, <1>2
<1> QED
  BY <1>2, <1>3, <1>4, <1>5

(* A query begins. *)
LEMMA BeginInv == ASSUME ConInv, NEW q \in Queries, Begin(q) PROVE ConInv'
<1> USE DEF ConInv
<1>1. /\ at = "idle" /\ ~ crashed /\ query' = q /\ i' = 1 /\ round' = 0 /\ ran' = 0
      /\ lost' = IF disconnected THEN 1 ELSE 0
      /\ at' = IF stmt[q].is = "none" THEN "prepare" ELSE IF stmt[q].is = "null" THEN "reinit" ELSE "execute"
      /\ UNCHANGED <<disconnected, errno, con, stmt, freed, crashed, starved>>
  BY DEF Begin, Goto
<1>2. stmt[q].is \in {"none", "null", "raw", "ready"}
  BY DEF ConTypeOK, Handles
<1>3. ConTypeOK'
  BY <1>1 DEF ConTypeOK
<1>4. HandlesLive' /\ ToldRight' /\ NoCrash'
  BY <1>1 DEF HandlesLive, ToldRight, NoCrash
<1>5. CountsRight' /\ LossesKnown'
  BY <1>1, <1>2 DEF CountsRight, LossesKnown
<1> QED
  BY <1>3, <1>4, <1>5

(* A query ends, or its connection is where it was. *)
LEMMA Ends ==
  ASSUME ConInv, ConTypeOK', HandlesLive', NoCrash', at' = "idle", ret' = "error",
         ran' <= 1 + lost', freed' => starved'
  PROVE  ConInv'
  BY DEF ConInv, ToldRight, CountsRight, LossesKnown

(* The context of a statement is made and prepared, or not. *)
LEMMA PrepareInv == ASSUME ConInv, get_new_stmt_ctx PROVE ConInv'
<1> USE DEF ConInv
<1>1. PICK o \in Commands(stmt) :
       /\ Command(o)
       /\ \/ o.code = 0 /\ Link(o.stmt, Ready(o.con)) /\ Goto("execute") /\ UNCHANGED <<i, round>>
          \/ o.code = 1 /\ i = 2 /\ Link(o.stmt, Raw) /\ Goto("execute") /\ UNCHANGED <<i, round>>
          \/ o.code = 1 /\ i = 1 /\ i' = 2 /\ stmt' = o.stmt /\ UNCHANGED <<slots, at, ret, round>>
          \/ o.code = 2 /\ stmt' = o.stmt /\ Return("error") /\ UNCHANGED slots
  BY DEF get_new_stmt_ctx
<1>2. at = "prepare" /\ ~ crashed /\ UNCHANGED <<freed, query, ran, starved>>
  BY DEF get_new_stmt_ctx
<1>3. stmt \in [Queries -> Handles] /\ query \in Queries /\ Live(stmt, disconnected, con)
  BY DEF ConTypeOK, HandlesLive, Live
<1>4. /\ o.code \in 0 .. 2 /\ o.disconnected \in BOOLEAN /\ o.errno \in {"lost", "other"} /\ o.con \in Nat
      /\ o.stmt \in [Queries -> Handles] /\ Live(o.stmt, o.disconnected, o.con)
      /\ o.lost \in {0, 1}
      /\ o.code = 0 => ~ disconnected /\ ~ o.disconnected /\ o.con = con /\ o.lost = 0
      /\ o.code = 1 => ~ o.disconnected /\ (disconnected \/ o.lost = 1)
  BY <1>3, Comes
<1>5. /\ disconnected' = o.disconnected /\ errno' = o.errno /\ con' = o.con
      /\ lost' \in Nat /\ lost' = lost + o.lost /\ lost' >= lost
      /\ crashed' \in BOOLEAN /\ NoCrash'
  BY <1>1, <1>2, <1>4, CommandMakes
<1>6. ran <= lost /\ round <= lost /\ ran \in Nat /\ lost \in Nat /\ round \in 0 .. 2 /\ i \in 1 .. 2 /\ (freed => starved)
  BY <1>2 DEF ConTypeOK, CountsRight, LossesKnown
<1>7. \A handle \in Handles : Link(o.stmt, handle) => stmt' \in [Queries -> Handles] /\ stmt'[query] = handle
                                                     /\ \A q \in Queries \ {query} : stmt'[q] = o.stmt[q]
  BY <1>3, <1>4 DEF Link
<1>8. Raw \in Handles /\ Ready(o.con) \in Handles /\ Raw.is = "raw" /\ Ready(o.con).is = "ready" /\ Ready(o.con).con = o.con
  BY <1>4 DEF Raw, Ready, Handles
<1>9. CASE o.code = 0 /\ Link(o.stmt, Ready(o.con)) /\ Goto("execute") /\ UNCHANGED <<i, round>>
  <2>1. at' = "execute" /\ stmt' \in [Queries -> Handles] /\ stmt'[query] = Ready(o.con)
        /\ \A q \in Queries \ {query} : stmt'[q] = o.stmt[q]
    BY <1>7, <1>8, <1>9 DEF Goto
  <2>2. HandlesLive'
    BY <1>4, <1>5, <1>8, <1>9, <2>1 DEF HandlesLive, Live
  <2>3. ConTypeOK'
    BY <1>2, <1>4, <1>5, <1>9, <2>1 DEF ConTypeOK
  <2>4. ToldRight' /\ CountsRight'
    BY <1>2, <1>4, <1>5, <1>6, <1>8, <1>9, <2>1 DEF ToldRight, CountsRight
  <2>5. LossesKnown'
    BY <1>2, <1>4, <1>5, <1>6, <1>8, <1>9, <2>1 DEF LossesKnown
  <2> QED
    BY <1>5, <2>2, <2>3, <2>4, <2>5
<1>10. CASE o.code = 1 /\ i = 2 /\ Link(o.stmt, Raw) /\ Goto("execute") /\ UNCHANGED <<i, round>>
  <2>1. at' = "execute" /\ stmt' \in [Queries -> Handles] /\ stmt'[query] = Raw
        /\ \A q \in Queries \ {query} : stmt'[q] = o.stmt[q]
    BY <1>7, <1>8, <1>10 DEF Goto
  <2>2. HandlesLive'
    BY <1>4, <1>5, <1>8, <2>1 DEF HandlesLive, Live
  <2>3. ConTypeOK'
    BY <1>2, <1>4, <1>5, <1>10, <2>1 DEF ConTypeOK
  <2>4. ToldRight' /\ CountsRight'
    BY <1>2, <1>4, <1>5, <1>6, <1>8, <1>10, <2>1 DEF ToldRight, CountsRight
  <2>5. LossesKnown'
    BY <1>2, <1>4, <1>5, <1>6, <1>8, <1>10, <2>1 DEF LossesKnown
  <2> QED
    BY <1>5, <2>2, <2>3, <2>4, <2>5
<1>11. CASE o.code = 1 /\ i = 1 /\ i' = 2 /\ stmt' = o.stmt /\ UNCHANGED <<slots, at, ret, round>>
  <2>1. HandlesLive' /\ ConTypeOK'
    BY <1>2, <1>4, <1>5, <1>11 DEF ConTypeOK, HandlesLive, Live
  <2>2. ToldRight' /\ CountsRight'
    BY <1>2, <1>4, <1>5, <1>6, <1>11 DEF ToldRight, CountsRight
  <2>3. LossesKnown'
    BY <1>2, <1>4, <1>5, <1>6, <1>11 DEF LossesKnown
  <2> QED
    BY <1>5, <2>1, <2>2, <2>3
<1>12. CASE o.code = 2 /\ stmt' = o.stmt /\ Return("error") /\ UNCHANGED slots
  <2>1. HandlesLive' /\ ConTypeOK' /\ at' = "idle" /\ ret' = "error"
    BY <1>2, <1>4, <1>5, <1>12 DEF ConTypeOK, HandlesLive, Live, Return
  <2>2. ran' <= 1 + lost' /\ (freed' => starved')
    BY <1>2, <1>5, <1>6
  <2> QED
    BY <1>5, <2>1, <2>2, Ends
<1> QED
  BY <1>1, <1>9, <1>10, <1>11, <1>12

(* There was no memory for one. *)
LEMMA NoContextInv == ASSUME ConInv, NoContext PROVE ConInv'
<1> USE DEF ConInv
<1>1. /\ at = "prepare" /\ at' = "idle" /\ ret' = "error" /\ starved' = TRUE
      /\ UNCHANGED <<disconnected, errno, con, lost, crashed, stmt, freed, query, ran, i, round>>
  BY DEF NoContext, NoCommand, Return
<1>2. ConTypeOK' /\ HandlesLive'
  BY <1>1 DEF ConTypeOK, HandlesLive
<1>3. NoCrash' /\ ran' <= 1 + lost' /\ (freed' => starved')
  BY <1>1 DEF NoCrash, CountsRight, ConTypeOK
<1> QED
  BY <1>1, <1>2, <1>3, Ends

(* A new handle is prepared for a statement, or closed again. *)
LEMMA ReinitInv == ASSUME ConInv, re_init_statement PROVE ConInv'
<1> USE DEF ConInv
<1> DEFINE st == [stmt EXCEPT ![query] = Raw]
<1>1. PICK o \in Commands(st) :
        \/ /\ o.code = 0 /\ Command(o)
           /\ stmt' = [o.stmt EXCEPT ![query] = Ready(o.con)]
           /\ Goto(IF round < Rounds THEN "execute" ELSE "executed") /\ UNCHANGED <<i, round>>
        \/ /\ o.code = 1 /\ i = 1 /\ Command(o)
           /\ i' = 2 /\ stmt' = o.stmt /\ UNCHANGED <<at, ret, round>>
        \/ /\ o.code = 2 \/ (o.code = 1 /\ i = 2)
           /\ o.stmt[query] # Null /\ Command(o)
           /\ stmt' = [o.stmt EXCEPT ![query] = Null] /\ Return("error")
        \/ /\ o.code = 2 \/ (o.code = 1 /\ i = 2)
           /\ o.stmt[query] = Null
           /\ crashed' = TRUE /\ lost' = lost + o.lost
           /\ disconnected' = o.disconnected /\ errno' = o.errno /\ con' = o.con
           /\ stmt' = [o.stmt EXCEPT ![query] = Null] /\ Return("error")
  BY DEF re_init_statement
<1>2. at = "reinit" /\ ~ crashed /\ UNCHANGED <<freed, query, ran, starved>>
  BY DEF re_init_statement
<1>3. /\ Raw \in Handles /\ Null \in Handles /\ Raw # Null /\ Raw.is = "raw" /\ Null.is = "null"
  BY DEF Raw, Null, Handles
<1>4. stmt \in [Queries -> Handles] /\ query \in Queries
  BY DEF ConTypeOK
<1>5. st \in [Queries -> Handles] /\ st[query] = Raw /\ \A q \in Queries \ {query} : st[q] = stmt[q]
  BY <1>3, <1>4
<1>6. Live(st, disconnected, con)
  BY <1>3, <1>5 DEF HandlesLive, Live
<1> HIDE DEF st
<1>7. /\ o.code \in 0 .. 2 /\ o.disconnected \in BOOLEAN /\ o.errno \in {"lost", "other"} /\ o.con \in Nat
      /\ o.stmt \in [Queries -> Handles] /\ Live(o.stmt, o.disconnected, o.con)
      /\ o.lost \in {0, 1}
      /\ o.lost = 0 => o.stmt = st
      /\ o.code = 0 => ~ disconnected /\ ~ o.disconnected /\ o.con = con /\ o.lost = 0
      /\ o.code = 1 => ~ o.disconnected /\ (disconnected \/ o.lost = 1)
      /\ o.code = 2 /\ o.lost = 1 => o.disconnected
  BY <1>5, <1>6, Comes
<1>8. Command(o) =>
        /\ disconnected' = o.disconnected /\ errno' = o.errno /\ con' = o.con
        /\ lost' \in Nat /\ lost' = lost + o.lost /\ lost' >= lost
        /\ crashed' \in BOOLEAN /\ NoCrash'
  BY <1>2, <1>7, CommandMakes
<1>9. /\ ran <= lost /\ round <= lost /\ ran \in Nat /\ lost \in Nat /\ round \in 0 .. 2 /\ i \in 1 .. 2
      /\ (freed => starved) /\ (disconnected => lost >= 1) /\ (i = 2 => lost >= 1)
  BY <1>2 DEF ConTypeOK, CountsRight, LossesKnown
<1>10. \A handle \in Handles : stmt' = [o.stmt EXCEPT ![query] = handle] =>
         stmt' \in [Queries -> Handles] /\ stmt'[query] = handle /\ \A q \in Queries \ {query} : stmt'[q] = o.stmt[q]
  BY <1>4, <1>7
<1>11. Ready(o.con) \in Handles /\ Ready(o.con).is = "ready" /\ Ready(o.con).con = o.con
  BY <1>7 DEF Ready, Handles
<1>12. ASSUME o.code = 0, Command(o), stmt' = [o.stmt EXCEPT ![query] = Ready(o.con)],
              Goto(IF round < Rounds THEN "execute" ELSE "executed"), UNCHANGED <<i, round>>
       PROVE  ConInv'
  <2>1. stmt' \in [Queries -> Handles] /\ stmt'[query] = Ready(o.con)
        /\ \A q \in Queries \ {query} : stmt'[q] = o.stmt[q]
    BY <1>10, <1>11, <1>12
  <2>2. at' = IF round < 2 THEN "execute" ELSE "executed"
    BY <1>12 DEF Goto, Rounds
  <2>3. HandlesLive'
    BY <1>7, <1>8, <1>11, <1>12, <2>1 DEF HandlesLive, Live
  <2>4. ConTypeOK'
    BY <1>2, <1>7, <1>8, <1>12, <2>1, <2>2 DEF ConTypeOK
  <2>5. ToldRight' /\ CountsRight'
    BY <1>2, <1>7, <1>8, <1>9, <1>12, <2>2 DEF ToldRight, CountsRight
  <2>6. LossesKnown'
    BY <1>2, <1>7, <1>8, <1>9, <1>11, <1>12, <2>1, <2>2 DEF LossesKnown
  <2> QED
    BY <1>8, <1>12, <2>3, <2>4, <2>5, <2>6
<1>13. ASSUME o.code = 1, i = 1, Command(o), i' = 2, stmt' = o.stmt, UNCHANGED <<at, ret, round>>
       PROVE  ConInv'
  <2>1. HandlesLive' /\ ConTypeOK'
    BY <1>2, <1>7, <1>8, <1>13 DEF ConTypeOK, HandlesLive, Live
  <2>2. ToldRight' /\ CountsRight'
    BY <1>2, <1>8, <1>9, <1>13 DEF ToldRight, CountsRight
  <2>3. lost' >= 1
    BY <1>7, <1>8, <1>9, <1>13
  <2>4. LossesKnown'
    BY <1>2, <1>9, <1>13, <2>3 DEF LossesKnown
  <2> QED
    BY <1>8, <1>13, <2>1, <2>2, <2>4
<1>14. ASSUME o.code = 2 \/ (o.code = 1 /\ i = 2), stmt' = [o.stmt EXCEPT ![query] = Null], Return("error"),
              disconnected' = o.disconnected, errno' = o.errno, con' = o.con, lost' = lost + o.lost,
              crashed' \in BOOLEAN, NoCrash'
       PROVE  ConInv'
  <2>1. stmt' \in [Queries -> Handles] /\ stmt'[query] = Null
        /\ \A q \in Queries \ {query} : stmt'[q] = o.stmt[q]
    BY <1>3, <1>10, <1>14
  <2>2. HandlesLive'
    BY <1>3, <1>7, <1>14, <2>1 DEF HandlesLive, Live
  <2>3. lost' \in Nat /\ lost' >= lost
    BY <1>7, <1>9, <1>14
  <2>4. ConTypeOK' /\ at' = "idle" /\ ret' = "error"
    BY <1>2, <1>7, <1>14, <2>1, <2>3 DEF ConTypeOK, Return
  <2>5. ran' <= 1 + lost'
    <3>1. ran' = ran /\ ran <= lost /\ ran \in Nat /\ lost \in Nat /\ lost' \in Nat /\ lost' >= lost
      BY <1>2, <1>9, <2>3
    <3>2. \A a, b, c \in Nat : a <= b /\ c >= b => a <= 1 + c
      OBVIOUS
    <3> QED
      BY <3>1, <3>2
  <2>6. freed' => starved'
    BY <1>2, <1>9
  <2> QED
    BY <1>14, <2>2, <2>4, <2>5, <2>6, Ends
<1>15. ASSUME o.code = 2 \/ (o.code = 1 /\ i = 2), o.stmt[query] = Null,
              disconnected' = o.disconnected, lost' = lost + o.lost
       PROVE  NoCrash'
  <2>1. o.lost = 1
    BY <1>3, <1>5, <1>7, <1>15
  <2>2. disconnected' \/ lost' >= 2
    BY <1>7, <1>9, <1>15, <2>1
  <2> QED
    BY <2>2 DEF NoCrash
<1> QED
  BY <1>1, <1>8, <1>12, <1>13, <1>14, <1>15

(* There was no memory for the handle. *)
LEMMA NoHandleInv == ASSUME ConInv, NoHandle PROVE ConInv'
<1> USE DEF ConInv
<1>1. /\ at = "reinit" /\ at' = "idle" /\ ret' = "error" /\ starved' = TRUE /\ crashed' = TRUE
      /\ UNCHANGED <<disconnected, errno, con, lost, stmt, freed, query, ran, i, round>>
  BY DEF NoHandle, Return
<1>2. ConTypeOK' /\ HandlesLive'
  BY <1>1 DEF ConTypeOK, HandlesLive
<1>3. NoCrash' /\ ran' <= 1 + lost' /\ (freed' => starved')
  BY <1>1 DEF NoCrash, CountsRight, ConTypeOK
<1> QED
  BY <1>1, <1>2, <1>3, Ends

(* The statement is executed: by the server, which may have done it before *)
(* the connection was lost; or not at all, without a handle.               *)
LEMMA ExecuteInv == ASSUME ConInv, Execute PROVE ConInv'
<1> USE DEF ConInv
<1>1. at = "execute" /\ ~ crashed /\ UNCHANGED <<freed, query, starved>>
  BY DEF Execute
<1>2. stmt[query].is \in {"raw", "ready"} /\ stmt \in [Queries -> Handles] /\ query \in Queries
  BY <1>1 DEF ConTypeOK, LossesKnown
<1>3. Live(stmt, disconnected, con)
  BY DEF HandlesLive, Live
<1>4. /\ ran <= lost /\ round <= lost /\ ran \in Nat /\ lost \in Nat /\ round \in 0 .. 2 /\ i \in 1 .. 2
      /\ (freed => starved)
  BY <1>1 DEF ConTypeOK, CountsRight, LossesKnown
<1>5. CASE stmt[query].is = "raw"
  <2>1. /\ at' = "idle" /\ ret' = "error"
        /\ UNCHANGED <<disconnected, errno, con, lost, crashed, stmt, ran, i, round>>
    BY <1>5 DEF Execute, NoCommand, Return
  <2>2. ConTypeOK' /\ HandlesLive' /\ NoCrash'
    BY <1>1, <2>1 DEF ConTypeOK, HandlesLive, NoCrash
  <2>3. ran' <= 1 + lost'
    BY <1>4, <2>1
  <2>4. freed' => starved'
    BY <1>1, <1>4
  <2> QED
    BY <2>1, <2>2, <2>3, <2>4, Ends
<1>6. CASE stmt[query].is = "ready"
  <2>1. PICK o \in Commands(stmt), done \in 0 .. 1 :
          /\ Command(o) /\ stmt' = o.stmt
          /\ done = 1 => o.code = 0 \/ o.lost > 0
          /\ o.code = 0 => done = 1
          /\ ran' = ran + done
          /\ \/ o.code = 0 /\ Goto("store") /\ UNCHANGED <<i, round>>
             \/ o.code = 2 /\ Return("error")
             \/ o.code = 1 /\ round + 1 <= Rounds /\ round' = round + 1 /\ i' = 1 /\ Goto("reinit")
    BY <1>6 DEF Execute
  <2>2. ~ disconnected
    BY <1>2, <1>6 DEF HandlesLive
  <2>3. /\ o.code \in 0 .. 2 /\ o.disconnected \in BOOLEAN /\ o.errno \in {"lost", "other"} /\ o.con \in Nat
        /\ o.stmt \in [Queries -> Handles] /\ Live(o.stmt, o.disconnected, o.con)
        /\ o.lost \in {0, 1}
        /\ o.code = 1 => ~ o.disconnected /\ (disconnected \/ o.lost = 1)
        /\ o.disconnected => disconnected \/ o.lost = 1
        /\ o.code = 0 => ~ o.disconnected
    BY <1>2, <1>3, Comes
  <2>4. /\ disconnected' = o.disconnected /\ errno' = o.errno /\ con' = o.con
        /\ lost' \in Nat /\ lost' = lost + o.lost /\ lost' >= lost
        /\ crashed' \in BOOLEAN /\ NoCrash'
    BY <1>1, <2>1, <2>3, CommandMakes
  <2>5. HandlesLive'
    BY <2>1, <2>3, <2>4 DEF HandlesLive, Live
  <2>6. ran' \in Nat /\ ran' <= 1 + lost'
    BY <1>4, <2>1, <2>4
  <2>7. freed' => starved'
    BY <1>1, <1>4
  <2>8. CASE o.code = 0 /\ Goto("store") /\ UNCHANGED <<i, round>>
    <3>1. at' = "store" /\ ran' >= 1 /\ ~ disconnected'
      BY <1>4, <2>1, <2>3, <2>4, <2>8 DEF Goto
    <3>2. ConTypeOK'
      BY <1>1, <2>1, <2>3, <2>4, <2>6, <2>8, <3>1 DEF ConTypeOK
    <3>3. ToldRight' /\ CountsRight'
      BY <2>6, <3>1 DEF ToldRight, CountsRight
    <3>4. LossesKnown'
      BY <2>7, <3>1 DEF LossesKnown
    <3> QED
      BY <2>4, <2>5, <3>2, <3>3, <3>4
  <2>9. CASE o.code = 2 /\ Return("error")
    <3>1. at' = "idle" /\ ret' = "error" /\ UNCHANGED <<i, round>>
      BY <2>9 DEF Return
    <3>2. ConTypeOK'
      BY <1>1, <2>1, <2>3, <2>4, <2>6, <3>1 DEF ConTypeOK
    <3> QED
      BY <2>4, <2>5, <2>6, <2>7, <3>1, <3>2, Ends
  <2>10. CASE o.code = 1 /\ round + 1 <= Rounds /\ round' = round + 1 /\ i' = 1 /\ Goto("reinit")
    <3>1. at' = "reinit" /\ ~ disconnected' /\ o.lost = 1
      BY <2>2, <2>3, <2>4, <2>10 DEF Goto
    <3>2. round' \in 0 .. 2 /\ round' <= lost' /\ ran' <= lost'
      BY <1>4, <2>1, <2>4, <2>10, <3>1 DEF Rounds
    <3>3. ConTypeOK'
      BY <1>1, <2>1, <2>3, <2>4, <2>6, <2>10, <3>1, <3>2 DEF ConTypeOK
    <3>4. ToldRight' /\ CountsRight'
      BY <3>1, <3>2 DEF ToldRight, CountsRight
    <3>5. LossesKnown'
      BY <2>7, <2>10, <3>1 DEF LossesKnown
    <3> QED
      BY <2>4, <2>5, <3>3, <3>4, <3>5
  <2> QED
    BY <2>1, <2>8, <2>9, <2>10
<1> QED
  BY <1>2, <1>5, <1>6

(* The last handle is not executed any more. *)
LEMMA NotExecutedInv == ASSUME ConInv, NotExecuted PROVE ConInv'
<1> USE DEF ConInv
<1>1. /\ at = "executed" /\ at' = "idle"
      /\ UNCHANGED <<disconnected, errno, con, stmt, freed, query, ran, lost, crashed, starved, i, round>>
  BY DEF NotExecuted, Return
<1>2. ConTypeOK' /\ HandlesLive' /\ NoCrash' /\ CountsRight' /\ LossesKnown'
  BY <1>1 DEF ConTypeOK, HandlesLive, NoCrash, CountsRight, LossesKnown
<1>3. round = 2 /\ round <= lost /\ ran <= lost /\ lost \in Nat /\ ran \in Nat
  BY <1>1 DEF CountsRight, ConTypeOK
<1>4. ToldRight'
  BY <1>1, <1>3 DEF ToldRight
<1> QED
  BY <1>2, <1>4

(* The rows are stored. *)
LEMMA StoreInv == ASSUME ConInv, Store \/ NoRows PROVE ConInv'
<1> USE DEF ConInv
<1>1. /\ at = "store" /\ at' = "idle"
      /\ UNCHANGED <<disconnected, errno, con, lost, crashed, query, ran, i, round>>
  BY DEF Store, NoRows, NoCommand, Return
<1>2. ran >= 1 /\ ran <= 1 + lost /\ ran \in Nat /\ lost \in Nat
  BY <1>1 DEF CountsRight, ConTypeOK
<1>3. ToldRight' /\ CountsRight'
  BY <1>1, <1>2 DEF ToldRight, CountsRight
<1>4. CASE Store
  <2>1. UNCHANGED <<stmt, freed, starved>>
    BY <1>4 DEF Store
  <2> QED
    BY <1>1, <1>3, <2>1 DEF ConTypeOK, HandlesLive, NoCrash, LossesKnown
<1>5. CASE NoRows
  <2>1. /\ starved' = TRUE /\ freed' = TRUE
        /\ stmt' = [q \in Queries |-> IF Slot[q] = Slot[query] THEN NoCtx ELSE stmt[q]]
    BY <1>5 DEF NoRows
  <2>2. NoCtx \in Handles /\ NoCtx.is = "none"
    BY DEF NoCtx, Handles
  <2>3. stmt' \in [Queries -> Handles] /\ HandlesLive'
    BY <1>1, <2>1, <2>2 DEF ConTypeOK, HandlesLive
  <2> QED
    BY <1>1, <1>3, <2>1, <2>3 DEF ConTypeOK, NoCrash, LossesKnown
<1> QED
  BY <1>4, <1>5

(* A query that is not prepared. *)
LEMMA SubmitQueryInv == ASSUME ConInv, db_mysql_submit_query PROVE ConInv'
<1> USE DEF ConInv
<1>1. PICK o \in Commands(stmt) :
        /\ Command(o) /\ stmt' = o.stmt
        /\ ran' = IF ret' = "ok" THEN 1 ELSE 0
        /\ ret' \in IF o.code = 0 THEN {"ok"} ELSE IF o.code = 1 THEN {"ok", "error"} ELSE {"error"}
  BY DEF db_mysql_submit_query
<1>2. at = "idle" /\ at' = "idle" /\ ~ crashed /\ UNCHANGED <<freed, query, i, round, starved>>
  BY DEF db_mysql_submit_query
<1>3. stmt \in [Queries -> Handles] /\ Live(stmt, disconnected, con)
  BY DEF ConTypeOK, HandlesLive, Live
<1>4. /\ o.disconnected \in BOOLEAN /\ o.errno \in {"lost", "other"} /\ o.con \in Nat
      /\ o.stmt \in [Queries -> Handles] /\ Live(o.stmt, o.disconnected, o.con)
      /\ o.lost \in {0, 1}
  BY <1>3, Comes
<1>5. /\ disconnected' = o.disconnected /\ errno' = o.errno /\ con' = o.con
      /\ lost' \in Nat /\ lost' = lost + o.lost /\ lost' >= lost
      /\ crashed' \in BOOLEAN /\ NoCrash'
  BY <1>1, <1>2, <1>4, CommandMakes
<1>6. HandlesLive'
  BY <1>1, <1>4, <1>5 DEF HandlesLive, Live
<1>7. ran' \in {0, 1} /\ (ret' = "ok" => ran' >= 1)
  BY <1>1
<1>8. ConTypeOK'
  BY <1>1, <1>2, <1>4, <1>5, <1>7 DEF ConTypeOK
<1>9. ToldRight' /\ CountsRight'
  BY <1>2, <1>5, <1>7 DEF ToldRight, CountsRight
<1>10. LossesKnown'
  BY <1>2 DEF LossesKnown
<1> QED
  BY <1>5, <1>6, <1>8, <1>9, <1>10

(* The connection as it is made. *)
LEMMA ConStarts == MySqlInit => ConInv
<1> SUFFICES ASSUME MySqlInit PROVE ConInv
  OBVIOUS
<1>1. (CHOOSE q \in Queries : TRUE) \in Queries
  BY QueriesAssumption
<1>2. stmt \in [Queries -> Handles] /\ \A q \in Queries : stmt[q].is = "none"
  BY DEF MySqlInit, NoCtx, Handles
<1>3. ConTypeOK
  <2>1. query \in Queries
    BY <1>1 DEF MySqlInit
  <2>2. disconnected \in BOOLEAN /\ freed \in BOOLEAN /\ crashed \in BOOLEAN /\ starved \in BOOLEAN
    BY DEF MySqlInit
  <2>3. errno \in {"lost", "other"} /\ at \in {"idle", "prepare", "reinit", "execute", "executed", "store"}
    BY DEF MySqlInit
  <2>4. con \in Nat /\ i \in 1 .. 2 /\ round \in 0 .. 2 /\ ran \in Nat /\ lost \in Nat
    BY DEF MySqlInit
  <2> QED
    BY <1>2, <2>1, <2>2, <2>3, <2>4 DEF ConTypeOK
<1>4. HandlesLive /\ ToldRight /\ NoCrash /\ CountsRight /\ LossesKnown
  BY <1>2 DEF MySqlInit, HandlesLive, ToldRight, NoCrash, CountsRight, LossesKnown
<1> QED
  BY <1>3, <1>4 DEF ConInv

(* Every step keeps it. *)
LEMMA ConKeeps == ConInv /\ [MySqlNext]_mysqlVars => ConInv'
<1> SUFFICES ASSUME ConInv, [MySqlNext]_mysqlVars PROVE ConInv'
  OBVIOUS
<1>1. CASE \E q \in Queries : Begin(q)
  BY <1>1, BeginInv
<1>2. CASE get_new_stmt_ctx
  BY <1>2, PrepareInv
<1>3. CASE NoContext
  BY <1>3, NoContextInv
<1>4. CASE re_init_statement
  BY <1>4, ReinitInv
<1>5. CASE NoHandle
  BY <1>5, NoHandleInv
<1>6. CASE Execute
  BY <1>6, ExecuteInv
<1>7. CASE NotExecuted
  BY <1>7, NotExecutedInv
<1>8. CASE Store \/ NoRows
  BY <1>8, StoreInv
<1>9. CASE db_mysql_submit_query
  BY <1>9, SubmitQueryInv
<1>10. CASE UNCHANGED mysqlVars
  BY <1>10 DEF mysqlVars, ConInv, ConTypeOK, HandlesLive, ToldRight, NoCrash, CountsRight, LossesKnown
<1> QED
  BY <1>1, <1>2, <1>3, <1>4, <1>5, <1>6, <1>7, <1>8, <1>9, <1>10 DEF MySqlNext, db_mysql_do_prepared_query

(* dbase.c: a query is executed again only for a connection that was lost, *)
(* and where it goes on there is a handle, at every step of it: however    *)
(* often the connection is lost, refused or without memory.                *)
THEOREM ConnectionInvariance == MySqlSpec => []ConInv
<1>1. MySqlInit => ConInv
  BY ConStarts
<1>2. ConInv /\ [MySqlNext]_mysqlVars => ConInv'
  BY ConKeeps
<1> QED
  BY <1>1, <1>2, PTL DEF MySqlSpec

(* dbase.c:91, 341, 493: the handles are those of the connection there is, *)
(* a query that succeeds was executed, and no loss but the second under    *)
(* one query does harm.                                                    *)
THEOREM ConnectionRightHolds == MySqlSpec => []ConnectionRight
<1>1. ConInv => ConnectionRight
  BY DEF ConInv, ConnectionRight
<1> QED
  BY <1>1, ConnectionInvariance, PTL

-----------------------------------------------------------------------------
(* The requests of sip_resolvehost *)

AnyRequest ==
  [id : Nat, type : {"NAPTR", "SRV", "A"}, proto : Protos \union {"NONE", "SIP"},
   port : {"none", "given", "SIP_PORT", "SIPS_PORT"} \union Targets, name : Names]

(* The requests of the list are of their own allocation each, and one that *)
(* asks for SRV records says for which protocol.                           *)
ListRight(list, ids, n) ==
  /\ list \in Seq(AnyRequest) /\ n \in Nat
  /\ \A k \in 1 .. Len(list) : list[k].id \in 1 .. n /\ (list[k].type = "SRV" => list[k].proto \in Protos)
  /\ \A k, l \in 1 .. Len(list) : list[k].id = list[l].id => k = l
  /\ ids = { list[k].id : k \in 1 .. Len(list) }

ZoneTyped == zone.naptr.of \in Seq(Protos) /\ \A p \in Protos : zone.srv[p].of \in Seq(Targets)

ResolveInv ==
  /\ call \in EveryCall /\ ZoneTyped
  /\ Refused \/ ListRight(requests, live, made)
  /\ where = "idle" => requests = <<>> /\ live = {} /\ made = 0
  /\ where = "asking" => requests # <<>>

(* As many are live as the list has.                                       *)
LEMMA AsMany ==
  ASSUME NEW list, NEW ids, NEW n, ListRight(list, ids, n)
  PROVE  /\ Cardinality(ids) = Len(list)
         /\ ids = { list[k].id : k \in DOMAIN list }
<1> DEFINE f == [k \in 1 .. Len(list) |-> list[k].id]
<1>1. Len(list) \in Nat /\ DOMAIN list = 1 .. Len(list)
  BY DEF ListRight
<1>2. f \in [1 .. Len(list) -> ids]
  BY DEF ListRight
<1>3. \A k, l \in 1 .. Len(list) : f[k] = f[l] => k = l
  BY DEF ListRight
<1>4. \A x \in ids : \E k \in 1 .. Len(list) : f[k] = x
  BY DEF ListRight
<1> HIDE DEF f
<1>5. f \in Bijection(1 .. Len(list), ids)
  BY <1>2, <1>3, <1>4 DEF Bijection, Injection, Surjection, IsInjective
<1>6. ExistsBijection(1 .. Len(list), ids)
  BY <1>5 DEF ExistsBijection
<1>7. Cardinality(ids) = Len(list)
  BY <1>1, <1>6, FS_CountingElements
<1> QED
  BY <1>1, <1>7 DEF ListRight

(* The first request leaves the list and is freed.                         *)
LEMMA WithoutFirst ==
  ASSUME NEW list, NEW ids, NEW n, ListRight(list, ids, n), list # <<>>
  PROVE  ListRight(Tail(list), ids \ {Head(list).id}, n)
<1>1. /\ list \in Seq(AnyRequest) /\ Len(list) \in Nat \ {0} /\ Head(list) = list[1]
      /\ Tail(list) \in Seq(AnyRequest) /\ Len(Tail(list)) = Len(list) - 1
      /\ \A k \in 1 .. Len(Tail(list)) : k + 1 \in 1 .. Len(list) /\ Tail(list)[k] = list[k + 1]
  BY DEF ListRight
<1> DEFINE rest == Tail(list)
<1> HIDE DEF rest
<1>2. n \in Nat /\ \A k \in 1 .. Len(rest) : rest[k].id \in 1 .. n /\ (rest[k].type = "SRV" => rest[k].proto \in Protos)
  BY <1>1 DEF ListRight, rest
<1>3. \A k, l \in 1 .. Len(rest) : rest[k].id = rest[l].id => k = l
  BY <1>1 DEF ListRight, rest
<1>4. ids \ {Head(list).id} = { rest[k].id : k \in 1 .. Len(rest) }
  <2>1. ASSUME NEW x \in ids \ {Head(list).id} PROVE \E k \in 1 .. Len(rest) : x = rest[k].id
    <3>1. PICK k \in 1 .. Len(list) : x = list[k].id
      BY DEF ListRight
    <3>2. k # 1
      BY <1>1, <2>1, <3>1
    <3>3. k - 1 \in 1 .. Len(rest) /\ rest[k - 1] = list[k]
      BY <1>1, <3>2 DEF rest
    <3> QED
      BY <3>1, <3>3
  <2>2. ASSUME NEW k \in 1 .. Len(rest) PROVE rest[k].id \in ids \ {Head(list).id}
    <3>1. k + 1 \in 1 .. Len(list) /\ rest[k] = list[k + 1] /\ 1 \in 1 .. Len(list) /\ k + 1 # 1
      BY <1>1 DEF rest
    <3>2. list[k + 1].id \in ids /\ list[k + 1].id # list[1].id
      BY <3>1 DEF ListRight
    <3> QED
      BY <1>1, <3>1, <3>2
  <2> QED
    BY <2>1, <2>2
<1> QED
  BY <1>1, <1>2, <1>3, <1>4 DEF ListRight, rest

(* It is changed and stays.                                                *)
LEMMA FirstChanged ==
  ASSUME NEW list, NEW ids, NEW n, ListRight(list, ids, n), list # <<>>,
         NEW r \in AnyRequest, r.id = Head(list).id, r.type = "SRV" => r.proto \in Protos
  PROVE  ListRight(<<r>> \o Tail(list), ids, n)
<1> DEFINE changed == <<r>> \o Tail(list)
<1>1. /\ list \in Seq(AnyRequest) /\ Len(list) \in Nat \ {0} /\ Head(list) = list[1]
      /\ changed \in Seq(AnyRequest) /\ Len(changed) = Len(list) /\ changed[1] = r
      /\ \A k \in 2 .. Len(list) : changed[k] = list[k]
  BY DEF ListRight
<1> HIDE DEF changed
<1>2. \A k \in 1 .. Len(list) : changed[k].id = list[k].id
  BY <1>1
<1>3. n \in Nat /\ \A k \in 1 .. Len(list) : changed[k].id \in 1 .. n
  BY <1>2 DEF ListRight
<1>4. \A k \in 1 .. Len(list) : changed[k].type = "SRV" => changed[k].proto \in Protos
  BY <1>1 DEF ListRight
<1>5. \A k, l \in 1 .. Len(list) : changed[k].id = changed[l].id => k = l
  BY <1>2 DEF ListRight
<1>6. ids = { changed[k].id : k \in 1 .. Len(list) }
  BY <1>2 DEF ListRight
<1>7. ListRight(changed, ids, n)
  BY <1>1, <1>3, <1>4, <1>5, <1>6 DEF ListRight
<1> QED
  BY <1>7 DEF changed

(* New requests come in front of the others.                               *)
LEMMA InFront ==
  ASSUME NEW list, NEW ids, NEW n, ListRight(list, ids, n), NEW rs \in Seq(AnyRequest),
         \A k \in 1 .. Len(rs) : rs[k].id = n + k /\ (rs[k].type = "SRV" => rs[k].proto \in Protos)
  PROVE  ListRight(rs \o list, ids \union (n + 1 .. n + Len(rs)), n + Len(rs))
<1> DEFINE all == rs \o list
<1>1. /\ list \in Seq(AnyRequest) /\ Len(list) \in Nat /\ Len(rs) \in Nat /\ n \in Nat
      /\ all \in Seq(AnyRequest) /\ Len(all) = Len(rs) + Len(list)
      /\ \A k \in 1 .. Len(rs) : all[k] = rs[k]
      /\ \A k \in Len(rs) + 1 .. Len(all) : all[k] = list[k - Len(rs)]
  BY DEF ListRight
<1> HIDE DEF all
<1>2. \A k \in 1 .. Len(rs) : all[k].id = n + k /\ (all[k].type = "SRV" => all[k].proto \in Protos)
  BY <1>1
<1>3. \A k \in Len(rs) + 1 .. Len(all) :
        /\ k - Len(rs) \in 1 .. Len(list) /\ all[k].id = list[k - Len(rs)].id /\ all[k].id \in 1 .. n
        /\ (all[k].type = "SRV" => all[k].proto \in Protos)
  BY <1>1 DEF ListRight
<1>4. \A k \in 1 .. Len(all) : k \in 1 .. Len(rs) \/ k \in Len(rs) + 1 .. Len(all)
  BY <1>1
<1>5. \A k \in 1 .. Len(all) : all[k].id \in 1 .. n + Len(rs) /\ (all[k].type = "SRV" => all[k].proto \in Protos)
  BY <1>1, <1>2, <1>3, <1>4
<1>6. ASSUME NEW k \in 1 .. Len(all), NEW l \in 1 .. Len(all), all[k].id = all[l].id PROVE k = l
  <2>1. CASE k \in 1 .. Len(rs) /\ l \in 1 .. Len(rs)
    BY <1>1, <1>2, <1>6, <2>1
  <2>2. CASE k \in 1 .. Len(rs) /\ l \in Len(rs) + 1 .. Len(all)
    <3>1. all[k].id = n + k /\ all[l].id \in 1 .. n
      BY <1>2, <1>3, <2>2
    <3> QED
      BY <1>1, <1>6, <2>2, <3>1
  <2>3. CASE k \in Len(rs) + 1 .. Len(all) /\ l \in 1 .. Len(rs)
    <3>1. all[l].id = n + l /\ all[k].id \in 1 .. n
      BY <1>2, <1>3, <2>3
    <3> QED
      BY <1>1, <1>6, <2>3, <3>1
  <2>4. CASE k \in Len(rs) + 1 .. Len(all) /\ l \in Len(rs) + 1 .. Len(all)
    <3>1. k - Len(rs) = l - Len(rs)
      <4>1. k - Len(rs) \in 1 .. Len(list) /\ l - Len(rs) \in 1 .. Len(list)
        BY <1>3, <2>4
      <4>2. list[k - Len(rs)].id = list[l - Len(rs)].id
        BY <1>3, <1>6, <2>4
      <4> QED
        BY <4>1, <4>2 DEF ListRight
    <3> QED
      BY <1>1, <3>1
  <2> QED
    BY <1>4, <2>1, <2>2, <2>3, <2>4
<1>7. ids \union (n + 1 .. n + Len(rs)) = { all[k].id : k \in 1 .. Len(all) }
  <2>1. ASSUME NEW x \in ids PROVE \E k \in 1 .. Len(all) : x = all[k].id
    <3>1. PICK k \in 1 .. Len(list) : x = list[k].id
      BY DEF ListRight
    <3>2. k + Len(rs) \in Len(rs) + 1 .. Len(all) /\ (k + Len(rs)) - Len(rs) = k
      BY <1>1
    <3>3. all[k + Len(rs)] = list[k]
      BY <1>1, <3>2
    <3>4. k + Len(rs) \in 1 .. Len(all)
      BY <1>1
    <3> QED
      BY <3>1, <3>3, <3>4
  <2>2. ASSUME NEW x \in n + 1 .. n + Len(rs) PROVE \E k \in 1 .. Len(all) : x = all[k].id
    <3>1. x - n \in 1 .. Len(rs) /\ x - n \in 1 .. Len(all) /\ n + (x - n) = x
      BY <1>1
    <3>2. all[x - n].id = x
      BY <1>2, <3>1
    <3> QED
      BY <3>1, <3>2
  <2>3. ASSUME NEW k \in 1 .. Len(all) PROVE all[k].id \in ids \union (n + 1 .. n + Len(rs))
    <3>1. CASE k \in 1 .. Len(rs)
      BY <1>1, <1>2, <3>1
    <3>2. CASE k \in Len(rs) + 1 .. Len(all)
      BY <1>3, <3>2 DEF ListRight
    <3> QED
      BY <1>4, <3>1, <3>2
  <2> QED
    BY <2>1, <2>2, <2>3
<1>8. n + Len(rs) \in Nat
  BY <1>1
<1>9. ListRight(all, ids \union (n + 1 .. n + Len(rs)), n + Len(rs))
  BY <1>1, <1>5, <1>6, <1>7, <1>8 DEF ListRight
<1> QED
  BY <1>9 DEF all

-----------------------------------------------------------------------------
(* The steps of a call *)

(* A first request is asked for, or the call is refused.                   *)
LEMMA Begins ==
  ASSUME call' \in EveryCall, ZoneTyped', requests = <<>>,
         \/ \E r \in AnyRequest : r.id = 1 /\ (r.type = "SRV" => r.proto \in Protos) /\ Ask(r)
         \/ Refuse(1)
  PROVE  ResolveInv'
<1>1. CASE Refuse(1)
  <2>1. where' = "told" /\ made' = 1 /\ live' = {1} /\ requests' = <<>>
    BY <1>1 DEF Refuse
  <2> QED
    BY <2>1 DEF ResolveInv, Refused
<1>2. ASSUME NEW r \in AnyRequest, r.id = 1, r.type = "SRV" => r.proto \in Protos, Ask(r) PROVE ResolveInv'
  <2>1. where' = "asking" /\ requests' = <<r>> /\ made' = 1 /\ live' = {1}
    BY <1>2 DEF Ask
  <2>2. requests' \in Seq(AnyRequest) /\ Len(requests') = 1 /\ requests'[1] = r /\ requests' # <<>>
    BY <2>1
  <2>3. \A k \in 1 .. 1 : k = 1
    OBVIOUS
  <2>4. \A k \in 1 .. 1 : requests'[k].id \in 1 .. 1 /\ (requests'[k].type = "SRV" => requests'[k].proto \in Protos)
    BY <1>2, <2>2, <2>3
  <2>5. {1} = { requests'[k].id : k \in 1 .. 1 }
    BY <1>2, <2>2, <2>3
  <2>6. ListRight(requests', {1}, 1)
    BY <2>2, <2>3, <2>4, <2>5 DEF ListRight
  <2> QED
    BY <2>1, <2>2, <2>6 DEF ResolveInv
<1> QED
  BY <1>1, <1>2

(* The defaults of a call. *)
LEMMA Defaults ==
  ASSUME NEW sips, NEW proto
  PROVE  /\ DefaultProto(sips) \in {"TLS", "UDP"}
         /\ DefaultPort(proto, sips) \in {"SIP_PORT", "SIPS_PORT"} /\ LongNamePort(sips) \in {"SIP_PORT", "SIPS_PORT"}
  BY DEF DefaultProto, DefaultPort, LongNamePort

(* sip_resolvehost. *)
LEMMA CallKeeps == ASSUME ResolveInv, sip_resolvehost PROVE ResolveInv'
<1>1. requests = <<>> /\ live = {} /\ made = 0
  BY DEF ResolveInv, sip_resolvehost
<1>2. PICK c \in Calls, z \in Zones :
        /\ call' = c /\ zone' = z
        /\ CASE c.ip -> TellAddress(c)
             [] ~ c.ip /\ c.port ->
                  AskA(c, IF c.proto = "NONE" THEN DefaultProto(c.sips) ELSE c.proto, "given")
             [] ~ c.ip /\ ~ c.port /\ c.proto # "NONE" -> AskSrv(c)
             [] OTHER ->
                  IF c.len = "no_dns" THEN Refuse(1)
                  ELSE Ask(Request(1, "NAPTR", "NONE", "none", Domain))
  BY DEF sip_resolvehost
<1>3. /\ c \in EveryCall /\ c.ip \in BOOLEAN /\ c.port \in BOOLEAN
      /\ c.proto \in Protos \union {"NONE", "SIP"} /\ call' \in EveryCall
  BY <1>2, CallsAssumption DEF EveryCall
<1>4. ZoneTyped'
  <2>1. z.naptr \in NaptrAnswers /\ \A p \in Protos : z.srv[p] \in SrvAnswers
    BY DEF Zones
  <2> QED
    BY <1>2, <2>1, AnswersAssumption DEF ZoneTyped
<1> DEFINE Starts == \/ \E r \in AnyRequest : r.id = 1 /\ (r.type = "SRV" => r.proto \in Protos) /\ Ask(r)
                    \/ Refuse(1)
<1>5. ASSUME NEW type \in {"NAPTR", "SRV", "A"}, NEW proto \in Protos \union {"NONE", "SIP"},
             NEW port \in {"none", "given", "SIP_PORT", "SIPS_PORT"}
      PROVE  /\ Request(1, type, proto, port, Domain) \in AnyRequest
             /\ Request(1, type, proto, port, Domain).id = 1
             /\ Request(1, type, proto, port, Domain).type = type
             /\ Request(1, type, proto, port, Domain).proto = proto
  BY DEF Request, AnyRequest, Names
<1>6. ASSUME NEW proto \in Protos \union {"NONE", "SIP"}, NEW port \in {"given", "SIP_PORT", "SIPS_PORT"}, AskA(c, proto, port)
      PROVE  Starts
  <2>1. CASE c.len = "no_dns"
    BY <1>6, <2>1 DEF AskA
  <2>2. CASE c.len # "no_dns"
    <3>1. Ask(Request(1, "A", proto, port, Domain))
      BY <1>6, <2>2 DEF AskA
    <3>2. "A" \in {"NAPTR", "SRV", "A"} /\ port \in {"none", "given", "SIP_PORT", "SIPS_PORT"}
      OBVIOUS
    <3> QED
      BY <1>5, <3>1, <3>2
  <2> QED
    BY <2>1, <2>2
<1>7. CASE c.ip
  <2>1. TellAddress(c)
    BY <1>2, <1>7
  <2>2. where' = "told" /\ UNCHANGED <<requests, live, made>>
    BY <2>1 DEF TellAddress
  <2> QED
    BY <1>3, <1>4, <2>2 DEF ResolveInv, Refused, ListRight
<1>8. CASE ~ c.ip /\ c.port
  <2>1. AskA(c, IF c.proto = "NONE" THEN DefaultProto(c.sips) ELSE c.proto, "given")
    BY <1>2, <1>8
  <2>2. (IF c.proto = "NONE" THEN DefaultProto(c.sips) ELSE c.proto) \in Protos \union {"NONE", "SIP"}
    BY <1>3, Defaults DEF Protos
  <2>3. Starts
    BY <1>6, <2>1, <2>2
  <2> QED
    BY <1>1, <1>3, <1>4, <2>3, Begins
<1>9. CASE ~ c.ip /\ ~ c.port /\ c.proto # "NONE"
  <2>1. AskSrv(c)
    BY <1>2, <1>9
  <2>2. CASE c.sips /\ c.proto = "TLS"
    <3>1. Refuse(1)
      BY <2>1, <2>2 DEF AskSrv
    <3> QED
      BY <1>1, <1>3, <1>4, <3>1, Begins
  <2>3. CASE c.len # "short" /\ ~ (c.sips /\ c.proto = "TLS")
    <3>1. AskA(c, c.proto, LongNamePort(c.sips))
      BY <2>1, <2>3 DEF AskSrv
    <3>2. LongNamePort(c.sips) \in {"given", "SIP_PORT", "SIPS_PORT"}
      BY Defaults
    <3>3. Starts
      BY <1>3, <1>6, <3>1, <3>2
    <3> QED
      BY <1>1, <1>3, <1>4, <3>3, Begins
  <2>4. CASE c.len = "short" /\ ~ (c.sips /\ c.proto = "TLS")
    <3>1. IF c.proto \in Protos \ (Disabled \ {"UDP"})
          THEN Ask(Request(1, "SRV", c.proto, "none", Domain)) ELSE Refuse(1)
      BY <2>1, <2>4 DEF AskSrv
    <3>2. "SRV" \in {"NAPTR", "SRV", "A"} /\ "none" \in {"none", "given", "SIP_PORT", "SIPS_PORT"}
      OBVIOUS
    <3>3. Starts
      BY <1>3, <1>5, <3>1, <3>2
    <3> QED
      BY <1>1, <1>3, <1>4, <3>3, Begins
  <2> QED
    BY <2>2, <2>3, <2>4
<1>10. CASE ~ c.ip /\ ~ c.port /\ c.proto = "NONE"
  <2>1. IF c.len = "no_dns" THEN Refuse(1) ELSE Ask(Request(1, "NAPTR", "NONE", "none", Domain))
    BY <1>2, <1>10
  <2>2. /\ "NAPTR" \in {"NAPTR", "SRV", "A"} /\ "none" \in {"none", "given", "SIP_PORT", "SIPS_PORT"}
        /\ "NONE" \in Protos \union {"NONE", "SIP"}
    OBVIOUS
  <2>3. Starts
    BY <1>5, <2>1, <2>2
  <2> QED
    BY <1>1, <1>3, <1>4, <2>3, Begins
<1> QED
  BY <1>3, <1>7, <1>8, <1>9, <1>10

(* A list that is right goes on, or was the last of it.                    *)
LEMMA GoesOn ==
  ASSUME ResolveInv, UNCHANGED <<call, zone>>, ListRight(requests', live', made'),
         where' = "told" \/ (where' = "asking" /\ requests' # <<>>)
  PROVE  ResolveInv'
  BY DEF ResolveInv, ZoneTyped

(* Of a question that is asked. *)
LEMMA Asked ==
  ASSUME ResolveInv, where = "asking"
  PROVE  /\ requests # <<>> /\ ListRight(requests, live, made)
         /\ req \in AnyRequest /\ (req.type = "SRV" => req.proto \in Protos)
         /\ ListRight(Tail(requests), live \ {req.id}, made)
<1>1. requests # <<>> /\ ListRight(requests, live, made)
  BY DEF ResolveInv, Refused
<1>2. Len(requests) \in Nat \ {0} /\ req = requests[1] /\ req \in AnyRequest /\ 1 \in 1 .. Len(requests)
  BY <1>1 DEF ListRight, req
<1>3. req.type = "SRV" => req.proto \in Protos
  BY <1>1, <1>2 DEF ListRight
<1>4. ListRight(Tail(requests), live \ {Head(requests).id}, made)
  BY <1>1, WithoutFirst
<1> QED
  BY <1>1, <1>2, <1>3, <1>4 DEF req

(* There is nothing for the first request. *)
LEMMA FailOverKeeps == ASSUME ResolveInv, where = "asking", UNCHANGED <<call, zone>>, FailOver PROVE ResolveInv'
<1>1. /\ requests' = Tail(requests) /\ live' = live \ {req.id} /\ made' = made
      /\ where' = "told" \/ (where' = where /\ Tail(requests) # <<>>)
  BY DEF FailOver, SearchAgain, Free
<1>2. ListRight(requests', live', made')
  BY <1>1, Asked
<1> QED
  BY <1>1, <1>2, GoesOn

(* It becomes another. *)
LEMMA ReuseKeeps ==
  ASSUME ResolveInv, where = "asking", UNCHANGED <<call, zone>>,
         NEW r \in AnyRequest, r.id = req.id, r.type = "SRV" => r.proto \in Protos, Reuse(r)
  PROVE  ResolveInv'
<1>1. requests' = <<r>> \o Tail(requests) /\ where' = where /\ live' = live /\ made' = made
  BY DEF Reuse
<1>2. requests # <<>> /\ ListRight(requests, live, made)
  BY Asked
<1>3. ListRight(requests', live', made')
  BY <1>1, <1>2, FirstChanged DEF req
<1>4. requests' # <<>>
  BY <1>1, <1>2 DEF ListRight
<1> QED
  BY <1>1, <1>3, <1>4, GoesOn

(* Records take its place, or as many of them as there is memory for. *)
LEMMA ExpandKeeps ==
  ASSUME ResolveInv, where = "asking", UNCHANGED <<call, zone>>,
         NEW rs \in Seq(AnyRequest), Expand(rs),
         \A k \in 1 .. Len(rs) : rs[k].id = made + k /\ (rs[k].type = "SRV" => rs[k].proto \in Protos)
  PROVE  ResolveInv'
<1>1. ListRight(Tail(requests), live \ {req.id}, made)
  BY Asked
<1>2. CASE /\ SearchAgain(rs \o Tail(requests))
           /\ made' = made + Len(rs)
           /\ live' = (live \ {req.id}) \union (made + 1 .. made + Len(rs))
  <2>1. ListRight(rs \o Tail(requests), live', made')
    BY <1>1, <1>2, InFront
  <2>2. /\ requests' = rs \o Tail(requests)
        /\ where' = "told" \/ (where' = where /\ requests' # <<>>)
    BY <1>2 DEF SearchAgain
  <2> QED
    BY <2>1, <2>2, GoesOn
<1>3. ASSUME NEW k \in 0 .. Len(rs) - 1, requests' = SubSeq(rs, 1, k) \o Tail(requests), made' = made + k,
             live' = (live \ {req.id}) \union (made + 1 .. made + k), where' = "told"
      PROVE  ResolveInv'
  <2> DEFINE front == SubSeq(rs, 1, k)
  <2>1. front \in Seq(AnyRequest) /\ Len(front) = k /\ \A l \in 1 .. k : l \in 1 .. Len(rs) /\ front[l] = rs[l]
    OBVIOUS
  <2> HIDE DEF front
  <2>2. \A l \in 1 .. Len(front) : front[l].id = made + l /\ (front[l].type = "SRV" => front[l].proto \in Protos)
    BY <2>1
  <2>3. ListRight(front \o Tail(requests), (live \ {req.id}) \union (made + 1 .. made + Len(front)), made + Len(front))
    BY <1>1, <2>1, <2>2, InFront
  <2>4. ListRight(requests', live', made')
    BY <1>3, <2>1, <2>3 DEF front
  <2> QED
    BY <1>3, <2>4, GoesOn
<1>4. \/ /\ SearchAgain(rs \o Tail(requests))
         /\ made' = made + Len(rs)
         /\ live' = (live \ {req.id}) \union (made + 1 .. made + Len(rs))
      \/ \E k \in 0 .. Len(rs) - 1 :
           /\ requests' = SubSeq(rs, 1, k) \o Tail(requests)
           /\ made' = made + k
           /\ live' = (live \ {req.id}) \union (made + 1 .. made + k)
           /\ where' = "told"
  BY DEF Expand
<1> QED
  BY <1>2, <1>3, <1>4

(* The requests of records. *)
LEMMA RequestsOf ==
  ASSUME ResolveInv, where = "asking"
  PROVE  /\ \A hosts \in Seq(Targets) :
              LET rs == SrvRequests(hosts)
              IN /\ rs \in Seq(AnyRequest)
                 /\ \A k \in 1 .. Len(rs) : rs[k].id = made + k /\ rs[k].type = "A"
         /\ \A protos \in Seq(Protos) :
              LET rs == NaptrRequests(protos)
              IN /\ rs \in Seq(AnyRequest)
                 /\ \A k \in 1 .. Len(rs) : rs[k].id = made + k /\ rs[k].proto \in Protos
<1>1. made \in Nat /\ req.proto \in Protos \union {"NONE", "SIP"}
  BY Asked DEF ListRight, AnyRequest
<1>2. ASSUME NEW hosts \in Seq(Targets)
      PROVE  /\ SrvRequests(hosts) \in Seq(AnyRequest)
             /\ \A k \in 1 .. Len(SrvRequests(hosts)) :
                  SrvRequests(hosts)[k].id = made + k /\ SrvRequests(hosts)[k].type = "A"
  <2> DEFINE F(k) == Request(made + k, "A", req.proto, hosts[k], hosts[k])
  <2>1. Len(hosts) \in Nat /\ \A k \in 1 .. Len(hosts) : hosts[k] \in Targets
    OBVIOUS
  <2>2. \A k \in 1 .. Len(hosts) : F(k) \in AnyRequest /\ F(k).id = made + k /\ F(k).type = "A"
    BY <1>1, <2>1 DEF Request, AnyRequest, Names
  <2>3. SrvRequests(hosts) = [k \in 1 .. Len(hosts) |-> F(k)]
    BY DEF SrvRequests
  <2> HIDE DEF F
  <2> QED
    BY <2>1, <2>2, <2>3
<1>3. ASSUME NEW protos \in Seq(Protos)
      PROVE  /\ NaptrRequests(protos) \in Seq(AnyRequest)
             /\ \A k \in 1 .. Len(NaptrRequests(protos)) :
                  NaptrRequests(protos)[k].id = made + k /\ NaptrRequests(protos)[k].proto \in Protos
  <2> DEFINE F(k) == Request(made + k, "SRV", protos[k], "none", Domain)
  <2>1. Len(protos) \in Nat /\ \A k \in 1 .. Len(protos) : protos[k] \in Protos
    OBVIOUS
  <2>2. \A k \in 1 .. Len(protos) : F(k) \in AnyRequest /\ F(k).id = made + k /\ F(k).proto \in Protos
    BY <1>1, <2>1 DEF Request, AnyRequest, Names
  <2>3. NaptrRequests(protos) = [k \in 1 .. Len(protos) |-> F(k)]
    BY DEF NaptrRequests
  <2> HIDE DEF F
  <2> QED
    BY <2>1, <2>2, <2>3
<1> QED
  BY <1>2, <1>3

(* A request that becomes one for an address. *)
LEMMA Becomes ==
  ASSUME ResolveInv, where = "asking", NEW proto \in Protos
  PROVE  /\ AsA(proto) \in AnyRequest /\ AsA(proto).id = req.id /\ AsA(proto).type = "A"
         /\ [req EXCEPT !.type = "SRV", !.proto = proto] \in AnyRequest
         /\ [req EXCEPT !.type = "SRV", !.proto = proto].id = req.id
         /\ [req EXCEPT !.type = "SRV", !.proto = proto].proto = proto
<1>1. req \in AnyRequest
  BY Asked
<1>2. DefaultPort(proto, call.sips) \in {"none", "given", "SIP_PORT", "SIPS_PORT"} \union Targets
  BY Defaults
<1> HIDE DEF req
<1>3. AsA(proto) \in AnyRequest /\ AsA(proto).id = req.id /\ AsA(proto).type = "A"
  BY <1>1, <1>2 DEF AsA, AnyRequest
<1>4. /\ [req EXCEPT !.type = "SRV", !.proto = proto] \in AnyRequest
      /\ [req EXCEPT !.type = "SRV", !.proto = proto].id = req.id
      /\ [req EXCEPT !.type = "SRV", !.proto = proto].proto = proto
  BY <1>1 DEF AnyRequest
<1> QED
  BY <1>3, <1>4

(* The answer for an address. *)
LEMMA AresAKeeps == ASSUME ResolveInv, AresA PROVE ResolveInv'
<1>1. where = "asking" /\ UNCHANGED <<call, zone>>
  BY DEF AresA
<1>2. CASE zone.addr[req.name]
  <2>1. requests' = Tail(requests) /\ where' = "told" /\ live' = live \ {req.id} /\ made' = made
    BY <1>2 DEF AresA, Free
  <2>2. ListRight(requests', live', made')
    BY <1>1, <2>1, Asked
  <2> QED
    BY <1>1, <2>1, <2>2, GoesOn
<1>3. CASE ~ zone.addr[req.name]
  BY <1>1, <1>3, FailOverKeeps DEF AresA
<1> QED
  BY <1>2, <1>3

(* The answer with SRV records. *)
LEMMA AresSrvKeeps == ASSUME ResolveInv, AresSrv PROVE ResolveInv'
<1>1. where = "asking" /\ UNCHANGED <<call, zone>> /\ req.type = "SRV"
  BY DEF AresSrv
<1>2. req.proto \in Protos
  BY <1>1, Asked
<1> DEFINE answer == zone.srv[req.proto]
<1>3. CASE answer.is = "fail"
  <2>1. FailOver
    BY <1>3 DEF AresSrv
  <2> QED
    BY <1>1, <2>1, FailOverKeeps
<1>4. CASE answer.is = "nodata"
  <2>1. Reuse(AsA(req.proto))
    BY <1>4 DEF AresSrv
  <2>2. AsA(req.proto) \in AnyRequest /\ AsA(req.proto).id = req.id /\ AsA(req.proto).type = "A"
    BY <1>1, <1>2, Becomes
  <2> QED
    BY <1>1, <2>1, <2>2, ReuseKeeps
<1>5. CASE answer.is \notin {"fail", "nodata"}
  <2> DEFINE rs == SrvRequests(answer.of)
  <2>1. Expand(rs)
    BY <1>5 DEF AresSrv
  <2>2. answer.of \in Seq(Targets)
    BY <1>2 DEF ResolveInv, ZoneTyped
  <2>3. rs \in Seq(AnyRequest) /\ \A k \in 1 .. Len(rs) : rs[k].id = made + k /\ rs[k].type = "A"
    BY <1>1, <2>2, RequestsOf
  <2> HIDE DEF rs
  <2>4. \A k \in 1 .. Len(rs) : rs[k].id = made + k /\ (rs[k].type = "SRV" => rs[k].proto \in Protos)
    BY <2>3
  <2> QED
    BY <1>1, <2>1, <2>3, <2>4, ExpandKeeps
<1> QED
  BY <1>3, <1>4, <1>5

(* The answer with NAPTR records. *)
LEMMA AresNaptrKeeps == ASSUME ResolveInv, AresNaptr PROVE ResolveInv'
<1>1. where = "asking" /\ UNCHANGED <<call, zone>>
  BY DEF AresNaptr
<1> DEFINE proto == DefaultProto(call.sips)
<1>2. proto \in Protos
  BY Defaults DEF Protos
<1>3. CASE zone.naptr.is = "fail"
  <2>1. FailOver
    BY <1>3 DEF AresNaptr
  <2> QED
    BY <1>1, <2>1, FailOverKeeps
<1>4. CASE zone.naptr.is = "nodata"
  <2>1. Reuse(IF CanBeSrv(proto) THEN [req EXCEPT !.type = "SRV", !.proto = proto] ELSE AsA(proto))
    BY <1>4 DEF AresNaptr
  <2> HIDE DEF proto
  <2>2. CASE CanBeSrv(proto)
    <3> DEFINE r == [req EXCEPT !.type = "SRV", !.proto = proto]
    <3>1. Reuse(r)
      BY <2>1, <2>2
    <3>2. r \in AnyRequest /\ r.id = req.id /\ r.proto = proto
      BY <1>1, <1>2, Becomes
    <3> HIDE DEF r
    <3> QED
      BY <1>1, <1>2, <3>1, <3>2, ReuseKeeps
  <2>3. CASE ~ CanBeSrv(proto)
    <3>1. Reuse(AsA(proto))
      BY <2>1, <2>3
    <3>2. AsA(proto) \in AnyRequest /\ AsA(proto).id = req.id /\ AsA(proto).type = "A"
      BY <1>1, <1>2, Becomes
    <3> QED
      BY <1>1, <3>1, <3>2, ReuseKeeps
  <2> QED
    BY <2>2, <2>3
<1>5. CASE zone.naptr.is \notin {"fail", "nodata"}
  <2> DEFINE rs == NaptrRequests(zone.naptr.of)
  <2>1. Expand(rs)
    BY <1>5 DEF AresNaptr
  <2>2. zone.naptr.of \in Seq(Protos)
    BY DEF ResolveInv, ZoneTyped
  <2>3. rs \in Seq(AnyRequest) /\ \A k \in 1 .. Len(rs) : rs[k].id = made + k /\ rs[k].proto \in Protos
    BY <1>1, <2>2, RequestsOf
  <2> HIDE DEF rs
  <2>4. \A k \in 1 .. Len(rs) : rs[k].id = made + k /\ (rs[k].type = "SRV" => rs[k].proto \in Protos)
    BY <2>3
  <2> QED
    BY <1>1, <2>1, <2>3, <2>4, ExpandKeeps
<1> QED
  BY <1>3, <1>4, <1>5

(* The empty list, before a call. *)
LEMMA ResolveStarts == ResolveInit => ResolveInv
<1> SUFFICES ASSUME ResolveInit PROVE ResolveInv
  OBVIOUS
<1>1. call \in EveryCall
  BY DEF ResolveInit, EveryCall, Lengths
<1>2. Fail.of \in Seq(Protos) /\ Fail.of \in Seq(Targets)
  BY DEF Fail
<1>3. ZoneTyped
  BY <1>2 DEF ResolveInit, ZoneTyped
<1>4. where = "idle" /\ requests = <<>> /\ live = {} /\ made = 0
  BY DEF ResolveInit
<1>5. ListRight(<<>>, {}, 0)
  BY DEF ListRight
<1> QED
  BY <1>1, <1>3, <1>4, <1>5 DEF ResolveInv

(* Every step keeps it. *)
LEMMA ResolveKeeps == ResolveInv /\ [ResolveNext]_resolveVars => ResolveInv'
<1> SUFFICES ASSUME ResolveInv, [ResolveNext]_resolveVars PROVE ResolveInv'
  OBVIOUS
<1>1. CASE sip_resolvehost
  BY <1>1, CallKeeps
<1>2. CASE NoMemory
  <2>1. where = "idle" /\ where' = "told" /\ made' = 0 /\ live' = 1 .. 0 /\ requests' = requests
        /\ UNCHANGED <<call, zone>>
    BY <1>2 DEF NoMemory, Refuse
  <2>2. requests' = <<>> /\ live' = {}
    BY <2>1 DEF ResolveInv
  <2>3. ListRight(<<>>, {}, 0)
    BY DEF ListRight
  <2> QED
    BY <2>1, <2>2, <2>3, GoesOn
<1>3. CASE next_he
  <2>1. /\ where = "told" /\ UNCHANGED <<call, zone, requests, live, made>>
        /\ where' = "told" \/ (where' = "asking" /\ requests # <<>>)
    BY <1>3 DEF next_he
  <2>2. Refused' = Refused
    BY <2>1 DEF Refused
  <2>3. ListRight(requests', live', made') = ListRight(requests, live, made)
    BY <2>1
  <2> QED
    BY <2>1, <2>2, <2>3 DEF ResolveInv, ZoneTyped
<1>4. CASE Ares
  BY <1>4, AresAKeeps, AresSrvKeeps, AresNaptrKeeps DEF Ares
<1>5. CASE UNCHANGED resolveVars
  <2>1. UNCHANGED <<call, zone, where, requests, live, made>>
    BY <1>5 DEF resolveVars
  <2>2. Refused' = Refused
    BY <2>1 DEF Refused
  <2>3. ListRight(requests', live', made') = ListRight(requests, live, made)
    BY <2>1
  <2> QED
    BY <2>1, <2>2, <2>3 DEF ResolveInv, ZoneTyped
<1> QED
  BY <1>1, <1>2, <1>3, <1>4, <1>5 DEF ResolveNext

(* sip_resolvehost.c: whatever the DNS answers, and wherever memory runs   *)
(* out, each request of the list has an allocation of its own, and one     *)
(* that asks for SRV records a protocol.                                   *)
THEOREM ResolveInvariance == ResolveSpec => []ResolveInv
<1>1. ResolveInit => ResolveInv
  BY ResolveStarts
<1>2. ResolveInv /\ [ResolveNext]_resolveVars => ResolveInv'
  BY ResolveKeeps
<1> QED
  BY <1>1, <1>2, PTL DEF ResolveSpec

(* No request is freed while it is in the list, freed twice or lost, but   *)
(* the one of a call that is refused.                                      *)
THEOREM ListIsLiveHolds == ResolveSpec => []ListIsLive
<1>1. ResolveInv => ListIsLive
  <2> SUFFICES ASSUME ResolveInv, ~ Refused PROVE ListIsLive
    BY DEF ListIsLive
  <2>1. ListRight(requests, live, made)
    BY DEF ResolveInv
  <2>2. Cardinality(live) = Len(requests) /\ live = { requests[k].id : k \in DOMAIN requests }
    BY <2>1, AsMany
  <2> QED
    BY <2>2 DEF ListIsLive
<1> QED
  BY <1>1, ResolveInvariance, PTL

-----------------------------------------------------------------------------
(* The pools of db_init *)

(* What the URLs are parsed to. *)
Ids == { D!parse_db_url(D!Url(p), b).id : p \in Urls, b \in Budgets }
Pools == [id : Ids, items : Nat]

(* One of them asked the pool of this id for more than its module has. *)
AskedTooMuch(ts, id) == \E t \in ts : t.pool.id = id /\ ~ D!Provides(t.pool.id, t.caps)

(* A pool made with enough memory, for what its module has, is whole. *)
WholeList ==
  failed \/ \A k \in DOMAIN pool_list :
              pool_list[k].items = db_connection_count \/ AskedTooMuch(returned, pool_list[k].id)

PoolInv == /\ pool_list \in Seq(Pools) /\ failed \in BOOLEAN
           /\ D!OnePool /\ WholeList /\ D!PoolsWhole

(* A URL that another is the same as is the same as the other. *)
LEMMA SameBothWays == ASSUME NEW a, NEW b, D!cmp_db_id(a, b) PROVE D!cmp_db_id(b, a)
BY DEF D!cmp_db_id, D!SamePlace, D!strcasecmp

(* A set of natural numbers has a least one. *)
LEMMA LeastOne ==
  ASSUME NEW T \in SUBSET Nat, T # {}
  PROVE  \E x \in T : \A y \in T : y >= x
<1>1. \E x \in T : \A y \in T : ~ (<<y, x>> \in OpToRel(<, Nat))
  BY NatLessThanWellFounded, WFMin
<1>2. PICK x \in T : \A y \in T : ~ (y < x)
  BY <1>1 DEF OpToRel
<1> QED
  BY <1>2

(* A pool in front of the others. *)
LEMMA NewPool ==
  ASSUME NEW S, NEW s \in Seq(S), NEW e \in S
  PROVE  /\ <<e>> \o s \in Seq(S) /\ Len(<<e>> \o s) = Len(s) + 1 /\ Len(s) \in Nat
         /\ (<<e>> \o s)[1] = e
         /\ \A k \in 1 .. Len(s) + 1 : k # 1 => k - 1 \in 1 .. Len(s) /\ (<<e>> \o s)[k] = s[k - 1]
OBVIOUS

(* A pool that is found is one of the list, which stays as it was; a caller *)
(* that asks it for more than there is has itself to blame.                 *)
LEMMA FoundKeeps ==
  ASSUME PoolInv, NEW p \in Urls, NEW caps \in Caps, NEW id \in Ids, D!Found(p, id, caps)
  PROVE  PoolInv'
<1> DEFINE T == D!Matches(id)
           k == CHOOSE j \in T : \A w \in T : w >= j
           r == [parts |-> p, caps |-> caps, pool |-> pool_list[k]]
<1>1. T \in SUBSET Nat /\ T # {} /\ T \subseteq DOMAIN pool_list
  BY DEF D!Matches, D!Found, PoolInv
<1>2. k \in DOMAIN pool_list
  BY <1>1, LeastOne
<1>3. returned' = returned \union {r} /\ UNCHANGED <<pool_list, failed>>
  BY DEF D!Found, D!Return
<1> HIDE DEF k, T
<1>4. \A w : AskedTooMuch(returned, w) => AskedTooMuch(returned', w)
  BY <1>3 DEF AskedTooMuch, D!Provides
<1>5. WholeList'
  BY <1>3, <1>4 DEF PoolInv, WholeList
<1>6. ~ failed => (r.pool.items = db_connection_count /\ D!Provides(r.pool.id, r.caps)) \/ AskedTooMuch(returned', r.pool.id)
  <2>1. ~ failed => r.pool.items = db_connection_count \/ AskedTooMuch(returned, r.pool.id)
    BY <1>2 DEF PoolInv, WholeList
  <2>2. ~ D!Provides(r.pool.id, r.caps) => AskedTooMuch(returned', r.pool.id)
    BY <1>3 DEF AskedTooMuch, D!Provides
  <2> QED
    BY <2>1, <2>2, <1>4
<1>7. D!PoolsWhole'
  BY <1>3, <1>4, <1>6 DEF PoolInv, D!PoolsWhole, AskedTooMuch, D!Provides
<1>8. D!OnePool'
  BY <1>3 DEF PoolInv, D!OnePool, D!cmp_db_id, D!SamePlace, D!strcasecmp
<1> QED
  BY <1>3, <1>5, <1>7, <1>8 DEF PoolInv

(* A pool that is made is in front of those of other URLs. *)
LEMMA MakeKeeps ==
  ASSUME PoolInv, db_connection_count \in Nat,
         NEW p \in Urls, NEW caps \in Caps, NEW id \in Ids, D!Make(p, id, caps)
  PROVE  PoolInv'
<1>1. \A j \in 1 .. Len(pool_list) : ~ D!cmp_db_id(pool_list[j].id, id) /\ ~ D!cmp_db_id(id, pool_list[j].id)
  BY SameBothWays DEF D!Make, D!Matches
<1>2. ASSUME NEW n \in 0 .. db_connection_count, NEW pool,
             pool = [id |-> id, items |-> D!Connections(id, caps, n)],
             pool_list' = <<pool>> \o pool_list, D!Return(p, caps, pool),
             failed' = (failed \/ n < db_connection_count)
      PROVE  PoolInv'
  <2> DEFINE r == [parts |-> p, caps |-> caps, pool |-> pool]
  <2>1. pool \in Pools /\ pool.id = id /\ pool.items = D!Connections(id, caps, n)
    BY <1>2 DEF Pools, D!Connections
  <2>2. /\ pool_list' \in Seq(Pools) /\ Len(pool_list') = Len(pool_list) + 1 /\ Len(pool_list) \in Nat
        /\ pool_list'[1] = pool
        /\ \A k \in 1 .. Len(pool_list) + 1 : k # 1 => k - 1 \in 1 .. Len(pool_list) /\ pool_list'[k] = pool_list[k - 1]
    BY <1>2, <2>1, NewPool DEF PoolInv
  <2>3. returned' = returned \union {r}
    BY <1>2 DEF D!Return
  <2>4. \A w : AskedTooMuch(returned, w) => AskedTooMuch(returned', w)
    BY <2>3 DEF AskedTooMuch, D!Provides
  <2>5. ~ failed' => /\ ~ failed
                     /\ (pool.items = db_connection_count /\ D!Provides(id, caps)) \/ AskedTooMuch(returned', id)
    <3>1. CASE D!Provides(id, caps)
      <4>1. pool.items = n
        BY <3>1, <2>1 DEF D!Connections
      <4>2. ~ failed' => ~ failed /\ ~ (n < db_connection_count)
        BY <1>2
      <4>3. ~ (n < db_connection_count) => n = db_connection_count
        OBVIOUS
      <4> QED
        BY <3>1, <4>1, <4>2, <4>3
    <3>2. CASE ~ D!Provides(id, caps)
      <4>1. AskedTooMuch(returned', id)
        <5>1. r \in returned' /\ r.pool.id = id /\ r.caps = caps
          BY <2>1, <2>3
        <5> HIDE DEF r
        <5> QED
          BY <3>2, <5>1 DEF AskedTooMuch
      <4> QED
        BY <4>1, <1>2 DEF PoolInv
    <3> QED
      BY <3>1, <3>2
  <2>6. WholeList'
    BY <2>1, <2>2, <2>4, <2>5 DEF PoolInv, WholeList
  <2>7. D!PoolsWhole'
    BY <2>1, <2>3, <2>4, <2>5 DEF PoolInv, D!PoolsWhole, AskedTooMuch, D!Provides
  <2>8. D!OnePool'
    <3> SUFFICES ASSUME NEW j \in 1 .. Len(pool_list'), NEW k \in 1 .. Len(pool_list'), j # k
                 PROVE  ~ D!cmp_db_id(pool_list'[j].id, pool_list'[k].id)
      BY DEF D!OnePool, D!cmp_db_id, D!SamePlace, D!strcasecmp
    <3>1. CASE j # 1 /\ k # 1
      <4>1. /\ j - 1 \in 1 .. Len(pool_list) /\ k - 1 \in 1 .. Len(pool_list) /\ j - 1 # k - 1
            /\ pool_list'[j] = pool_list[j - 1] /\ pool_list'[k] = pool_list[k - 1]
        BY <3>1, <2>2
      <4>2. ~ D!cmp_db_id(pool_list[j - 1].id, pool_list[k - 1].id)
        BY <4>1 DEF PoolInv, D!OnePool
      <4> QED
        BY <4>1, <4>2
    <3>2. CASE j = 1 \/ k = 1
      BY <3>2, <1>1, <2>1, <2>2
    <3> QED
      BY <3>1, <3>2
  <2> QED
    BY <1>2, <2>2, <2>6, <2>7, <2>8 DEF PoolInv
<1>3. ASSUME failed' = TRUE, UNCHANGED pool_list PROVE PoolInv'
  BY <1>3 DEF PoolInv, WholeList, D!PoolsWhole, D!OnePool, D!cmp_db_id, D!SamePlace, D!strcasecmp
<1> QED
  BY <1>2, <1>3 DEF D!Make

(* db_to_user.c: a URL has one pool; and a caller gets it whole, unless     *)
(* there was no memory for it or someone asked for more than its module has. *)
THEOREM PoolsHold ==
  ASSUME db_connection_count \in Nat
  PROVE  D!Spec => [](D!OnePool /\ D!PoolsWhole)
<1>1. D!Init => PoolInv
  <2> SUFFICES ASSUME D!Init PROVE PoolInv
    OBVIOUS
  <2>1. pool_list \in Seq(Pools) /\ Len(pool_list) = 0 /\ returned = {} /\ failed = FALSE
    BY DEF D!Init
  <2>2. D!OnePool /\ D!PoolsWhole
    BY <2>1 DEF D!OnePool, D!PoolsWhole
  <2>3. WholeList
    BY <2>1 DEF WholeList
  <2> QED
    BY <2>1, <2>2, <2>3 DEF PoolInv
<1>2. PoolInv /\ [D!Next]_(D!initVars) => PoolInv'
  <2> SUFFICES ASSUME PoolInv, [D!Next]_(D!initVars) PROVE PoolInv'
    OBVIOUS
  <2>1. CASE UNCHANGED <<pool_list, returned, failed>>
    BY <2>1 DEF PoolInv, WholeList, AskedTooMuch, D!PoolsWhole, D!Provides, D!OnePool, D!cmp_db_id, D!SamePlace, D!strcasecmp
  <2>2. ASSUME NEW p \in Urls, NEW caps \in Caps, NEW id \in Ids, D!Crash(id) \/ D!Found(p, id, caps) \/ D!Make(p, id, caps)
        PROVE  PoolInv'
    BY <2>1, <2>2, FoundKeeps, MakeKeeps DEF D!Crash
  <2>3. CASE D!db_init
    BY <2>2, <2>3 DEF D!db_init, Ids
  <2> QED
    BY <2>1, <2>3 DEF D!Next, D!BadUrl, D!initVars
<1>3. PoolInv => D!OnePool /\ D!PoolsWhole
  BY DEF PoolInv
<1> QED
  BY <1>1, <1>2, <1>3, PTL DEF D!Spec
-----------------------------------------------------------------------------
(* The heap of q_malloc *)

(* What FRAG_OVERHEAD and QM_MALLOC_OPTIMIZE are: numbers, and a fragment    *)
(* has a header.                                                            *)
HeapUnits == FRAG_OVERHEAD \in Nat \ {0} /\ Q!QM_MALLOC_OPTIMIZE \in Nat

(* A heap. *)
Frags == UNION { [fs -> [size : Nat, free : BOOLEAN]] : fs \in SUBSET Nat }
Hashes == UNION { [H -> [list : Seq(Nat), no : Int]] : H \in SUBSET Nat }
Heaps == [size : Nat, used : Int, real_used : Int, join : BOOLEAN, frag : Frags, free_hash : Hashes]

(* The fragments lie one behind the other up to the end of the heap, and    *)
(* none reaches into another.                                               *)
End(frag, f) == f + frag[f].size + FRAG_OVERHEAD
Laid(frag, size) ==
  /\ 0 \in DOMAIN frag
  /\ \A f \in DOMAIN frag : End(frag, f) <= size /\ (End(frag, f) \in DOMAIN frag \/ End(frag, f) = size)
  /\ \A f, g \in DOMAIN frag : f < g => End(frag, f) <= g

(* The lists hold free fragments, each of them in one list, once.           *)
Elems(s) == { s[w] : w \in DOMAIN s }
Once(s) == \A w, j \in DOMAIN s : s[w] = s[j] => w = j
FreeOf(frag) == { f \in DOMAIN frag : frag[f].free }
ListInv(frag, hash) ==
  /\ \A h \in DOMAIN hash : Once(hash[h].list) /\ Elems(hash[h].list) \subseteq FreeOf(frag)
  /\ \A h, g \in DOMAIN hash : h # g => \A x \in Elems(hash[h].list) : x \notin Elems(hash[g].list)

HeapInv(qm) == qm \in Heaps /\ Laid(qm.frag, qm.size) /\ ListInv(qm.frag, qm.free_hash)
Unlisted(hash, f) == \A h \in DOMAIN hash : f \notin Elems(hash[h].list)

(* A fragment has a size and is free or not. *)
LEMMA FragTyped ==
  ASSUME NEW frag \in Frags
  PROVE  /\ DOMAIN frag \in SUBSET Nat
         /\ \A f \in DOMAIN frag : frag[f].size \in Nat /\ frag[f].free \in BOOLEAN
         /\ frag = [f \in DOMAIN frag |-> frag[f]]
BY DEF Frags

(* A bucket has a list of fragments and a counter. *)
LEMMA HashTyped ==
  ASSUME NEW hash \in Hashes
  PROVE  /\ DOMAIN hash \in SUBSET Nat
         /\ \A h \in DOMAIN hash : hash[h] \in [list : Seq(Nat), no : Int]
         /\ hash = [h \in DOMAIN hash |-> hash[h]]
BY DEF Hashes

(* A heap whose fragments are replaced is a heap. *)
LEMMA FragSet ==
  ASSUME NEW qm \in Heaps, NEW frag \in Frags
  PROVE  LET q == [qm EXCEPT !.frag = frag] IN
         q \in Heaps /\ q.frag = frag /\ q.free_hash = qm.free_hash /\ q.size = qm.size /\ q.join = qm.join
BY DEF Heaps
(* A heap whose lists are replaced is a heap. *)
LEMMA HashSet ==
  ASSUME NEW qm \in Heaps, NEW hash \in Hashes
  PROVE  LET q == [qm EXCEPT !.free_hash = hash] IN
         q \in Heaps /\ q.free_hash = hash /\ q.frag = qm.frag /\ q.size = qm.size /\ q.join = qm.join
BY DEF Heaps

(* A function to sizes is fragments. *)
LEMMA FragMade == ASSUME NEW fs \in SUBSET Nat, NEW frag \in [fs -> [size : Nat, free : BOOLEAN]] PROVE frag \in Frags
BY DEF Frags
(* A function to lists is buckets. *)
LEMMA HashMade == ASSUME NEW fs \in SUBSET Nat, NEW hash \in [fs -> [list : Seq(Nat), no : Int]] PROVE hash \in Hashes
BY DEF Hashes

(* A bucket with another counter or another list is a bucket. *)
LEMMA BucketOf ==
  ASSUME NEW b \in [list : Seq(Nat), no : Int], NEW n \in Int, NEW s \in Seq(Nat)
  PROVE  /\ b.list \in Seq(Nat) /\ b.no \in Int
         /\ [b EXCEPT !.no = n] \in [list : Seq(Nat), no : Int] /\ [b EXCEPT !.no = n].list = b.list
         /\ [b EXCEPT !.list = s] \in [list : Seq(Nat), no : Int] /\ [b EXCEPT !.list = s].list = s
OBVIOUS

(* Only the counter of a bucket differs. *)
LEMMA CountFields ==
  ASSUME NEW qm \in Heaps, NEW h, NEW n \in Int
  PROVE  LET q == Q!Counted(qm, h, n) IN
         /\ q \in Heaps /\ q.frag = qm.frag /\ q.size = qm.size /\ q.join = qm.join
         /\ DOMAIN q.free_hash = DOMAIN qm.free_hash
         /\ \A g \in DOMAIN q.free_hash : q.free_hash[g].list = qm.free_hash[g].list
<1>1. qm.free_hash \in Hashes /\ qm.frag \in Frags
  BY DEF Heaps
<1> DEFINE new == [qm.free_hash EXCEPT ![h] = [qm.free_hash[h] EXCEPT !.no = qm.free_hash[h].no + n]]
<1>2. Q!Counted(qm, h, n) = [qm EXCEPT !.free_hash = new]
  BY DEF Q!Counted, Heaps
<1>3. /\ new \in Hashes /\ DOMAIN new = DOMAIN qm.free_hash
      /\ \A g \in DOMAIN new : new[g].list = qm.free_hash[g].list
  <2>1. ASSUME h \in DOMAIN qm.free_hash
        PROVE  /\ new[h] \in [list : Seq(Nat), no : Int] /\ new[h].list = qm.free_hash[h].list
    <3> DEFINE b == qm.free_hash[h]
    <3>1. b \in [list : Seq(Nat), no : Int]
      BY <1>1, <2>1, HashTyped
    <3>2. new[h] = [b EXCEPT !.no = b.no + n]
      BY <2>1
    <3> HIDE DEF b, new
    <3>3. b.no + n \in Int
      BY <3>1
    <3> QED
      BY <3>1, <3>2, <3>3, BucketOf DEF b
  <2>2. DOMAIN new = DOMAIN qm.free_hash /\ \A g \in DOMAIN new : g # h => new[g] = qm.free_hash[g]
    OBVIOUS
  <2>3. new \in [DOMAIN qm.free_hash -> [list : Seq(Nat), no : Int]]
    BY <1>1, <2>1, <2>2, HashTyped
  <2> QED
    BY <1>1, <2>1, <2>2, <2>3, HashTyped, HashMade
<1> HIDE DEF new
<1> QED
  BY <1>1, <1>2, <1>3 DEF Heaps

(* Only real_used differs. *)
LEMMA UsesFields ==
  ASSUME NEW qm \in Heaps, NEW n \in Int
  PROVE  /\ Q!Uses(qm, n) \in Heaps /\ Q!Uses(qm, n).frag = qm.frag /\ Q!Uses(qm, n).free_hash = qm.free_hash
         /\ Q!Uses(qm, n).size = qm.size /\ Q!Uses(qm, n).join = qm.join
BY DEF Q!Uses, Heaps
(* Only used and real_used differ. *)
LEMMA TakesFields ==
  ASSUME NEW qm \in Heaps, NEW n \in Int
  PROVE  /\ Q!Takes(qm, n) \in Heaps /\ Q!Takes(qm, n).frag = qm.frag /\ Q!Takes(qm, n).free_hash = qm.free_hash
         /\ Q!Takes(qm, n).size = qm.size /\ Q!Takes(qm, n).join = qm.join
<1>1. Q!Takes(qm, n) = [Q!Uses(qm, n) EXCEPT !.used = Q!Uses(qm, n).used + n]
  BY DEF Q!Takes
<1>2. ASSUME NEW q \in Heaps
      PROVE  LET x == [q EXCEPT !.used = q.used + n] IN
             x \in Heaps /\ x.frag = q.frag /\ x.free_hash = q.free_hash /\ x.size = q.size /\ x.join = q.join
  BY DEF Heaps
<1> QED
  BY <1>1, <1>2, UsesFields

(* The least number of a set is one of it, and least. *)
LEMMA MinOf == ASSUME NEW T \in SUBSET Nat, T # {} PROVE Q!Min(T) \in T /\ \A y \in T : Q!Min(T) <= y
<1>1. \E x \in T : \A y \in T : x <= y
  BY LeastOne
<1> QED
  BY <1>1 DEF Q!Min

FragBlock == [size : Nat, free : BOOLEAN]

(* Only whether the fragment is free differs. *)
LEMMA MarkedFields ==
  ASSUME NEW qm \in Heaps, NEW f \in DOMAIN qm.frag, NEW b \in BOOLEAN
  PROVE  LET q == Q!Marked(qm, f, b) IN
         /\ q \in Heaps /\ q.free_hash = qm.free_hash /\ q.size = qm.size /\ q.join = qm.join
         /\ DOMAIN q.frag = DOMAIN qm.frag
         /\ q.frag[f].free = b /\ q.frag[f].size = qm.frag[f].size
         /\ \A x \in DOMAIN qm.frag : x # f => q.frag[x] = qm.frag[x]
<1> DEFINE o == qm.frag[f]
           new == [qm.frag EXCEPT ![f] = [o EXCEPT !.free = b]]
<1>1. qm.frag \in Frags
  BY DEF Heaps
<1>2. Q!Marked(qm, f, b) = [qm EXCEPT !.frag = new]
  BY DEF Q!Marked, Heaps
<1>3. o \in FragBlock /\ DOMAIN qm.frag \in SUBSET Nat
  BY <1>1 DEF Frags, FragBlock
<1>4. [o EXCEPT !.free = b] \in FragBlock /\ [o EXCEPT !.free = b].free = b /\ [o EXCEPT !.free = b].size = o.size
  BY <1>3 DEF FragBlock
<1>5. /\ DOMAIN new = DOMAIN qm.frag /\ new[f] = [o EXCEPT !.free = b]
      /\ \A x \in DOMAIN qm.frag : x # f => new[x] = qm.frag[x]
  OBVIOUS
<1>6. \A x \in DOMAIN qm.frag : qm.frag[x] \in FragBlock
  BY <1>1 DEF Frags, FragBlock
<1>7. new \in [DOMAIN qm.frag -> FragBlock]
  BY <1>4, <1>5, <1>6
<1>8. new \in Frags
  BY <1>3, <1>7, FragMade DEF FragBlock
<1>9. new[f].free = b /\ new[f].size = o.size
  BY <1>4, <1>5
<1> DEFINE q == Q!Marked(qm, f, b)
<1> HIDE DEF new
<1>10. q \in Heaps /\ q.frag = new /\ q.free_hash = qm.free_hash /\ q.size = qm.size /\ q.join = qm.join
  BY <1>2, <1>8, FragSet
<1> HIDE DEF q
<1> QED
  BY <1>5, <1>9, <1>10 DEF q

(* Only the size of the fragment differs. *)
LEMMA ResizedFields ==
  ASSUME NEW qm \in Heaps, NEW f \in DOMAIN qm.frag, NEW n \in Nat
  PROVE  LET q == Q!Resized(qm, f, n) IN
         /\ q \in Heaps /\ q.free_hash = qm.free_hash /\ q.size = qm.size /\ q.join = qm.join
         /\ DOMAIN q.frag = DOMAIN qm.frag
         /\ q.frag[f].size = n /\ q.frag[f].free = qm.frag[f].free
         /\ \A x \in DOMAIN qm.frag : x # f => q.frag[x] = qm.frag[x]
<1> DEFINE o == qm.frag[f]
           new == [qm.frag EXCEPT ![f] = [o EXCEPT !.size = n]]
<1>1. qm.frag \in Frags
  BY DEF Heaps
<1>2. Q!Resized(qm, f, n) = [qm EXCEPT !.frag = new]
  BY DEF Q!Resized, Heaps
<1>3. o \in FragBlock /\ DOMAIN qm.frag \in SUBSET Nat
  BY <1>1 DEF Frags, FragBlock
<1>4. [o EXCEPT !.size = n] \in FragBlock /\ [o EXCEPT !.size = n].size = n /\ [o EXCEPT !.size = n].free = o.free
  BY <1>3 DEF FragBlock
<1>5. /\ DOMAIN new = DOMAIN qm.frag /\ new[f] = [o EXCEPT !.size = n]
      /\ \A x \in DOMAIN qm.frag : x # f => new[x] = qm.frag[x]
  OBVIOUS
<1>6. \A x \in DOMAIN qm.frag : qm.frag[x] \in FragBlock
  BY <1>1 DEF Frags, FragBlock
<1>7. new \in [DOMAIN qm.frag -> FragBlock]
  BY <1>4, <1>5, <1>6
<1>8. new \in Frags
  BY <1>3, <1>7, FragMade DEF FragBlock
<1>9. new[f].size = n /\ new[f].free = o.free
  BY <1>4, <1>5
<1> DEFINE q == Q!Resized(qm, f, n)
<1> HIDE DEF new
<1>10. q \in Heaps /\ q.frag = new /\ q.free_hash = qm.free_hash /\ q.size = qm.size /\ q.join = qm.join
  BY <1>2, <1>8, FragSet
<1> HIDE DEF q
<1> QED
  BY <1>5, <1>9, <1>10 DEF q

(* Only the fragment is missing. *)
LEMMA GoneFields ==
  ASSUME NEW qm \in Heaps, NEW f
  PROVE  LET q == Q!Gone(qm, f) IN
         /\ q \in Heaps /\ q.free_hash = qm.free_hash /\ q.size = qm.size /\ q.join = qm.join
         /\ DOMAIN q.frag = DOMAIN qm.frag \ {f}
         /\ \A x \in DOMAIN qm.frag : x # f => q.frag[x] = qm.frag[x]
<1> DEFINE new == [x \in DOMAIN qm.frag \ {f} |-> qm.frag[x]]
<1>1. qm.frag \in Frags
  BY DEF Heaps
<1>2. Q!Gone(qm, f) = [qm EXCEPT !.frag = new]
  BY DEF Q!Gone, Heaps
<1>3. \A x \in DOMAIN qm.frag : x \in Nat /\ qm.frag[x] \in FragBlock
  BY <1>1 DEF Frags, FragBlock
<1>4. DOMAIN qm.frag \ {f} \in SUBSET Nat /\ new \in [DOMAIN qm.frag \ {f} -> FragBlock]
  BY <1>3
<1>5. new \in Frags
  BY <1>4, FragMade DEF FragBlock
<1>6. DOMAIN new = DOMAIN qm.frag \ {f} /\ \A x \in DOMAIN qm.frag : x # f => new[x] = qm.frag[x]
  OBVIOUS
<1> HIDE DEF new
<1> QED
  BY <1>2, <1>5, <1>6, FragSet

(* A fragment cut in two leaves the fragments laid out (q_malloc.c:310). *)
LEMMA SplitLaid ==
  ASSUME HeapUnits, NEW frag \in Frags, NEW size \in Nat, Laid(frag, size), NEW f \in DOMAIN frag, NEW n,
         NEW new \in Frags, DOMAIN new = DOMAIN frag \union {n},
         new[f].size + FRAG_OVERHEAD <= frag[f].size, n = f + new[f].size + FRAG_OVERHEAD,
         new[n].size = frag[f].size - new[f].size - FRAG_OVERHEAD,
         \A x \in DOMAIN frag : x # f => new[x] = frag[x]
  PROVE  Laid(new, size)
<1>1. DOMAIN frag \in SUBSET Nat /\ (\A x \in DOMAIN frag : frag[x].size \in Nat) /\ FRAG_OVERHEAD \in Nat \ {0}
  BY FragTyped DEF HeapUnits
<1> new[f].size \in Nat
  BY FragTyped
<1>2. n \notin DOMAIN frag /\ n > f
  BY <1>1 DEF Laid, End
<1>3. \A x \in DOMAIN frag : x # f => End(new, x) = End(frag, x)
  BY DEF End
<1>4. End(new, f) = n /\ End(new, n) = End(frag, f) /\ n < End(frag, f)
  BY <1>1 DEF End
<1>5. \A x \in DOMAIN frag : End(frag, x) \in Nat
  BY <1>1 DEF End
<1>6. ASSUME NEW x \in DOMAIN new
      PROVE  End(new, x) <= size /\ (End(new, x) \in DOMAIN new \/ End(new, x) = size)
  BY <1>1, <1>2, <1>3, <1>4, <1>5 DEF Laid
<1>7. ASSUME NEW x \in DOMAIN new, NEW g \in DOMAIN new, x < g
      PROVE  End(new, x) <= g
  <2>1. CASE x = f
    BY <1>7, <2>1, <1>1, <1>2, <1>4, <1>5 DEF Laid
  <2>2. CASE x = n
    BY <1>7, <2>2, <1>1, <1>2, <1>4, <1>5 DEF Laid
  <2>3. CASE x # f /\ x # n /\ g # n
    BY <1>7, <2>3, <1>3 DEF Laid
  <2>4. CASE x # f /\ x # n /\ g = n
    BY <1>7, <2>4, <1>1, <1>2, <1>3, <1>4, <1>5 DEF Laid
  <2> QED
    BY <2>1, <2>2, <2>3, <2>4
<1> QED
  BY <1>2, <1>6, <1>7 DEF Laid

(* Two fragments made one leave the fragments laid out (q_malloc.c:456, 573). *)
LEMMA JoinLaid ==
  ASSUME HeapUnits, NEW frag \in Frags, NEW size \in Nat, Laid(frag, size),
         NEW f \in DOMAIN frag, NEW n \in DOMAIN frag, n = End(frag, f),
         NEW new \in Frags, DOMAIN new = DOMAIN frag \ {n},
         new[f].size = frag[f].size + frag[n].size + FRAG_OVERHEAD,
         \A x \in DOMAIN frag : x # f /\ x # n => new[x] = frag[x]
  PROVE  Laid(new, size)
<1>1. DOMAIN frag \in SUBSET Nat /\ (\A x \in DOMAIN frag : frag[x].size \in Nat) /\ FRAG_OVERHEAD \in Nat \ {0}
  BY FragTyped DEF HeapUnits
<1>2. n > f /\ 0 # n
  BY <1>1 DEF End
<1>3. \A x \in DOMAIN frag : x # f /\ x # n => End(new, x) = End(frag, x)
  BY DEF End
<1>4. End(new, f) = End(frag, n) /\ End(frag, n) > n
  BY <1>1 DEF End
<1>5. \A x \in DOMAIN frag : End(frag, x) \in Nat /\ x < End(frag, x)
  BY <1>1 DEF End
<1>6. \A x \in DOMAIN frag : x # f => End(frag, x) # n
  BY <1>1, <1>2, <1>5 DEF Laid
<1>7. ASSUME NEW x \in DOMAIN new
      PROVE  End(new, x) <= size /\ (End(new, x) \in DOMAIN new \/ End(new, x) = size)
  <2>1. CASE x = f
    BY <2>1, <1>1, <1>4, <1>5 DEF Laid
  <2>2. CASE x # f
    BY <2>2, <1>3, <1>6 DEF Laid
  <2> QED
    BY <2>1, <2>2
<1>8. ASSUME NEW x \in DOMAIN new, NEW g \in DOMAIN new, x < g
      PROVE  End(new, x) <= g
  <2>1. CASE x = f
    <3>1. n < g
      BY <1>8, <2>1, <1>1 DEF Laid
    <3> QED
      BY <3>1, <2>1, <1>4 DEF Laid
  <2>2. CASE x # f
    BY <1>8, <2>2, <1>3 DEF Laid
  <2> QED
    BY <2>1, <2>2
<1> QED
  BY <1>2, <1>7, <1>8 DEF Laid

(* Two lists without a common element make one. *)
LEMMA Concatenated ==
  ASSUME NEW s \in Seq(Nat), NEW t \in Seq(Nat)
  PROVE  /\ s \o t \in Seq(Nat) /\ Elems(s \o t) = Elems(s) \union Elems(t)
         /\ Once(s) /\ Once(t) /\ Elems(s) \cap Elems(t) = {} => Once(s \o t)
<1> DEFINE u == s \o t
<1>1. Len(s) \in Nat /\ Len(t) \in Nat /\ DOMAIN s = 1 .. Len(s) /\ DOMAIN t = 1 .. Len(t)
  OBVIOUS
<1>2. u \in Seq(Nat) /\ DOMAIN u = 1 .. Len(s) + Len(t)
  OBVIOUS
<1> HIDE DEF u
<1>3. \A k \in DOMAIN s : k \in DOMAIN u /\ u[k] = s[k]
  BY <1>1, <1>2, ConcatProperties DEF u
<1>4. ASSUME NEW k \in DOMAIN t PROVE k + Len(s) \in DOMAIN u /\ u[k + Len(s)] = t[k]
  <2>1. k + Len(s) \in 1 .. Len(s) + Len(t) /\ ~ (k + Len(s) <= Len(s)) /\ k + Len(s) - Len(s) = k
    BY <1>1
  <2> QED
    BY <2>1, <1>2, ConcatProperties DEF u
<1>5. ASSUME NEW k \in DOMAIN u, k \notin DOMAIN s PROVE k - Len(s) \in DOMAIN t /\ u[k] = t[k - Len(s)]
  <2>1. k - Len(s) \in DOMAIN t /\ (k - Len(s)) + Len(s) = k
    BY <1>1, <1>2, <1>5
  <2> QED
    BY <2>1, <1>4
<1>6. Elems(u) = Elems(s) \union Elems(t)
  <2>1. \A k \in DOMAIN u : u[k] \in Elems(s) \union Elems(t)
    BY <1>3, <1>5 DEF Elems
  <2>2. \A k \in DOMAIN s : s[k] \in Elems(u)
    BY <1>3 DEF Elems
  <2>3. \A k \in DOMAIN t : t[k] \in Elems(u)
    BY <1>4 DEF Elems
  <2> QED
    BY <2>1, <2>2, <2>3 DEF Elems
<1>7. ASSUME Once(s), Once(t), Elems(s) \cap Elems(t) = {} PROVE Once(u)
  <2> SUFFICES ASSUME NEW k \in DOMAIN u, NEW l \in DOMAIN u, u[k] = u[l] PROVE k = l
    BY DEF Once
  <2>1. CASE k \in DOMAIN s /\ l \in DOMAIN s
    BY <2>1, <1>3, <1>7 DEF Once
  <2>2. CASE k \notin DOMAIN s /\ l \notin DOMAIN s
    <3>1. k - Len(s) = l - Len(s)
      BY <2>2, <1>5, <1>7 DEF Once
    <3> QED
      BY <3>1, <1>1, <1>2
  <2>3. ASSUME NEW x \in DOMAIN s, NEW y \in DOMAIN t PROVE s[x] # t[y]
    BY <1>7 DEF Elems
  <2>4. CASE k \in DOMAIN s /\ l \notin DOMAIN s
    BY <2>3, <2>4, <1>3, <1>5
  <2>5. CASE k \notin DOMAIN s /\ l \in DOMAIN s
    BY <2>3, <2>5, <1>3, <1>5
  <2> QED
    BY <2>1, <2>2, <2>4, <2>5
<1> QED
  BY <1>2, <1>6, <1>7 DEF u

(* A part of a list has its elements, once. *)
LEMMA PartOf ==
  ASSUME NEW s \in Seq(Nat), Once(s), NEW m \in Nat \ {0}, NEW n \in Nat, n <= Len(s)
  PROVE  SubSeq(s, m, n) \in Seq(Nat) /\ Once(SubSeq(s, m, n)) /\ Elems(SubSeq(s, m, n)) = { s[k] : k \in m .. n }
<1> DEFINE t == SubSeq(s, m, n)
<1>1. Len(s) \in Nat /\ DOMAIN s = 1 .. Len(s) /\ \A k \in m .. n : k \in DOMAIN s /\ s[k] \in Nat
  OBVIOUS
<1>2. t \in Seq(Nat) /\ Len(t) = (IF m <= n THEN n - m + 1 ELSE 0) /\ \A k \in 1 .. n - m + 1 : t[k] = s[m + k - 1]
  BY <1>1, SubSeqProperties
<1> HIDE DEF t
<1>3. ASSUME NEW k \in DOMAIN t PROVE m + k - 1 \in m .. n /\ t[k] = s[m + k - 1]
  <2>1. k \in 1 .. n - m + 1
    BY <1>2
  <2>2. t[k] = s[m + k - 1]
    BY <2>1, <1>2
  <2>3. m + k - 1 \in m .. n
    BY <2>1
  <2> QED
    BY <2>2, <2>3
<1>4. ASSUME NEW k \in m .. n PROVE k - m + 1 \in DOMAIN t /\ t[k - m + 1] = s[k]
  <2>1. k - m + 1 \in 1 .. n - m + 1 /\ m + (k - m + 1) - 1 = k /\ m <= n
    OBVIOUS
  <2>2. t[k - m + 1] = s[m + (k - m + 1) - 1]
    BY <2>1, <1>2
  <2>3. DOMAIN t = 1 .. n - m + 1
    BY <2>1, <1>2
  <2> QED
    BY <2>1, <2>2, <2>3
<1>5. Once(t)
  <2> SUFFICES ASSUME NEW k \in DOMAIN t, NEW l \in DOMAIN t, t[k] = t[l] PROVE k = l
    BY DEF Once
  <2>1. m + k - 1 = m + l - 1
    BY <1>1, <1>3 DEF Once
  <2>2. k \in Nat /\ l \in Nat
    BY <1>2
  <2> QED
    BY <2>1, <2>2
<1>6. Elems(t) = { s[k] : k \in m .. n }
  <2>1. \A k \in DOMAIN t : t[k] \in { s[l] : l \in m .. n }
    BY <1>3
  <2>2. \A k \in m .. n : s[k] \in Elems(t)
    BY <1>4 DEF Elems
  <2> QED
    BY <2>1, <2>2 DEF Elems
<1> QED
  BY <1>2, <1>5, <1>6 DEF t

(* A list of one. *)
LEMMA OneElem == ASSUME NEW f \in Nat PROVE <<f>> \in Seq(Nat) /\ Once(<<f>>) /\ Elems(<<f>>) = {f}
BY DEF Once, Elems

(* A list with one more. *)
LEMMA Inserted ==
  ASSUME NEW s \in Seq(Nat), Once(s), NEW f \in Nat, f \notin Elems(s), NEW w \in 0 .. Len(s), NEW t,
         t = IF w = 0 THEN Append(s, f) ELSE Q!InsertAt(s, w, f)
  PROVE  t \in Seq(Nat) /\ Once(t) /\ Elems(t) = Elems(s) \union {f}
<1>1. Len(s) \in Nat /\ DOMAIN s = 1 .. Len(s)
  OBVIOUS
<1>2. CASE w = 0
  <2>1. t = s \o <<f>>
    BY <1>2
  <2>2. Elems(s) \cap Elems(<<f>>) = {}
    BY OneElem
  <2> QED
    BY <2>1, <2>2, Concatenated, OneElem
<1>3. CASE w # 0
  <2> DEFINE a == SubSeq(s, 1, w - 1)
             c == SubSeq(s, w, Len(s))
             d == a \o <<f>>
  <2>1. a \in Seq(Nat) /\ Once(a) /\ Elems(a) = { s[k] : k \in 1 .. w - 1 }
    <3>1. 1 \in Nat \ {0} /\ w - 1 \in Nat /\ w - 1 <= Len(s)
      BY <1>1, <1>3
    <3> QED
      BY <3>1, PartOf
  <2>2. c \in Seq(Nat) /\ Once(c) /\ Elems(c) = { s[k] : k \in w .. Len(s) }
    <3>1. w \in Nat \ {0} /\ Len(s) \in Nat /\ Len(s) <= Len(s)
      BY <1>1, <1>3
    <3> QED
      BY <3>1, PartOf
  <2>3. t = d \o c
    BY <1>3 DEF Q!InsertAt
  <2> HIDE DEF a, c
  <2>4. Elems(a) \union Elems(c) = Elems(s)
    <3>1. \A k \in 1 .. Len(s) : k \in 1 .. w - 1 \/ k \in w .. Len(s)
      BY <1>1
    <3>2. \A k \in 1 .. w - 1 : k \in 1 .. Len(s)
      BY <1>1
    <3>3. \A k \in w .. Len(s) : k \in 1 .. Len(s)
      BY <1>1, <1>3
    <3> QED
      BY <1>1, <2>1, <2>2, <3>1, <3>2, <3>3 DEF Elems
  <2>5. Elems(a) \cap Elems(c) = {}
    <3>1. ASSUME NEW k \in 1 .. w - 1, NEW l \in w .. Len(s) PROVE s[k] # s[l]
      BY <1>1, <1>3 DEF Once
    <3> QED
      BY <3>1, <2>1, <2>2
  <2>6. d \in Seq(Nat) /\ Elems(d) = Elems(a) \union {f} /\ Once(d)
    <3>1. Elems(a) \cap Elems(<<f>>) = {}
      BY <2>4, OneElem
    <3>2. <<f>> \in Seq(Nat) /\ Once(<<f>>) /\ Elems(<<f>>) = {f}
      BY OneElem
    <3>3. d \in Seq(Nat) /\ Elems(d) = Elems(a) \union Elems(<<f>>) /\ Once(d)
      BY <3>1, <3>2, <2>1, Concatenated
    <3> HIDE DEF d
    <3> QED
      BY <3>2, <3>3
  <2> HIDE DEF d
  <2>7. Elems(d) \cap Elems(c) = {}
    BY <2>4, <2>5, <2>6
  <2>8. d \o c \in Seq(Nat) /\ Elems(d \o c) = Elems(d) \union Elems(c) /\ Once(d \o c)
    BY <2>2, <2>6, <2>7, Concatenated
  <2> QED
    BY <2>3, <2>4, <2>6, <2>8
<1> QED
  BY <1>2, <1>3

(* A list with one less. *)
LEMMA Removed ==
  ASSUME NEW s \in Seq(Nat), Once(s), NEW f, NEW t, t = Q!RemoveFirst(s, f)
  PROVE  t \in Seq(Nat) /\ Once(t) /\ Elems(t) = Elems(s) \ {f}
<1>1. Len(s) \in Nat /\ DOMAIN s = 1 .. Len(s)
  OBVIOUS
<1>2. CASE ~ \E w \in 1 .. Len(s) : s[w] = f
  <2>1. t = s
    BY <1>2 DEF Q!RemoveFirst
  <2> QED
    BY <1>1, <1>2, <2>1 DEF Elems
<1>3. CASE \E w \in 1 .. Len(s) : s[w] = f
  <2>1. PICK w \in 1 .. Len(s) : s[w] = f
    BY <1>3
  <2>2. \A k \in DOMAIN s : s[k] = f => k = w
    BY <1>1, <2>1 DEF Once
  <2> DEFINE I == { k \in 1 .. Len(s) : s[k] = f }
  <2>3. Q!SelectInSeq(s, LAMBDA v : v = f) = IF I # {} THEN Q!Min(I) ELSE 0
    BY DEF Q!SelectInSeq
  <2>4. I = {w}
    BY <1>1, <2>1, <2>2
  <2>5. Q!Min({w}) = w
    <3>1. {w} \in SUBSET Nat /\ {w} # {}
      OBVIOUS
    <3> QED
      BY <3>1, MinOf
  <2>6. t = Q!RemoveAt(s, w)
    BY <1>3, <2>3, <2>4, <2>5 DEF Q!RemoveFirst
  <2> DEFINE a == SubSeq(s, 1, w - 1)
             c == SubSeq(s, w + 1, Len(s))
  <2>7. a \in Seq(Nat) /\ Once(a) /\ Elems(a) = { s[k] : k \in 1 .. w - 1 }
    <3>1. 1 \in Nat \ {0} /\ w - 1 \in Nat /\ w - 1 <= Len(s)
      BY <1>1
    <3> QED
      BY <3>1, PartOf
  <2>8. c \in Seq(Nat) /\ Once(c) /\ Elems(c) = { s[k] : k \in w + 1 .. Len(s) }
    <3>1. w + 1 \in Nat \ {0} /\ Len(s) \in Nat /\ Len(s) <= Len(s)
      BY <1>1
    <3> QED
      BY <3>1, PartOf
  <2>9. t = a \o c
    BY <2>6 DEF Q!RemoveAt
  <2> HIDE DEF a, c
  <2>10. Elems(a) \union Elems(c) = Elems(s) \ {f}
    <3>1. \A k \in 1 .. Len(s) : k = w \/ k \in 1 .. w - 1 \/ k \in w + 1 .. Len(s)
      BY <1>1
    <3>2. \A k \in 1 .. w - 1 : k \in 1 .. Len(s) /\ k # w
      BY <1>1
    <3>3. \A k \in w + 1 .. Len(s) : k \in 1 .. Len(s) /\ k # w
      BY <1>1
    <3> QED
      BY <1>1, <2>1, <2>2, <2>7, <2>8, <3>1, <3>2, <3>3 DEF Elems
  <2>11. Elems(a) \cap Elems(c) = {}
    <3>1. ASSUME NEW k \in 1 .. w - 1, NEW l \in w + 1 .. Len(s) PROVE s[k] # s[l]
      BY <1>1 DEF Once
    <3> QED
      BY <3>1, <2>7, <2>8
  <2>12. a \o c \in Seq(Nat) /\ Elems(a \o c) = Elems(a) \union Elems(c) /\ Once(a \o c)
    BY <2>7, <2>8, <2>11, Concatenated
  <2> QED
    BY <2>9, <2>10, <2>12
<1> QED
  BY <1>2, <1>3

(* Heaps that differ in their counters only. *)
SameRest(qm, q) == q.size = qm.size /\ q.join = qm.join
SameFree(qm, q) == \A x : Unlisted(qm.free_hash, x) => Unlisted(q.free_hash, x)

(* A counter of a bucket changes nothing of the fragments. *)
LEMMA CountKeeps ==
  ASSUME NEW qm, HeapInv(qm), NEW h, NEW n \in Int
  PROVE  LET q == Q!Counted(qm, h, n) IN HeapInv(q) /\ q.frag = qm.frag /\ SameRest(qm, q) /\ SameFree(qm, q)
<1> DEFINE q == Q!Counted(qm, h, n)
<1>1. /\ q \in Heaps /\ q.frag = qm.frag /\ q.size = qm.size /\ q.join = qm.join
      /\ DOMAIN q.free_hash = DOMAIN qm.free_hash
      /\ \A g \in DOMAIN q.free_hash : q.free_hash[g].list = qm.free_hash[g].list
  BY CountFields DEF HeapInv
<1> HIDE DEF q
<1> QED
  BY <1>1 DEF HeapInv, ListInv, SameRest, SameFree, Unlisted, q

(* Nor does real_used. *)
LEMMA UsesKeeps ==
  ASSUME NEW qm, HeapInv(qm), NEW n \in Int
  PROVE  LET q == Q!Uses(qm, n) IN HeapInv(q) /\ q.frag = qm.frag /\ SameRest(qm, q) /\ SameFree(qm, q)
<1> DEFINE q == Q!Uses(qm, n)
<1>1. q \in Heaps /\ q.frag = qm.frag /\ q.size = qm.size /\ q.join = qm.join /\ q.free_hash = qm.free_hash
  BY UsesFields DEF HeapInv
<1> HIDE DEF q
<1> QED
  BY <1>1 DEF HeapInv, SameRest, SameFree, q

(* Nor do used and real_used. *)
LEMMA TakesKeeps ==
  ASSUME NEW qm, HeapInv(qm), NEW n \in Int
  PROVE  LET q == Q!Takes(qm, n) IN HeapInv(q) /\ q.frag = qm.frag /\ SameRest(qm, q) /\ SameFree(qm, q)
<1> DEFINE q == Q!Takes(qm, n)
<1>1. q \in Heaps /\ q.frag = qm.frag /\ q.size = qm.size /\ q.join = qm.join /\ q.free_hash = qm.free_hash
  BY TakesFields DEF HeapInv
<1> HIDE DEF q
<1> QED
  BY <1>1 DEF HeapInv, SameRest, SameFree, q

(* A fragment that is in no list is put into one. *)
LEMMA InsertKeeps ==
  ASSUME NEW qm, HeapInv(qm), NEW f \in DOMAIN qm.frag, Unlisted(qm.free_hash, f)
  PROVE  LET q == Q!qm_insert_free(qm, f) IN
         /\ HeapInv(q) /\ SameRest(qm, q) /\ DOMAIN q.frag = DOMAIN qm.frag
         /\ q.frag[f].free /\ q.frag[f].size = qm.frag[f].size
         /\ \A x \in DOMAIN qm.frag : x # f => q.frag[x] = qm.frag[x]
<1> DEFINE h == Q!GET_HASH(qm.frag[f].size)
           list == qm.free_hash[h].list
           w == Q!SelectInSeq(list, LAMBDA x : qm.frag[f].size <= qm.frag[x].size)
           longer == IF w = 0 THEN Append(list, f) ELSE Q!InsertAt(list, w, f)
           a == [qm EXCEPT !.free_hash[h].list = longer]
           b == Q!Counted(a, h, 1)
           hash == [qm.free_hash EXCEPT ![h] = [qm.free_hash[h] EXCEPT !.list = longer]]
<1>1. Q!qm_insert_free(qm, f) = Q!Marked(b, f, TRUE)
  BY DEF Q!qm_insert_free
<1>2. qm \in Heaps /\ qm.free_hash \in Hashes /\ qm.frag \in Frags /\ f \in Nat
  BY FragTyped DEF HeapInv, Heaps
<1>3. a = [qm EXCEPT !.free_hash = hash]
  BY <1>2 DEF Heaps
<1>4. ASSUME h \in DOMAIN qm.free_hash
      PROVE  /\ list \in Seq(Nat) /\ longer \in Seq(Nat) /\ Once(longer) /\ Elems(longer) = Elems(list) \union {f}
  <2>1. list \in Seq(Nat) /\ Once(list) /\ f \notin Elems(list)
    BY <1>2, <1>4, HashTyped, BucketOf DEF HeapInv, ListInv, Unlisted
  <2>2. w \in 0 .. Len(list)
    <3> DEFINE I == { k \in 1 .. Len(list) : qm.frag[f].size <= qm.frag[list[k]].size }
    <3>1. w = IF I # {} THEN Q!Min(I) ELSE 0
      BY DEF Q!SelectInSeq
    <3> HIDE DEF list, w
    <3>2. I \in SUBSET Nat /\ Len(list) \in Nat
      BY <2>1
    <3>3. I # {} => Q!Min(I) \in I
      BY <3>2, MinOf
    <3> QED
      BY <3>1, <3>2, <3>3
  <2> HIDE DEF list, w
  <2> QED
    BY <1>2, <2>1, <2>2, Inserted
<1> HIDE DEF longer, list, w
<1>5. /\ hash \in Hashes /\ DOMAIN hash = DOMAIN qm.free_hash
      /\ \A g \in DOMAIN hash : g # h => hash[g] = qm.free_hash[g]
      /\ h \in DOMAIN hash => hash[h].list = longer
  <2> DEFINE o == qm.free_hash[h]
  <2>1. ASSUME h \in DOMAIN qm.free_hash
        PROVE  hash[h] \in [list : Seq(Nat), no : Int] /\ hash[h].list = longer
    <3>1. o \in [list : Seq(Nat), no : Int] /\ longer \in Seq(Nat)
      BY <1>2, <1>4, <2>1, HashTyped
    <3>2. hash[h] = [o EXCEPT !.list = longer]
      BY <2>1
    <3> HIDE DEF o, hash
    <3> QED
      BY <3>1, <3>2, BucketOf
  <2>2. DOMAIN hash = DOMAIN qm.free_hash /\ \A g \in DOMAIN hash : g # h => hash[g] = qm.free_hash[g]
    OBVIOUS
  <2>3. hash \in [DOMAIN qm.free_hash -> [list : Seq(Nat), no : Int]]
    BY <1>2, <2>1, <2>2, HashTyped
  <2> HIDE DEF hash
  <2> QED
    BY <1>2, <2>1, <2>2, <2>3, HashTyped, HashMade
<1> HIDE DEF hash, a
<1>6. a \in Heaps /\ a.free_hash = hash /\ a.frag = qm.frag /\ a.size = qm.size /\ a.join = qm.join
  BY <1>2, <1>3, <1>5, HashSet
<1>7. /\ b \in Heaps /\ b.frag = qm.frag /\ b.size = qm.size /\ b.join = qm.join
      /\ DOMAIN b.free_hash = DOMAIN hash
      /\ \A g \in DOMAIN hash : b.free_hash[g].list = hash[g].list
  BY <1>6, CountFields
<1> HIDE DEF b
<1> DEFINE q == Q!Marked(b, f, TRUE)
<1>8. /\ q \in Heaps /\ q.free_hash = b.free_hash /\ q.size = qm.size /\ q.join = qm.join
      /\ DOMAIN q.frag = DOMAIN qm.frag
      /\ q.frag[f].free = TRUE /\ q.frag[f].size = qm.frag[f].size
      /\ \A x \in DOMAIN qm.frag : x # f => q.frag[x] = qm.frag[x]
  <2>1. b \in Heaps /\ f \in DOMAIN b.frag /\ TRUE \in BOOLEAN
    BY <1>7
  <2>2. /\ q \in Heaps /\ q.free_hash = b.free_hash /\ q.size = b.size /\ q.join = b.join
        /\ DOMAIN q.frag = DOMAIN b.frag
        /\ q.frag[f].free = TRUE /\ q.frag[f].size = b.frag[f].size
        /\ \A x \in DOMAIN b.frag : x # f => q.frag[x] = b.frag[x]
    BY <2>1, MarkedFields
  <2> HIDE DEF q
  <2> QED
    BY <2>2, <1>7
<1> HIDE DEF q, h
<1>9. Laid(q.frag, q.size)
  BY <1>8 DEF HeapInv, Laid, End
<1>10. FreeOf(q.frag) = FreeOf(qm.frag) \union {f}
  BY <1>8 DEF FreeOf
<1>11. \A g \in DOMAIN q.free_hash : /\ g \in DOMAIN qm.free_hash /\ Once(q.free_hash[g].list)
                                     /\ Elems(q.free_hash[g].list) = IF g = h THEN Elems(qm.free_hash[g].list) \union {f}
                                                                     ELSE Elems(qm.free_hash[g].list)
  <2> SUFFICES ASSUME NEW g \in DOMAIN q.free_hash
               PROVE  /\ g \in DOMAIN qm.free_hash /\ Once(q.free_hash[g].list)
                      /\ Elems(q.free_hash[g].list) = IF g = h THEN Elems(qm.free_hash[g].list) \union {f}
                                                     ELSE Elems(qm.free_hash[g].list)
    OBVIOUS
  <2>1. g \in DOMAIN hash /\ g \in DOMAIN qm.free_hash /\ q.free_hash[g].list = hash[g].list
    BY <1>5, <1>7, <1>8
  <2>2. CASE g = h
    BY <2>1, <2>2, <1>4, <1>5 DEF list
  <2>3. CASE g # h
    BY <2>1, <2>3, <1>5 DEF HeapInv, ListInv
  <2> QED
    BY <2>1, <2>2, <2>3
<1>12. ListInv(q.frag, q.free_hash)
  <2>1. /\ \A g \in DOMAIN qm.free_hash : /\ Elems(qm.free_hash[g].list) \subseteq FreeOf(qm.frag)
                                          /\ f \notin Elems(qm.free_hash[g].list)
        /\ \A g, k \in DOMAIN qm.free_hash : g # k => \A x \in Elems(qm.free_hash[g].list) : x \notin Elems(qm.free_hash[k].list)
    BY DEF HeapInv, ListInv, Unlisted
  <2>2. \A g \in DOMAIN q.free_hash : Once(q.free_hash[g].list) /\ Elems(q.free_hash[g].list) \subseteq FreeOf(q.frag)
    BY <1>10, <1>11, <2>1
  <2>3. \A g, k \in DOMAIN q.free_hash : g # k => \A x \in Elems(q.free_hash[g].list) : x \notin Elems(q.free_hash[k].list)
    <3> SUFFICES ASSUME NEW g \in DOMAIN q.free_hash, NEW k \in DOMAIN q.free_hash, g # k, NEW x \in Elems(q.free_hash[g].list),
                        x \in Elems(q.free_hash[k].list)
                 PROVE  FALSE
      OBVIOUS
    <3>1. g \in DOMAIN qm.free_hash /\ k \in DOMAIN qm.free_hash
      BY <1>11
    <3>2. /\ x \in Elems(qm.free_hash[g].list) \/ (g = h /\ x = f)
          /\ x \in Elems(qm.free_hash[k].list) \/ (k = h /\ x = f)
      BY <1>11
    <3> QED
      BY <2>1, <3>1, <3>2
  <2> QED
    BY <2>2, <2>3 DEF ListInv
<1> QED
  BY <1>1, <1>8, <1>9, <1>12 DEF HeapInv, SameRest, q

(* A fragment is taken out of its list, if it is in one. *)
LEMMA DetachKeeps ==
  ASSUME NEW qm, HeapInv(qm), NEW f
  PROVE  LET q == Q!qm_detach_free(qm, f) IN
         /\ HeapInv(q) /\ q.frag = qm.frag /\ SameRest(qm, q) /\ SameFree(qm, q) /\ Unlisted(q.free_hash, f)
<1> DEFINE Without(bucket) == [bucket EXCEPT !.list = Q!RemoveFirst(bucket.list, f)]
           hash == [h \in DOMAIN qm.free_hash |-> Without(qm.free_hash[h])]
           q == Q!qm_detach_free(qm, f)
<1>1. q = [qm EXCEPT !.free_hash = hash]
  BY DEF Q!qm_detach_free
<1>2. qm \in Heaps /\ qm.free_hash \in Hashes
  BY DEF HeapInv, Heaps
<1>3. ASSUME NEW h \in DOMAIN qm.free_hash
      PROVE  /\ hash[h] \in [list : Seq(Nat), no : Int] /\ Once(hash[h].list)
             /\ Elems(hash[h].list) = Elems(qm.free_hash[h].list) \ {f}
  <2> DEFINE b == qm.free_hash[h]
             s == Q!RemoveFirst(b.list, f)
  <2>1. b \in [list : Seq(Nat), no : Int] /\ b.list \in Seq(Nat) /\ Once(b.list)
    BY <1>2, HashTyped, BucketOf DEF HeapInv, ListInv
  <2>2. s \in Seq(Nat) /\ Once(s) /\ Elems(s) = Elems(b.list) \ {f}
    BY <2>1, Removed
  <2>3. hash[h] = [b EXCEPT !.list = s]
    OBVIOUS
  <2> HIDE DEF b, s, hash
  <2>4. hash[h] \in [list : Seq(Nat), no : Int] /\ hash[h].list = s
    BY <2>1, <2>2, <2>3, BucketOf
  <2> QED
    BY <2>2, <2>4 DEF b
<1>4. DOMAIN hash = DOMAIN qm.free_hash /\ hash \in [DOMAIN qm.free_hash -> [list : Seq(Nat), no : Int]]
  BY <1>3
<1> HIDE DEF hash, q
<1>5. hash \in Hashes
  BY <1>2, <1>4, HashTyped, HashMade
<1>6. q \in Heaps /\ q.free_hash = hash /\ q.frag = qm.frag /\ q.size = qm.size /\ q.join = qm.join
  BY <1>1, <1>2, <1>5, HashSet
<1>7. ListInv(q.frag, q.free_hash)
  <2>1. /\ \A g \in DOMAIN qm.free_hash : Elems(qm.free_hash[g].list) \subseteq FreeOf(qm.frag)
        /\ \A g, k \in DOMAIN qm.free_hash : g # k => \A x \in Elems(qm.free_hash[g].list) : x \notin Elems(qm.free_hash[k].list)
    BY DEF HeapInv, ListInv
  <2>2. \A g \in DOMAIN hash : Once(hash[g].list) /\ Elems(hash[g].list) \subseteq FreeOf(qm.frag)
    BY <1>3, <1>4, <2>1
  <2>3. \A g, k \in DOMAIN hash : g # k => \A x \in Elems(hash[g].list) : x \notin Elems(hash[k].list)
    <3> SUFFICES ASSUME NEW g \in DOMAIN hash, NEW k \in DOMAIN hash, g # k, NEW x \in Elems(hash[g].list),
                        x \in Elems(hash[k].list)
                 PROVE  FALSE
      OBVIOUS
    <3>1. g \in DOMAIN qm.free_hash /\ k \in DOMAIN qm.free_hash
      BY <1>3, <1>4
    <3>2. x \in Elems(qm.free_hash[g].list) /\ x \in Elems(qm.free_hash[k].list)
      BY <1>3, <1>4
    <3> QED
      BY <2>1, <3>1, <3>2
  <2> QED
    BY <2>2, <2>3, <1>6 DEF ListInv
<1>8. Unlisted(q.free_hash, f) /\ SameFree(qm, q)
  BY <1>3, <1>4, <1>6 DEF Unlisted, SameFree
<1> QED
  BY <1>6, <1>7, <1>8 DEF HeapInv, SameRest, q

(* A fragment that is in no list becomes a used one. *)
LEMMA UsedKeeps ==
  ASSUME NEW qm, HeapInv(qm), NEW f \in DOMAIN qm.frag, Unlisted(qm.free_hash, f)
  PROVE  LET q == Q!Marked(qm, f, FALSE) IN
         /\ HeapInv(q) /\ SameRest(qm, q) /\ DOMAIN q.frag = DOMAIN qm.frag
         /\ ~ q.frag[f].free /\ q.frag[f].size = qm.frag[f].size
         /\ \A x \in DOMAIN qm.frag : x # f => q.frag[x] = qm.frag[x]
<1> DEFINE q == Q!Marked(qm, f, FALSE)
<1>1. qm \in Heaps /\ FALSE \in BOOLEAN
  BY DEF HeapInv
<1>2. /\ q \in Heaps /\ q.free_hash = qm.free_hash /\ q.size = qm.size /\ q.join = qm.join
      /\ DOMAIN q.frag = DOMAIN qm.frag
      /\ q.frag[f].free = FALSE /\ q.frag[f].size = qm.frag[f].size
      /\ \A x \in DOMAIN qm.frag : x # f => q.frag[x] = qm.frag[x]
  BY <1>1, MarkedFields
<1> HIDE DEF q
<1>3. Laid(q.frag, q.size)
  BY <1>2 DEF HeapInv, Laid, End
<1>4. ListInv(q.frag, q.free_hash)
  <2>1. \A x \in FreeOf(qm.frag) : x # f => x \in FreeOf(q.frag)
    BY <1>2 DEF FreeOf
  <2>2. \A h \in DOMAIN qm.free_hash : Elems(qm.free_hash[h].list) \subseteq FreeOf(q.frag)
    BY <2>1 DEF HeapInv, ListInv, Unlisted
  <2> QED
    BY <2>2, <1>2 DEF HeapInv, ListInv
<1> QED
  BY <1>2, <1>3, <1>4 DEF HeapInv, SameRest, q

(* What is left of a fragment becomes a free one. *)
LEMMA SplitKeeps ==
  ASSUME HeapUnits, NEW qm, HeapInv(qm), NEW f \in DOMAIN qm.frag, NEW size \in Nat, size <= qm.frag[f].size
  PROVE  LET q == Q!split_frag(qm, f, size) IN
         /\ HeapInv(q) /\ SameRest(qm, q) /\ DOMAIN qm.frag \subseteq DOMAIN q.frag
         /\ q.frag[f].free = qm.frag[f].free /\ q.frag[f].size >= size
         /\ \A x \in DOMAIN qm.frag : x # f => q.frag[x] = qm.frag[x]
         /\ \A x \in DOMAIN q.frag : x \notin DOMAIN qm.frag => q.frag[x].free
<1> DEFINE rest == qm.frag[f].size - size
           n == f + size + FRAG_OVERHEAD
           a == Q!Resized(qm, f, size)
           b == [a EXCEPT !.frag = [x \in DOMAIN a.frag \union {n} |->
                                      IF x = n THEN [size |-> rest - FRAG_OVERHEAD, free |-> FALSE] ELSE a.frag[x]]]
           c == Q!Uses(b, FRAG_OVERHEAD)
           q == Q!split_frag(qm, f, size)
<1>1. /\ qm \in Heaps /\ qm.frag \in Frags /\ DOMAIN qm.frag \in SUBSET Nat
      /\ \A x \in DOMAIN qm.frag : qm.frag[x] \in FragBlock /\ qm.frag[x].size \in Nat
      /\ FRAG_OVERHEAD \in Nat \ {0} /\ rest \in Nat /\ n \in Nat /\ n # f /\ f \in Nat /\ qm.size \in Nat
  <2>1. qm \in Heaps /\ qm.frag \in Frags /\ qm.size \in Nat
    BY DEF HeapInv, Heaps
  <2>2. \A x \in DOMAIN qm.frag : qm.frag[x] \in FragBlock
    BY <2>1 DEF Frags, FragBlock
  <2> QED
    BY <2>1, <2>2, FragTyped DEF HeapUnits
<1>2. CASE ~ Q!Splits(rest, size)
  <2>1. q = qm
    BY <1>2 DEF Q!split_frag
  <2> QED
    BY <2>1 DEF SameRest
<1>3. CASE Q!Splits(rest, size)
  <2>1. q = Q!qm_insert_free(c, n)
    BY <1>3 DEF Q!split_frag
  <2>2. rest >= FRAG_OVERHEAD /\ rest - FRAG_OVERHEAD \in Nat
    BY <1>1, <1>3 DEF Q!Splits, HeapUnits
  <2>3. /\ a \in Heaps /\ a.free_hash = qm.free_hash /\ a.size = qm.size /\ a.join = qm.join
        /\ DOMAIN a.frag = DOMAIN qm.frag
        /\ a.frag[f].size = size /\ a.frag[f].free = qm.frag[f].free
        /\ \A x \in DOMAIN qm.frag : x # f => a.frag[x] = qm.frag[x]
    BY <1>1, ResizedFields
  <2> DEFINE more == [x \in DOMAIN a.frag \union {n} |->
                        IF x = n THEN [size |-> rest - FRAG_OVERHEAD, free |-> FALSE] ELSE a.frag[x]]
  <2>4. b = [a EXCEPT !.frag = more]
    OBVIOUS
  <2> HIDE DEF a
  <2>5. \A x \in DOMAIN a.frag : a.frag[x] \in FragBlock
    BY <2>3 DEF Heaps, Frags, FragBlock
  <2>6. [size |-> rest - FRAG_OVERHEAD, free |-> FALSE] \in FragBlock
    BY <2>2 DEF FragBlock
  <2>7. /\ DOMAIN more = DOMAIN qm.frag \union {n} /\ more[n].size = rest - FRAG_OVERHEAD /\ more[n].free = FALSE
        /\ \A x \in DOMAIN qm.frag : x # n => more[x] = a.frag[x]
        /\ more \in [DOMAIN qm.frag \union {n} -> FragBlock]
    BY <2>3, <2>5, <2>6
  <2> HIDE DEF more, b
  <2>8. more \in Frags
    BY <2>7, <1>1, FragMade DEF FragBlock
  <2>9. b \in Heaps /\ b.frag = more /\ b.free_hash = qm.free_hash /\ b.size = qm.size /\ b.join = qm.join
    BY <2>3, <2>4, <2>8, FragSet
  <2>10. /\ more[f].size = size /\ more[f].free = qm.frag[f].free
         /\ \A x \in DOMAIN qm.frag : x # f /\ x # n => more[x] = qm.frag[x]
    BY <1>1, <2>3, <2>7
  <2>11. n \notin DOMAIN qm.frag
    <3>1. n \in DOMAIN qm.frag => End(qm.frag, f) <= n
      BY <1>1 DEF HeapInv, Laid
    <3> QED
      BY <3>1, <1>1, <2>2 DEF End
  <2>12. Laid(more, qm.size)
    <3>1. /\ Laid(qm.frag, qm.size) /\ size + FRAG_OVERHEAD <= qm.frag[f].size
          /\ n = f + size + FRAG_OVERHEAD /\ more[n].size = qm.frag[f].size - size - FRAG_OVERHEAD
          /\ more[f].size = size /\ DOMAIN more = DOMAIN qm.frag \union {n} /\ qm.size \in Nat /\ qm.frag \in Frags
      BY <1>1, <2>2, <2>7, <2>10 DEF HeapInv
    <3>2. \A x \in DOMAIN qm.frag : x # f => more[x] = qm.frag[x]
      BY <2>10, <2>11
    <3> HIDE DEF n, rest
    <3> QED
      BY <3>1, <3>2, <2>8, SplitLaid
  <2>13. FreeOf(qm.frag) \subseteq FreeOf(more)
    BY <2>7, <2>10, <2>11 DEF FreeOf
  <2>14. HeapInv(b)
    BY <2>9, <2>12, <2>13 DEF HeapInv, ListInv
  <2>15. Unlisted(b.free_hash, n)
    BY <2>9, <2>11 DEF HeapInv, ListInv, Unlisted, FreeOf
  <2>16. HeapInv(c) /\ c.frag = more /\ SameRest(b, c) /\ Unlisted(c.free_hash, n)
    <3>1. FRAG_OVERHEAD \in Int
      BY <1>1
    <3>2. HeapInv(c) /\ c.frag = b.frag /\ SameRest(b, c) /\ SameFree(b, c)
      BY <3>1, <2>14, UsesKeeps
    <3> HIDE DEF c, n
    <3> QED
      BY <3>2, <2>9, <2>15 DEF SameFree
  <2> HIDE DEF c
  <2>17. /\ HeapInv(q) /\ SameRest(c, q) /\ DOMAIN q.frag = DOMAIN more /\ q.frag[n].free
         /\ \A x \in DOMAIN more : x # n => q.frag[x] = more[x]
    BY <2>1, <2>7, <2>16, InsertKeeps
  <2> HIDE DEF q
  <2> QED
    BY <1>1, <2>7, <2>9, <2>10, <2>11, <2>16, <2>17 DEF SameRest, q
<1> QED
  BY <1>2, <1>3

Beside(frag, f, n) == n = End(frag, f)

(* Two fragments side by side become one, when the second is in no list. *)
Merged(qm, x, f, n, h) ==
  Q!Gone(Q!Uses(Q!Counted(Q!Resized(Q!qm_detach_free(qm, x), f, qm.frag[f].size + qm.frag[n].size + FRAG_OVERHEAD), h, -1),
                - FRAG_OVERHEAD), n)

(* Then the fragments stay laid out, and nothing of the others changes. *)
LEMMA MergeKeeps ==
  ASSUME HeapUnits, NEW qm, HeapInv(qm), NEW f \in DOMAIN qm.frag, NEW n \in DOMAIN qm.frag, Beside(qm.frag, f, n),
         NEW x, NEW h, Unlisted(Q!qm_detach_free(qm, x).free_hash, n)
  PROVE  LET q == Merged(qm, x, f, n, h) IN
         /\ HeapInv(q) /\ SameRest(qm, q) /\ SameFree(qm, q) /\ Unlisted(q.free_hash, x)
         /\ n # f /\ DOMAIN q.frag = DOMAIN qm.frag \ {n}
         /\ q.frag[f].free = qm.frag[f].free /\ q.frag[f].size = qm.frag[f].size + qm.frag[n].size + FRAG_OVERHEAD
         /\ \A y \in DOMAIN qm.frag : y # f /\ y # n => q.frag[y] = qm.frag[y]
<1> DEFINE size == qm.frag[f].size + qm.frag[n].size + FRAG_OVERHEAD
           a == Q!qm_detach_free(qm, x)
           b == Q!Resized(a, f, size)
           c == Q!Counted(b, h, -1)
           d == Q!Uses(c, - FRAG_OVERHEAD)
           q == Q!Gone(d, n)
<1> n = End(qm.frag, f)
  BY DEF Beside
<1>1. /\ qm.frag \in Frags /\ size \in Nat /\ n # f /\ qm.size \in Nat /\ - FRAG_OVERHEAD \in Int /\ -1 \in Int
  <2>1. qm.frag \in Frags /\ qm.size \in Nat /\ FRAG_OVERHEAD \in Nat \ {0}
    BY DEF HeapInv, Heaps, HeapUnits
  <2>2. f \in Nat /\ n \in Nat /\ qm.frag[f].size \in Nat /\ qm.frag[n].size \in Nat
    BY <2>1, FragTyped
  <2>3. n = f + qm.frag[f].size + FRAG_OVERHEAD
    BY DEF End
  <2>4. size \in Nat
    BY <2>1, <2>2
  <2>5. n # f
    BY <2>1, <2>2, <2>3
  <2>6. - FRAG_OVERHEAD \in Int /\ -1 \in Int
    BY <2>1
  <2> QED
    BY <2>1, <2>4, <2>5, <2>6
<1>2. Merged(qm, x, f, n, h) = q
  BY DEF Merged
<1> HIDE DEF size
<1>3. HeapInv(a) /\ a.frag = qm.frag /\ SameRest(qm, a) /\ SameFree(qm, a) /\ Unlisted(a.free_hash, x)
  BY DetachKeeps
<1>4. Unlisted(a.free_hash, n) /\ a \in Heaps /\ f \in DOMAIN a.frag
  BY <1>3 DEF SameFree, HeapInv
<1> HIDE DEF a
<1>5. /\ b \in Heaps /\ b.free_hash = a.free_hash /\ b.size = a.size /\ b.join = a.join
      /\ DOMAIN b.frag = DOMAIN a.frag
      /\ b.frag[f].size = size /\ b.frag[f].free = a.frag[f].free
      /\ \A y \in DOMAIN a.frag : y # f => b.frag[y] = a.frag[y]
  BY <1>1, <1>4, ResizedFields
<1> HIDE DEF b
<1>6. /\ c \in Heaps /\ c.frag = b.frag /\ c.size = b.size /\ c.join = b.join
      /\ DOMAIN c.free_hash = DOMAIN b.free_hash
      /\ \A g \in DOMAIN c.free_hash : c.free_hash[g].list = b.free_hash[g].list
  BY <1>1, <1>5, CountFields
<1> HIDE DEF c
<1>7. d \in Heaps /\ d.frag = c.frag /\ d.free_hash = c.free_hash /\ d.size = c.size /\ d.join = c.join
  BY <1>1, <1>6, UsesFields
<1> HIDE DEF d
<1>8. /\ q \in Heaps /\ q.free_hash = d.free_hash /\ q.size = d.size /\ q.join = d.join
      /\ DOMAIN q.frag = DOMAIN d.frag \ {n}
      /\ \A y \in DOMAIN d.frag : y # n => q.frag[y] = d.frag[y]
  BY <1>7, GoneFields
<1> HIDE DEF q
<1>9. /\ DOMAIN q.frag = DOMAIN qm.frag \ {n} /\ q.frag[f].size = size /\ q.frag[f].free = qm.frag[f].free
      /\ \A y \in DOMAIN qm.frag : y # f /\ y # n => q.frag[y] = qm.frag[y]
      /\ SameRest(qm, q) /\ q.frag \in Frags
  BY <1>1, <1>3, <1>5, <1>6, <1>7, <1>8 DEF SameRest, Heaps
<1>10. Laid(q.frag, q.size)
  <2>1. Laid(qm.frag, qm.size) /\ q.size = qm.size
    BY <1>9 DEF HeapInv, SameRest
  <2>2. q.frag[f].size = qm.frag[f].size + qm.frag[n].size + FRAG_OVERHEAD
    BY <1>9 DEF size
  <2>3. Laid(q.frag, qm.size)
    BY <1>1, <1>9, <2>1, <2>2, JoinLaid
  <2> QED
    BY <2>1, <2>3
<1>11. /\ DOMAIN q.free_hash = DOMAIN a.free_hash
       /\ \A g \in DOMAIN a.free_hash : q.free_hash[g].list = a.free_hash[g].list
  BY <1>5, <1>6, <1>7, <1>8
<1>12. ASSUME NEW y \in FreeOf(qm.frag), y # n PROVE y \in FreeOf(q.frag)
  BY <1>9, <1>12 DEF FreeOf
<1>13. ListInv(q.frag, q.free_hash)
  <2>1. \A g \in DOMAIN a.free_hash : Elems(a.free_hash[g].list) \subseteq FreeOf(q.frag)
    BY <1>3, <1>4, <1>12 DEF HeapInv, ListInv, Unlisted
  <2> QED
    BY <2>1, <1>3, <1>11 DEF HeapInv, ListInv
<1>14. SameFree(qm, q) /\ Unlisted(q.free_hash, x)
  BY <1>3, <1>11 DEF SameFree, Unlisted
<1> QED
  BY <1>1, <1>2, <1>8, <1>9, <1>10, <1>13, <1>14 DEF HeapInv, size

(* What is found is free and large enough (q_malloc.c:273). *)
LEMMA FindRight ==
  ASSUME NEW qm, HeapInv(qm), NEW size \in Nat
  PROVE  \/ Q!qm_find_free(qm, size) = <<>>
         \/ \E h, f : /\ Q!qm_find_free(qm, size) = <<[hash |-> h, f |-> f]>>
                      /\ f \in FreeOf(qm.frag) /\ qm.frag[f].size >= size
<1> DEFINE Fits(h) == Q!SelectInSeq(qm.free_hash[h].list, LAMBDA f : qm.frag[f].size >= size)
           hs == { h \in DOMAIN qm.free_hash : h >= Q!GET_HASH(size) /\ Fits(h) # 0 }
           h == Q!Min(hs)
           f == qm.free_hash[h].list[Fits(h)]
<1>1. Q!qm_find_free(qm, size) = IF hs = {} THEN <<>> ELSE <<[hash |-> h, f |-> f]>>
  BY DEF Q!qm_find_free
<1>2. ASSUME hs # {} PROVE f \in FreeOf(qm.frag) /\ qm.frag[f].size >= size
  <2>1. qm.free_hash \in Hashes
    BY DEF HeapInv, Heaps
  <2>2. hs \in SUBSET Nat
    BY <2>1, HashTyped
  <2>3. h \in hs
    <3> HIDE DEF hs
    <3> QED
      BY <1>2, <2>2, MinOf
  <2>4. h \in DOMAIN qm.free_hash /\ Fits(h) # 0
    <3> HIDE DEF h, Fits
    <3> QED
      BY <2>3
  <2> DEFINE list == qm.free_hash[h].list
             I == { w \in 1 .. Len(list) : qm.frag[list[w]].size >= size }
  <2>5. list \in Seq(Nat)
    BY <2>1, <2>4, HashTyped, BucketOf
  <2>6. Fits(h) = IF I # {} THEN Q!Min(I) ELSE 0
    BY DEF Q!SelectInSeq
  <2> HIDE DEF list, h
  <2>7. I \in SUBSET Nat
    OBVIOUS
  <2>8. I # {} => Q!Min(I) \in I
    <3> HIDE DEF I
    <3> QED
      BY <2>7, MinOf
  <2>9. Fits(h) \in I
    BY <2>4, <2>6, <2>8
  <2> HIDE DEF Fits
  <2>10. Fits(h) \in DOMAIN list /\ qm.frag[list[Fits(h)]].size >= size
    BY <2>5, <2>9
  <2>11. list[Fits(h)] \in Elems(list)
    BY <2>10 DEF Elems
  <2> QED
    BY <2>4, <2>10, <2>11 DEF list, HeapInv, ListInv
<1> HIDE DEF hs, h, f
<1> QED
  BY <1>1, <1>2

(* The same when the first of them was taken out of its list (q_malloc.c:470). *)
LEMMA MergeBefore ==
  ASSUME HeapUnits, NEW qm, HeapInv(qm), NEW p \in DOMAIN qm.frag, NEW f \in DOMAIN qm.frag, Beside(qm.frag, p, f),
         Unlisted(qm.free_hash, f), NEW h
  PROVE  LET q == Merged(qm, p, p, f, h) IN
         /\ HeapInv(q) /\ SameRest(qm, q) /\ Unlisted(q.free_hash, p)
         /\ f # p /\ DOMAIN q.frag = DOMAIN qm.frag \ {f} /\ q.frag[p].free = qm.frag[p].free
         /\ \A y \in DOMAIN qm.frag : y # p /\ y # f => q.frag[y] = qm.frag[y]
<1>1. Unlisted(Q!qm_detach_free(qm, p).free_hash, f)
  BY DetachKeeps DEF SameFree
<1> QED
  BY <1>1, MergeKeeps

(* malloc gives what was nobody's (q_malloc.c:350). *)
LEMMA MallocRight ==
  ASSUME HeapUnits, NEW qm, HeapInv(qm), NEW size \in Nat
  PROVE  LET a == Q!qm_malloc(qm, size) IN
         /\ HeapInv(a.qm) /\ SameRest(qm, a.qm)
         /\ a.p = Q!NULL => a.qm = qm
         /\ a.p # Q!NULL => /\ a.p \in DOMAIN a.qm.frag /\ a.qm.frag[a.p].size >= size
                            /\ a.p \notin Q!Used(qm) /\ Q!Used(a.qm) = Q!Used(qm) \union {a.p}
         /\ Q!Kept(qm, a.qm, Q!Used(qm))
<1> DEFINE found == Q!qm_find_free(qm, size)
           a == Q!qm_malloc(qm, size)
<1>1. CASE a = Q!Answer(qm, Q!NULL)
  BY <1>1 DEF Q!Answer, SameRest, Q!Kept
<1>2. ASSUME NEW h, NEW f \in FreeOf(qm.frag), qm.frag[f].size >= size,
             LET m == Q!Marked(Q!Counted(Q!qm_detach_free(qm, f), h, -1), f, FALSE)
                 s == Q!split_frag(m, f, size)
             IN a = Q!Answer(Q!Takes(s, s.frag[f].size), f)
      PROVE  /\ HeapInv(a.qm) /\ SameRest(qm, a.qm) /\ a.p # Q!NULL
             /\ a.p \in DOMAIN a.qm.frag /\ a.qm.frag[a.p].size >= size
             /\ a.p \notin Q!Used(qm) /\ Q!Used(a.qm) = Q!Used(qm) \union {a.p}
             /\ Q!Kept(qm, a.qm, Q!Used(qm))
  <2> DEFINE d == Q!qm_detach_free(qm, f)
             c == Q!Counted(d, h, -1)
             m == Q!Marked(c, f, FALSE)
             s == Q!split_frag(m, f, size)
             t == Q!Takes(s, s.frag[f].size)
  <2>1. a = Q!Answer(t, f)
    BY <1>2
  <2> HIDE DEF a
  <2>2. f \in DOMAIN qm.frag /\ qm.frag[f].free /\ f \in Nat /\ -1 \in Int
    BY FragTyped DEF FreeOf, HeapInv, Heaps
  <2>3. HeapInv(d) /\ d.frag = qm.frag /\ SameRest(qm, d) /\ Unlisted(d.free_hash, f)
    BY DetachKeeps
  <2> HIDE DEF d
  <2>4. HeapInv(c) /\ c.frag = qm.frag /\ SameRest(qm, c) /\ Unlisted(c.free_hash, f)
    BY <2>2, <2>3, CountKeeps DEF SameRest, SameFree
  <2> HIDE DEF c
  <2>5. /\ HeapInv(m) /\ SameRest(qm, m) /\ DOMAIN m.frag = DOMAIN qm.frag
        /\ ~ m.frag[f].free /\ m.frag[f].size = qm.frag[f].size
        /\ \A x \in DOMAIN qm.frag : x # f => m.frag[x] = qm.frag[x]
    <3>1. f \in DOMAIN c.frag
      BY <2>2, <2>4
    <3>2. /\ HeapInv(m) /\ SameRest(c, m) /\ DOMAIN m.frag = DOMAIN c.frag
          /\ ~ m.frag[f].free /\ m.frag[f].size = c.frag[f].size
          /\ \A x \in DOMAIN c.frag : x # f => m.frag[x] = c.frag[x]
      BY <2>4, <3>1, UsedKeeps
    <3> HIDE DEF m
    <3> QED
      BY <2>4, <3>2 DEF SameRest
  <2> HIDE DEF m
  <2>6. size <= m.frag[f].size /\ f \in DOMAIN m.frag
    BY <1>2, <2>2, <2>5
  <2>7. /\ HeapInv(s) /\ SameRest(m, s) /\ DOMAIN m.frag \subseteq DOMAIN s.frag
        /\ s.frag[f].free = m.frag[f].free /\ s.frag[f].size >= size
        /\ \A x \in DOMAIN m.frag : x # f => s.frag[x] = m.frag[x]
        /\ \A x \in DOMAIN s.frag : x \notin DOMAIN m.frag => s.frag[x].free
    BY <2>5, <2>6, SplitKeeps
  <2> HIDE DEF s
  <2>8. HeapInv(t) /\ t.frag = s.frag /\ SameRest(s, t)
    <3>1. s.frag[f].size \in Int
      BY <2>2, <2>5, <2>7, FragTyped DEF HeapInv, Heaps
    <3> QED
      BY <3>1, <2>7, TakesKeeps
  <2> HIDE DEF t
  <2>9. a.qm = t /\ a.p = f
    BY <2>1 DEF Q!Answer
  <2>10. SameRest(qm, t) /\ f # Q!NULL
    BY <2>2, <2>5, <2>7, <2>8 DEF SameRest, Q!NULL
  <2>11. /\ f \in DOMAIN t.frag /\ t.frag[f].size >= size /\ ~ t.frag[f].free
         /\ \A x \in DOMAIN qm.frag : x # f => x \in DOMAIN t.frag /\ t.frag[x] = qm.frag[x]
         /\ \A x \in DOMAIN t.frag : x \notin DOMAIN qm.frag => t.frag[x].free
    BY <2>2, <2>5, <2>7, <2>8
  <2>12. f \notin Q!Used(qm) /\ Q!Used(t) = Q!Used(qm) \union {f} /\ Q!Kept(qm, t, Q!Used(qm))
    BY <2>2, <2>11 DEF Q!Used, Q!Kept, Q!IsFree
  <2> QED
    BY <2>8, <2>9, <2>10, <2>11, <2>12
<1>3. CASE ~ (qm.real_used <= qm.size /\ size > qm.size - qm.real_used) /\ found # <<>>
  <2>1. PICK h, f : /\ found = <<[hash |-> h, f |-> f]>>
                    /\ f \in FreeOf(qm.frag) /\ qm.frag[f].size >= size
    BY <1>3, FindRight
  <2>2. found[1].hash = h /\ found[1].f = f
    BY <2>1
  <2>3. LET m == Q!Marked(Q!Counted(Q!qm_detach_free(qm, f), h, -1), f, FALSE)
            s == Q!split_frag(m, f, size)
        IN a = Q!Answer(Q!Takes(s, s.frag[f].size), f)
    BY <1>3, <2>2 DEF Q!qm_malloc
  <2> QED
    BY <1>2, <2>1, <2>3
<1>4. CASE (qm.real_used <= qm.size /\ size > qm.size - qm.real_used) \/ found = <<>>
  BY <1>1, <1>4 DEF Q!qm_malloc
<1> QED
  BY <1>3, <1>4

(* A block that is given back is free, alone or as part of what is around it. *)
LEMMA FreeRight ==
  ASSUME HeapUnits, NEW qm, HeapInv(qm), NEW f \in Q!Used(qm)
  PROVE  LET q == Q!qm_free(qm, f) IN
         HeapInv(q) /\ SameRest(qm, q) /\ Q!Used(q) = Q!Used(qm) \ {f} /\ Q!Kept(qm, q, Q!Used(qm) \ {f})
<1> DEFINE given == Q!Takes(qm, - qm.frag[f].size)
           n == Q!FRAG_NEXT(qm, f)
           next == Q!JoinNext(given, f, n)
           prev == Q!JoinPrev(next, f)
           q == Q!qm_free(qm, f)
<1>1. f \in DOMAIN qm.frag /\ ~ qm.frag[f].free /\ - qm.frag[f].size \in Int
  <2>1. qm.frag \in Frags /\ f \in DOMAIN qm.frag /\ ~ qm.frag[f].free
    BY DEF HeapInv, Heaps, Q!Used, Q!IsFree
  <2>2. qm.frag[f].size \in Nat
    BY <2>1, FragTyped
  <2> QED
    BY <2>1, <2>2
<1>2. q = IF qm.join THEN Q!qm_insert_free(prev.qm, prev.p) ELSE Q!qm_insert_free(given, f)
  BY DEF Q!qm_free
<1>3. HeapInv(given) /\ given.frag = qm.frag /\ SameRest(qm, given)
  BY <1>1, TakesKeeps
<1>4. Unlisted(given.free_hash, f)
  BY <1>1, <1>3 DEF HeapInv, ListInv, Unlisted, FreeOf
<1> HIDE DEF given
<1>5. ASSUME NEW r, HeapInv(r), SameRest(qm, r), NEW p \in DOMAIN r.frag, Unlisted(r.free_hash, p),
             \A x \in Q!Used(qm) : x # f => x \in DOMAIN r.frag /\ r.frag[x] = qm.frag[x] /\ x # p,
             \A x \in DOMAIN r.frag : x \in Q!Used(qm) \/ r.frag[x].free,
             f \in DOMAIN r.frag => p = f,
             q = Q!qm_insert_free(r, p)
      PROVE  HeapInv(q) /\ SameRest(qm, q) /\ Q!Used(q) = Q!Used(qm) \ {f} /\ Q!Kept(qm, q, Q!Used(qm) \ {f})
  <2> HIDE DEF q
  <2>1. /\ HeapInv(q) /\ SameRest(r, q) /\ DOMAIN q.frag = DOMAIN r.frag
        /\ q.frag[p].free
        /\ \A x \in DOMAIN r.frag : x # p => q.frag[x] = r.frag[x]
    BY <1>5, InsertKeeps
  <2>2. \A x \in Q!Used(qm) : x # f => x \in DOMAIN q.frag /\ q.frag[x] = qm.frag[x] /\ ~ q.frag[x].free
    BY <1>5, <2>1 DEF Q!Used, Q!IsFree
  <2>3. \A x \in DOMAIN q.frag : (x \in Q!Used(qm) /\ x # f) \/ q.frag[x].free
    BY <1>5, <2>1
  <2> QED
    BY <1>5, <2>1, <2>2, <2>3 DEF Q!Used, Q!IsFree, Q!Kept, SameRest
<1>6. CASE ~ qm.join
  <2>1. \A x \in DOMAIN given.frag : x \in Q!Used(qm) \/ given.frag[x].free
    BY <1>3 DEF Q!Used, Q!IsFree
  <2>2. \A x \in Q!Used(qm) : x # f => x \in DOMAIN given.frag /\ given.frag[x] = qm.frag[x]
    BY <1>3 DEF Q!Used
  <2>3. q = Q!qm_insert_free(given, f) /\ f \in DOMAIN given.frag
    BY <1>1, <1>2, <1>3, <1>6
  <2> HIDE DEF q
  <2> QED
    BY <1>3, <1>4, <1>5, <2>1, <2>2, <2>3 DEF q
<1>7. CASE qm.join
  <2>1. /\ HeapInv(next) /\ SameRest(qm, next) /\ f \in DOMAIN next.frag /\ ~ next.frag[f].free
        /\ Unlisted(next.free_hash, f)
        /\ \A x \in Q!Used(qm) : x # f => x \in DOMAIN next.frag /\ next.frag[x] = qm.frag[x]
        /\ \A x \in DOMAIN next.frag : x \in Q!Used(qm) \/ next.frag[x].free
    <3>1. CASE ~ (n \in DOMAIN given.frag /\ given.frag[n].free)
      <4>1. next = given
        BY <3>1 DEF Q!JoinNext, Q!Exists, Q!IsFree
      <4> QED
        BY <4>1, <1>1, <1>3, <1>4 DEF Q!Used, Q!IsFree
    <3>2. CASE n \in DOMAIN given.frag /\ given.frag[n].free
      <4>1. next = Merged(given, n, f, n, Q!GET_HASH(given.frag[n].size))
        BY <3>2 DEF Q!JoinNext, Q!Exists, Q!IsFree, Q!Absorb, Merged
      <4>2. Beside(given.frag, f, n)
        BY <1>3 DEF Q!FRAG_NEXT, End, Beside
      <4>3a. f \in DOMAIN given.frag /\ n \in DOMAIN given.frag
        BY <1>1, <1>3, <3>2
      <4> HIDE DEF next, prev, q, n
      <4>3. /\ HeapInv(next) /\ SameRest(given, next) /\ SameFree(given, next)
            /\ n # f /\ DOMAIN next.frag = DOMAIN given.frag \ {n} /\ next.frag[f].free = given.frag[f].free
            /\ \A y \in DOMAIN given.frag : y # f /\ y # n => next.frag[y] = given.frag[y]
        
        <5>1. HeapInv(given) /\ Unlisted(Q!qm_detach_free(given, n).free_hash, n)
          BY <1>3, DetachKeeps
        <5>2. \A h : LET q0 == Merged(given, n, f, n, h) IN
             /\ HeapInv(q0) /\ SameRest(given, q0) /\ SameFree(given, q0)
             /\ n # f /\ DOMAIN q0.frag = DOMAIN given.frag \ {n} /\ q0.frag[f].free = given.frag[f].free
             /\ \A y \in DOMAIN given.frag : y # f /\ y # n => q0.frag[y] = given.frag[y]
          BY <4>2, <4>3a, <5>1, MergeKeeps
        <5> QED BY <4>1, <5>2
      <4>4. n \notin Q!Used(qm)
        BY <1>3, <3>2 DEF Q!Used, Q!IsFree
      <4>5. SameRest(qm, next) /\ Unlisted(next.free_hash, f) /\ f \in DOMAIN next.frag /\ ~ next.frag[f].free
        BY <4>3, <1>1, <1>3, <1>4 DEF SameRest, SameFree
      <4>6. \A x \in DOMAIN next.frag : x \in Q!Used(qm) \/ next.frag[x].free
        BY <4>3, <1>1, <1>3 DEF Q!Used, Q!IsFree
      <4>7. \A x \in Q!Used(qm) : x # f => x \in DOMAIN next.frag /\ next.frag[x] = qm.frag[x]
        BY <4>3, <4>4, <1>3 DEF Q!Used
      <4> QED
        BY <4>3, <4>5, <4>6, <4>7
    <3> QED
      BY <3>1, <3>2
  <2> HIDE DEF next
  <2> DEFINE free == { p \in Q!PrevOf(next, f) : Q!IsFree(next, p) }
             p == CHOOSE x \in free : TRUE
  <2>2. CASE free = {}
    <3>1. prev = Q!Answer(next, f)
      BY <2>2 DEF Q!JoinPrev
    <3>2. q = Q!qm_insert_free(next, f)
      BY <3>1, <1>2, <1>7 DEF Q!Answer
    <3> QED
      BY <3>2, <1>5, <2>1
  <2>3. CASE free # {}
    <3> DEFINE grown == Merged(next, p, p, f, Q!GET_HASH(next.frag[p].size))
    <3>1. prev = Q!Answer(grown, p)
      BY <2>3 DEF Q!JoinPrev, Merged
    <3>2. q = Q!qm_insert_free(grown, p)
      BY <3>1, <1>2, <1>7 DEF Q!Answer
    <3>3. p \in DOMAIN next.frag /\ Beside(next.frag, p, f) /\ next.frag[p].free
      <4>1. p \in free
        BY <2>3
      <4> QED
        BY <4>1 DEF Q!PrevOf, Q!FRAG_NEXT, Q!IsFree, End, Beside
    <3> HIDE DEF p, free, prev, q
    <3>4. /\ HeapInv(grown) /\ SameRest(next, grown) /\ Unlisted(grown.free_hash, p)
          /\ f # p /\ DOMAIN grown.frag = DOMAIN next.frag \ {f} /\ grown.frag[p].free = next.frag[p].free
          /\ \A y \in DOMAIN next.frag : y # p /\ y # f => grown.frag[y] = next.frag[y]
      <4>1. /\ HeapInv(next) /\ p \in DOMAIN next.frag /\ f \in DOMAIN next.frag /\ Beside(next.frag, p, f)
            /\ Unlisted(next.free_hash, f)
        BY <2>1, <3>3
      <4>2. \A h : LET q0 == Merged(next, p, p, f, h) IN
             /\ HeapInv(q0) /\ SameRest(next, q0) /\ Unlisted(q0.free_hash, p)
             /\ f # p /\ DOMAIN q0.frag = DOMAIN next.frag \ {f} /\ q0.frag[p].free = next.frag[p].free
             /\ \A y \in DOMAIN next.frag : y # p /\ y # f => q0.frag[y] = next.frag[y]
        BY <4>1, MergeBefore
      <4> QED
        BY <4>2
    <3> HIDE DEF grown
    <3>5. p \notin Q!Used(qm)
      BY <2>1, <3>3, <3>4 DEF Q!Used, Q!IsFree
    <3>6. SameRest(qm, grown) /\ p \in DOMAIN grown.frag /\ f \notin DOMAIN grown.frag
      BY <2>1, <3>3, <3>4 DEF SameRest
    <3>7. \A x \in Q!Used(qm) : x # f => x \in DOMAIN grown.frag /\ grown.frag[x] = qm.frag[x] /\ x # p
      BY <2>1, <3>4, <3>5
    <3>8. \A x \in DOMAIN grown.frag : x \in Q!Used(qm) \/ grown.frag[x].free
      BY <2>1, <3>3, <3>4
    <3> QED
      BY <3>2, <3>4, <3>6, <3>7, <3>8, <1>5 DEF q
  <2> QED
    BY <2>2, <2>3
<1> QED
  BY <1>6, <1>7

(* A block that is made smaller or larger where it is. *)
LEMMA CutRight ==
  ASSUME HeapUnits, NEW qm, HeapInv(qm), NEW f \in Q!Used(qm), NEW size \in Nat, size <= qm.frag[f].size
  PROVE  LET q == Q!split_frag(qm, f, size) IN
         /\ HeapInv(q) /\ SameRest(qm, q) /\ Q!Used(q) = Q!Used(qm) /\ q.frag[f].size >= size
         /\ Q!Kept(qm, q, Q!Used(qm) \ {f})
<1> DEFINE q == Q!split_frag(qm, f, size)
<1>1. f \in DOMAIN qm.frag /\ ~ qm.frag[f].free
  BY DEF Q!Used, Q!IsFree
<1>2. /\ HeapInv(q) /\ SameRest(qm, q) /\ DOMAIN qm.frag \subseteq DOMAIN q.frag
      /\ q.frag[f].free = qm.frag[f].free /\ q.frag[f].size >= size
      /\ \A x \in DOMAIN qm.frag : x # f => q.frag[x] = qm.frag[x]
      /\ \A x \in DOMAIN q.frag : x \notin DOMAIN qm.frag => q.frag[x].free
  BY <1>1, SplitKeeps
<1> HIDE DEF q
<1>3. Q!Used(q) = Q!Used(qm) /\ Q!Kept(qm, q, Q!Used(qm) \ {f})
  BY <1>1, <1>2 DEF Q!Used, Q!IsFree, Q!Kept
<1> QED
  BY <1>2, <1>3 DEF q

(* The block stays, when it is made smaller (q_malloc.c:548). *)
LEMMA ShrinkRight ==
  ASSUME HeapUnits, NEW qm, HeapInv(qm), NEW f \in Q!Used(qm), NEW size \in Nat, size <= qm.frag[f].size
  PROVE  LET q == Q!Shrink(qm, f, size) IN
         /\ HeapInv(q) /\ SameRest(qm, q) /\ Q!Used(q) = Q!Used(qm) /\ q.frag[f].size >= size
         /\ Q!Kept(qm, q, Q!Used(qm) \ {f})
<1> DEFINE s == Q!split_frag(qm, f, size)
           u == Q!Uses(s, FRAG_OVERHEAD)
           q == Q!Shrink(qm, f, size)
<1>1. /\ HeapInv(s) /\ SameRest(qm, s) /\ Q!Used(s) = Q!Used(qm) /\ s.frag[f].size >= size
      /\ Q!Kept(qm, s, Q!Used(qm) \ {f})
  BY CutRight
<1>2. q = s \/ q = u
  BY DEF Q!Shrink
<1> HIDE DEF s, q
<1>3. FRAG_OVERHEAD \in Int
  BY DEF HeapUnits
<1>4. HeapInv(u) /\ u.frag = s.frag /\ SameRest(s, u)
  BY <1>1, <1>3, UsesKeeps
<1> HIDE DEF u
<1> QED
  BY <1>1, <1>2, <1>4 DEF Q!Used, Q!IsFree, Q!Kept, SameRest, q

(* The block stays, when it takes the next fragment (q_malloc.c:573). *)
LEMMA GrowRight ==
  ASSUME HeapUnits, NEW qm, HeapInv(qm), NEW f \in Q!Used(qm), NEW size \in Nat,
         NEW n \in DOMAIN qm.frag, Beside(qm.frag, f, n), qm.frag[n].free,
         qm.frag[n].size + FRAG_OVERHEAD >= size - qm.frag[f].size
  PROVE  LET q == Q!GrowInPlace(qm, f, size) IN
         /\ HeapInv(q) /\ SameRest(qm, q) /\ Q!Used(q) = Q!Used(qm) /\ q.frag[f].size >= size
         /\ Q!Kept(qm, q, Q!Used(qm) \ {f})
<1> DEFINE h == Q!GET_HASH(qm.frag[n].size)
           m == Merged(qm, n, f, n, h)
           s == IF m.frag[f].size > size THEN Q!split_frag(m, f, size) ELSE m
           t == Q!Takes(s, s.frag[f].size - qm.frag[f].size)
           q == Q!GrowInPlace(qm, f, size)
<1>1. f \in DOMAIN qm.frag /\ ~ qm.frag[f].free /\ qm.frag \in Frags /\ FRAG_OVERHEAD \in Nat
  BY DEF Q!Used, Q!IsFree, HeapInv, Heaps, HeapUnits
<1>2. qm.frag[f].size \in Nat /\ qm.frag[n].size \in Nat
  BY <1>1, FragTyped
<1>3. q = t
  <2>1. Q!FRAG_NEXT(qm, f) = n
    BY DEF Q!FRAG_NEXT, Beside, End
  <2>2. m = Q!Absorb(qm, f, n)
    BY DEF Merged, Q!Absorb
  <2> HIDE DEF m
  <2> QED
    BY <2>1, <2>2 DEF Q!GrowInPlace
<1> HIDE DEF q, h
<1>4. Unlisted(Q!qm_detach_free(qm, n).free_hash, n)
  BY DetachKeeps
<1>5. /\ HeapInv(m) /\ SameRest(qm, m)
      /\ n # f /\ DOMAIN m.frag = DOMAIN qm.frag \ {n}
      /\ m.frag[f].free = qm.frag[f].free /\ m.frag[f].size = qm.frag[f].size + qm.frag[n].size + FRAG_OVERHEAD
      /\ \A y \in DOMAIN qm.frag : y # f /\ y # n => m.frag[y] = qm.frag[y]
  BY <1>1, <1>4, MergeKeeps
<1> HIDE DEF m
<1>6. /\ Q!Used(m) = Q!Used(qm) /\ m.frag[f].size >= size /\ m.frag[f].size \in Nat
      /\ Q!Kept(qm, m, Q!Used(qm) \ {f})
  <2>1. m.frag[f].size >= size /\ m.frag[f].size \in Nat
    BY <1>1, <1>2, <1>5
  <2>2. Q!Used(m) = Q!Used(qm) /\ Q!Kept(qm, m, Q!Used(qm) \ {f})
    BY <1>1, <1>5 DEF Q!Used, Q!IsFree, Q!Kept
  <2> QED
    BY <2>1, <2>2
<1>7. /\ HeapInv(s) /\ SameRest(m, s) /\ Q!Used(s) = Q!Used(m) /\ s.frag[f].size >= size
      /\ Q!Kept(m, s, Q!Used(m) \ {f})
  <2>1. CASE m.frag[f].size > size
    <3>1. f \in Q!Used(m) /\ size <= m.frag[f].size /\ HeapInv(m)
      BY <1>5, <1>6
    <3>2. s = Q!split_frag(m, f, size)
      BY <2>1
    <3> HIDE DEF s
    <3> QED
      BY <3>1, <3>2, CutRight
  <2>2. CASE ~ (m.frag[f].size > size)
    BY <2>2, <1>5, <1>6 DEF SameRest, Q!Kept
  <2> QED
    BY <2>1, <2>2
<1> HIDE DEF s
<1>8. s.frag[f].size - qm.frag[f].size \in Int
  <2>1. s.frag \in Frags /\ f \in DOMAIN s.frag
    BY <1>6, <1>7 DEF HeapInv, Heaps, Q!Used
  <2>2. s.frag[f].size \in Nat
    BY <2>1, FragTyped
  <2> QED
    BY <2>2, <1>2
<1>9. HeapInv(t) /\ t.frag = s.frag /\ SameRest(s, t)
  BY <1>7, <1>8, TakesKeeps
<1> HIDE DEF t
<1> QED
  BY <1>3, <1>5, <1>6, <1>7, <1>9 DEF Q!Used, Q!IsFree, Q!Kept, SameRest, q

(* realloc gives what was the caller's or nobody's (q_malloc.c:502). *)
LEMMA ReallocRight ==
  ASSUME HeapUnits, NEW qm, HeapInv(qm), NEW f \in Q!Used(qm), NEW size \in Nat
  PROVE  LET a == Q!qm_realloc(qm, f, size) IN
         /\ HeapInv(a.qm) /\ SameRest(qm, a.qm)
         /\ Q!Kept(qm, a.qm, Q!Used(qm) \ {f})
         /\ a.p # Q!NULL => a.qm.frag[a.p].size >= size /\ Q!Used(a.qm) = (Q!Used(qm) \ {f}) \union {a.p}
         /\ a.p = Q!NULL /\ size > 0 => a.qm = qm
<1> DEFINE n == Q!FRAG_NEXT(qm, f)
           a == Q!qm_realloc(qm, f, size)
<1>1. f \in DOMAIN qm.frag /\ qm.frag \in Frags /\ f # Q!NULL
  BY FragTyped DEF Q!Used, HeapInv, Heaps, Q!NULL
<1>2. qm.frag[f].size \in Nat
  BY <1>1, FragTyped
<1>3. ASSUME NEW q, a = Q!Answer(q, f), HeapInv(q), SameRest(qm, q), Q!Used(q) = Q!Used(qm), q.frag[f].size >= size,
             Q!Kept(qm, q, Q!Used(qm) \ {f})
      PROVE  /\ HeapInv(a.qm) /\ SameRest(qm, a.qm)
             /\ Q!Kept(qm, a.qm, Q!Used(qm) \ {f}) /\ a.p # Q!NULL
             /\ a.qm.frag[a.p].size >= size /\ Q!Used(a.qm) = (Q!Used(qm) \ {f}) \union {a.p}
  <2>1. a.qm = q /\ a.p = f
    BY <1>3 DEF Q!Answer
  <2> HIDE DEF a
  <2> QED
    BY <1>1, <1>3, <2>1
<1>4. CASE size = 0
  <2> DEFINE q == Q!qm_free(qm, f)
  <2>1. a = Q!Answer(q, Q!NULL)
    BY <1>4 DEF Q!qm_realloc
  <2>2. HeapInv(q) /\ SameRest(qm, q) /\ Q!Kept(qm, q, Q!Used(qm) \ {f})
    BY FreeRight
  <2> HIDE DEF q, a
  <2>3. a.qm = q /\ a.p = Q!NULL
    BY <2>1 DEF Q!Answer
  <2> QED
    BY <1>4, <2>2, <2>3 DEF a
<1>5. CASE size > 0 /\ qm.frag[f].size > size
  <2>1. a = Q!Answer(Q!Shrink(qm, f, size), f)
    BY <1>2, <1>5 DEF Q!qm_realloc
  <2>2. size <= qm.frag[f].size
    BY <1>2, <1>5
  <2> HIDE DEF a
  <2> QED
    BY <2>1, <2>2, <1>3, ShrinkRight DEF a
<1>6. CASE size > 0 /\ qm.frag[f].size = size
  <2>1. a = Q!Answer(qm, f)
    BY <1>2, <1>6 DEF Q!qm_realloc
  <2> HIDE DEF a
  <2>2. SameRest(qm, qm) /\ Q!Kept(qm, qm, Q!Used(qm) \ {f}) /\ qm.frag[f].size >= size
    BY <1>2, <1>6 DEF SameRest, Q!Kept
  <2> QED
    BY <2>1, <2>2, <1>3 DEF a
<1>7. CASE size > 0 /\ qm.frag[f].size < size
  <2> DEFINE fits == Q!Exists(qm, n) /\ Q!IsFree(qm, n) /\ qm.frag[n].size + FRAG_OVERHEAD >= size - qm.frag[f].size
  <2>1. a = IF fits THEN Q!Answer(Q!GrowInPlace(qm, f, size), f) ELSE Q!Move(qm, f, size)
    BY <1>2, <1>7 DEF Q!qm_realloc
  <2> HIDE DEF a
  <2>2. CASE fits
    <3>1. n \in DOMAIN qm.frag /\ Beside(qm.frag, f, n) /\ qm.frag[n].free
          /\ qm.frag[n].size + FRAG_OVERHEAD >= size - qm.frag[f].size
      BY <2>2 DEF Q!Exists, Q!IsFree, Q!FRAG_NEXT, Beside, End
    <3> HIDE DEF n
    <3> QED
      BY <2>1, <2>2, <3>1, <1>3, GrowRight DEF a
  <2>3. CASE ~ fits
    <3> DEFINE c == Q!qm_malloc(qm, size)
               r == Q!qm_free(c.qm, f)
    <3>1. a = IF c.p = Q!NULL THEN c ELSE Q!Answer(r, c.p)
      BY <2>1, <2>3 DEF Q!Move
    <3>2. /\ HeapInv(c.qm) /\ SameRest(qm, c.qm)
          /\ c.p = Q!NULL => c.qm = qm
          /\ c.p # Q!NULL => /\ c.p \in DOMAIN c.qm.frag /\ c.qm.frag[c.p].size >= size
                             /\ c.p \notin Q!Used(qm) /\ Q!Used(c.qm) = Q!Used(qm) \union {c.p}
          /\ Q!Kept(qm, c.qm, Q!Used(qm))
      BY MallocRight
    <3> HIDE DEF c
    <3>3. CASE c.p = Q!NULL
      BY <3>1, <3>2, <3>3 DEF Q!Kept, a
    <3>4. CASE c.p # Q!NULL
      <4>1. f \in Q!Used(c.qm)
        BY <3>2, <3>4
      <4>2. HeapInv(r) /\ SameRest(c.qm, r) /\ Q!Used(r) = Q!Used(c.qm) \ {f} /\ Q!Kept(c.qm, r, Q!Used(c.qm) \ {f})
        BY <3>2, <4>1, FreeRight
      <4> HIDE DEF r
      <4>3. a.qm = r /\ a.p = c.p
        BY <3>1, <3>4 DEF Q!Answer
      <4>4. c.p # f /\ Q!Used(r) = (Q!Used(qm) \ {f}) \union {c.p}
        BY <3>2, <3>4, <4>2
      <4>5. r.frag[c.p] = c.qm.frag[c.p]
        BY <3>2, <3>4, <4>2, <4>4 DEF Q!Kept
      <4>6. Q!Kept(qm, r, Q!Used(qm) \ {f})
        BY <3>2, <3>4, <4>2 DEF Q!Kept
      <4> QED
        BY <3>2, <3>4, <4>2, <4>3, <4>4, <4>5, <4>6 DEF SameRest, a
    <3> QED
      BY <3>3, <3>4
  <2> QED
    BY <2>2, <2>3
<1> QED
  BY <1>2, <1>4, <1>5, <1>6, <1>7

(* Whatever is asked of the heap, in any order: the fragments lie side by   *)
(* side and none reaches into another, a block that is given is large       *)
(* enough and was nobody's, the others keep theirs, and a block that could  *)
(* not be grown stays its owner's (q_malloc.c:350, 414, 502).               *)
THEOREM HeapHolds ==
  ASSUME HeapUnits, NEW qm, HeapInv(qm), NEW Sizes \in SUBSET Nat, NEW Shrinks, NEW MaxDrift
  PROVE  /\ Q!SideBySide(qm)
         /\ \A q \in Q!After(qm, Sizes, Shrinks, MaxDrift) : HeapInv(q)
         /\ Q!CallsRight(qm, Sizes)
<1>1. ASSUME NEW q \in Q!After(qm, Sizes, Shrinks, MaxDrift) PROVE HeapInv(q)
  <2>1. \/ \E s \in Sizes : q = Q!qm_malloc(qm, s).qm
        \/ \E f \in Q!Used(qm) : q = Q!qm_free(qm, f)
        \/ \E f \in Q!Used(qm), s \in Sizes : q = Q!qm_realloc(qm, f, s).qm
        \/ \E f \in Q!Used(qm), s \in Sizes : q = Q!shm_resize(qm, f, s).qm
    BY DEF Q!After
  <2>2. ASSUME NEW s \in Sizes PROVE s \in Nat /\ HeapInv(Q!qm_malloc(qm, s).qm)
    BY MallocRight
  <2>3. ASSUME NEW f \in Q!Used(qm) PROVE HeapInv(Q!qm_free(qm, f))
    BY FreeRight
  <2>4. ASSUME NEW f \in Q!Used(qm), NEW s \in Sizes PROVE HeapInv(Q!qm_realloc(qm, f, s).qm)
    BY ReallocRight
  <2>5. ASSUME NEW f \in Q!Used(qm), NEW s \in Sizes PROVE HeapInv(Q!shm_resize(qm, f, s).qm)
    <3>1. HeapInv(Q!qm_free(qm, f)) /\ s \in Nat
      BY <2>2, <2>3
    <3>2. HeapInv(Q!qm_malloc(Q!qm_free(qm, f), s).qm)
      BY <3>1, MallocRight
    <3> QED
      BY <3>2 DEF Q!shm_resize
  <2> QED
    BY <2>1, <2>2, <2>3, <2>4, <2>5
<1>2. ASSUME NEW size \in Sizes
      PROVE  LET a == Q!qm_malloc(qm, size)
             IN /\ Q!Kept(qm, a.qm, Q!Used(qm))
                /\ a.p # Q!NULL => a.qm.frag[a.p].size >= size /\ Q!Used(a.qm) = Q!Used(qm) \union {a.p} /\ a.p \notin Q!Used(qm)
                /\ a.p = Q!NULL => a.qm = qm
  BY MallocRight
<1>3. ASSUME NEW size \in Sizes, NEW f \in Q!Used(qm)
      PROVE  LET a == Q!qm_realloc(qm, f, size)
             IN /\ Q!Kept(qm, a.qm, Q!Used(qm) \ {f})
                /\ a.p # Q!NULL => a.qm.frag[a.p].size >= size /\ Q!Used(a.qm) = (Q!Used(qm) \ {f}) \union {a.p}
                /\ a.p = Q!NULL /\ size > 0 => a.qm = qm
  BY ReallocRight
<1>4. Q!SideBySide(qm)
  <2>1. qm.frag \in Frags /\ Laid(qm.frag, qm.size)
    BY DEF HeapInv, Heaps
  <2> QED
    BY <2>1, FragTyped DEF Laid, End, Q!SideBySide, Q!Exists, Q!FRAG_NEXT
<1> QED
  BY <1>1, <1>2, <1>3, <1>4 DEF Q!CallsRight

(* So it is of the heap as it is made, with one free fragment               *)
(* (q_malloc.c:183).                                                        *)
THEOREM HeapMade ==
  ASSUME HeapUnits, NEW size \in Nat, size >= FRAG_OVERHEAD, Q!GET_HASH(size) \in Nat, NEW join \in BOOLEAN
  PROVE  HeapInv(Q!qm_malloc_init(size, join))
<1> DEFINE frag == [f \in {0} |-> [size |-> size - FRAG_OVERHEAD, free |-> FALSE]]
           hash == [h \in 0 .. Q!GET_HASH(size) |-> [list |-> <<>>, no |-> 0]]
           qm == [size |-> size, used |-> 0, real_used |-> FRAG_OVERHEAD, join |-> join, frag |-> frag, free_hash |-> hash]
<1>1. Q!qm_malloc_init(size, join) = Q!qm_insert_free(qm, 0)
  BY DEF Q!qm_malloc_init
<1>2. frag \in Frags /\ DOMAIN frag = {0} /\ frag[0].size = size - FRAG_OVERHEAD
  <2>1. size - FRAG_OVERHEAD \in Nat /\ {0} \in SUBSET Nat
    BY DEF HeapUnits
  <2>2. frag \in [{0} -> [size : Nat, free : BOOLEAN]]
    BY <2>1
  <2> HIDE DEF frag
  <2>3. frag \in Frags
    BY <2>1, <2>2, FragMade
  <2> QED
    BY <2>3 DEF frag
<1>3. hash \in Hashes /\ \A h \in DOMAIN hash : hash[h].list = <<>>
  <2>1. hash \in [0 .. Q!GET_HASH(size) -> [list : Seq(Nat), no : Int]] /\ 0 .. Q!GET_HASH(size) \in SUBSET Nat
    OBVIOUS
  <2>2. \A h \in DOMAIN hash : hash[h].list = <<>>
    OBVIOUS
  <2> HIDE DEF hash
  <2> QED
    BY <2>1, <2>2, HashMade
<1> HIDE DEF frag, hash
<1>4. qm \in Heaps /\ qm.frag = frag /\ qm.free_hash = hash /\ qm.size = size
  BY <1>2, <1>3 DEF Heaps, HeapUnits
<1> HIDE DEF qm
<1>5. Laid(qm.frag, qm.size)
  BY <1>2, <1>4 DEF Laid, End, HeapUnits
<1>6. Elems(<<>>) = {} /\ Once(<<>>)
  BY DEF Elems, Once
<1>7. ListInv(qm.frag, qm.free_hash) /\ Unlisted(qm.free_hash, 0)
  BY <1>3, <1>4, <1>6 DEF ListInv, Unlisted
<1>8. HeapInv(qm) /\ 0 \in DOMAIN qm.frag
  BY <1>2, <1>4, <1>5, <1>7 DEF HeapInv
<1> QED
  BY <1>1, <1>7, <1>8, InsertKeeps
=============================================================================
