----------------------------- MODULE AresSockets -----------------------------
(***************************************************************************)
(* src/core/resolve/resolve.c: the sockets of the c-ares library in our    *)
(* reactors.  c-ares is only called under ares_lock, by the thread that    *)
(* asks (next_he), by the timer and by the worker whose reactor saw an     *)
(* event; while it runs it tells of every socket it opens, closes or wants *)
(* to write to (socket_change_callback).  fd_state remembers what c-ares   *)
(* wants and what a reactor was given.                                     *)
(*                                                                         *)
(* A socket that is closed leaves epoll without a word, and its number is  *)
(* given out again.                                                        *)
(***************************************************************************)
EXTENDS Integers, FiniteSets

CONSTANTS Socks,       (* the numbers the kernel gives to sockets *)
          MaxChanges   (* bound on what one call of c-ares does *)

Sides == {"in", "out"}     (* reactor_in and reactor_out *)

VARIABLES opened,   (* the sockets c-ares has *)
          used,     (* IN_USED_BY_ARES, OUT_USED_BY_ARES *)
          inside,   (* IN_INSIDE_REACTOR, OUT_INSIDE_REACTOR *)
          armed,    (* how often the socket is in the reactor *)
          tasks,    (* its tasks in the dispatcher *)
          caller,   (* who holds ares_lock *)
          changes,  (* what c-ares may still do in this call *)
          deaf      (* closed while a reactor had them *)

aresVars == <<opened, used, inside, armed, tasks, caller, changes, deaf>>

None == [side |-> "none", fd |-> 0]

AresInit ==
  /\ opened = {}
  /\ used = [s \in Sides |-> {}]
  /\ inside = [s \in Sides |-> {}]
  /\ armed = [s \in Sides |-> [f \in Socks |-> 0]]
  /\ tasks = [s \in Sides |-> [f \in Socks |-> 0]]
  /\ caller = None
  /\ changes = 0
  /\ deaf = [s \in Sides |-> {}]

(* submit_task, for the sides the test selects. *)
SubmitTo(S, f) ==
  /\ armed' = [s \in Sides |-> IF s \in S THEN [armed[s] EXCEPT ![f] = @ + 1] ELSE armed[s]]
  /\ inside' = [s \in Sides |-> IF s \in S THEN inside[s] \union {f} ELSE inside[s]]

Enter(c) ==
  /\ caller = None
  /\ caller' = c
  /\ changes' = MaxChanges

(* next_he and timeout_func call c-ares. *)
Query ==
  /\ Enter([side |-> "query", fd |-> 0])
  /\ UNCHANGED <<opened, used, inside, armed, tasks, deaf>>

Timeout ==
  /\ Enter([side |-> "timer", fd |-> 0])
  /\ UNCHANGED <<opened, used, inside, armed, tasks, deaf>>

(* The bit is left as it is. *)
reactor_to_ares_bug(s, f) ==
  /\ tasks[s][f] > 0
  /\ Enter([side |-> s, fd |-> f])
  /\ tasks' = [tasks EXCEPT ![s][f] = @ - 1]
  /\ UNCHANGED <<opened, used, armed, deaf, inside>>

(* A worker runs the task of an event: the reactor no longer has it. *)
reactor_to_ares(s, f) ==
  /\ tasks[s][f] > 0
  /\ Enter([side |-> s, fd |-> f])
  /\ tasks' = [tasks EXCEPT ![s][f] = @ - 1]
  /\ inside' = [inside EXCEPT ![s] = @ \ {f}]
  /\ UNCHANGED <<opened, used, armed, deaf>>

(* A socket is submitted again at each change. *)
socket_change_callback_bug(f, wants) ==
  /\ used' = [s \in Sides |-> IF s \in wants THEN used[s] \union {f} ELSE used[s] \ {f}]
  /\ SubmitTo(wants, f)

socket_change_callback(f, wants) ==
  /\ used' = [s \in Sides |-> IF s \in wants THEN used[s] \union {f} ELSE used[s] \ {f}]
  /\ SubmitTo({ s \in wants : f \notin inside[s] }, f)

(* What c-ares may do when called: open the socket with the lowest free     *)
(* number, ask to write to one or stop asking, close one.                   *)
AresCall == caller # None /\ changes > 0 /\ changes' = changes - 1

Opens ==
  /\ AresCall
  /\ \E f \in Socks \ opened :
       /\ \A g \in Socks \ opened : f <= g
       /\ opened' = opened \union {f}
       /\ \E w \in {{"in"}, {"in", "out"}} : socket_change_callback(f, w)
  /\ UNCHANGED <<tasks, caller, deaf>>

Changes ==
  /\ AresCall
  /\ \E f \in opened, w \in {{"in"}, {"in", "out"}} : socket_change_callback(f, w)
  /\ UNCHANGED <<opened, tasks, caller, deaf>>

Closes ==
  /\ AresCall
  /\ \E f \in opened :
       /\ opened' = opened \ {f}
       /\ used' = [s \in Sides |-> used[s] \ {f}]
       /\ armed' = [s \in Sides |-> [armed[s] EXCEPT ![f] = 0]]
       /\ deaf' = [s \in Sides |-> IF armed[s][f] > 0 THEN deaf[s] \union {f} ELSE deaf[s]]
  /\ UNCHANGED <<inside, tasks, caller>>

(* c-ares returns.  After an event the socket goes back to its reactor if   *)
(* c-ares still wants it and has not submitted it meanwhile.                *)
AresReturn ==
  /\ caller # None
  /\ LET s == caller.side
         f == caller.fd
     IN SubmitTo(IF s \in Sides /\ f \in used[s] /\ f \notin inside[s] THEN {s} ELSE {}, f)
  /\ caller' = None
  /\ changes' = 0
  /\ UNCHANGED <<opened, used, tasks, deaf>>

(* The reactor sees an event on a socket it has. *)
Event(s, f) ==
  /\ armed[s][f] > 0
  /\ armed' = [armed EXCEPT ![s][f] = 0]
  /\ tasks' = [tasks EXCEPT ![s][f] = @ + 1]
  /\ UNCHANGED <<opened, used, inside, caller, changes, deaf>>

AresNext ==
  \/ Query \/ Timeout \/ Opens \/ Changes \/ Closes \/ AresReturn
  \/ \E s \in Sides, f \in Socks : reactor_to_ares(s, f) \/ Event(s, f)

AresSpec == AresInit /\ [][AresNext]_aresVars

-----------------------------------------------------------------------------
(* Properties *)

Has(s, f) == armed[s][f] > 0 \/ tasks[s][f] > 0

(* No socket c-ares waits for is forgotten between the three threads that   *)
(* call it: outside of a call it is in the reactor or has a task, unless it *)
(* got the number of a socket that was closed while the reactor had it,     *)
(* whose INSIDE bit nobody clears any more.                                 *)
NoneForgotten ==
  caller = None =>
    \A s \in Sides, f \in Socks : f \in used[s] => Has(s, f) \/ f \in deaf[s]

(* A reactor never has a socket twice, nor once more than the bit says: no  *)
(* two workers call c-ares for one event.                                   *)
OnceInside ==
  \A s \in Sides, f \in Socks :
    /\ armed[s][f] + tasks[s][f] <= 1
    /\ Has(s, f) => f \in inside[s]

(* resolve.c:80: every socket of c-ares is watched, and none twice. *)
SocketsWatched == NoneForgotten /\ OnceInside

(* The resolver answers whatever happened before: a socket c-ares waits for *)
(* is always watched.                                                       *)
AlwaysWatched ==
  caller = None => \A s \in Sides, f \in Socks : f \in used[s] => Has(s, f)
=============================================================================
