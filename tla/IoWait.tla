-------------------------------- MODULE IoWait --------------------------------
(***************************************************************************)
(* src/core/reactor/io_wait.c and reactor.c: which back-end a reactor      *)
(* gets, what it takes, and what is given back.                            *)
(*                                                                         *)
(* A system is what the program was compiled with, the kernel it runs on   *)
(* (release is "old" or "new" for what the back-ends of that kernel need)  *)
(* and the first step that fails, if any.                                  *)
(***************************************************************************)
EXTENDS Naturals, FiniteSets

Methods == {"none", "poll", "epoll", "select", "kqueue", "/dev/poll"}

Steps == {"nothing", "reactor", "disp", "handler", "pipe", "hash", "array", "kernel", "watch"}

Systems ==
  [have : SUBSET {"epoll", "select", "kqueue", "/dev/poll"},
   os : {"linux", "freebsd", "netbsd", "openbsd", "solaris", "darwin"},
   release : {"old", "new"}, fails : Steps]

(* The systems whose kernel has to be new for a method. *)
Since(method) ==
  CASE method = "epoll" -> {"linux", "freebsd", "netbsd", "openbsd", "solaris", "darwin"}
    [] method = "kqueue" -> {"freebsd", "netbsd", "openbsd"}
    [] method = "/dev/poll" -> {"solaris"}
    [] OTHER -> {}
NewEnough(sys, method) == sys.os \in Since(method) => sys.release = "new"

(* No error for "none": the method is then chosen. *)
check_poll_method(sys, method) ==
  method \in {"none", "poll"} \/ (method \in sys.have /\ NewEnough(sys, method))

(* /dev/poll is only chosen on Solaris. *)
choose_poll_method_bug(sys) ==
  CASE "epoll" \in sys.have -> "epoll"
    [] "epoll" \notin sys.have /\ "kqueue" \in sys.have -> "kqueue"
    [] OTHER -> "poll"

choose_poll_method(sys) ==
  LET may(method) == method \in sys.have /\ NewEnough(sys, method)
  IN CASE may("epoll") -> "epoll"
       [] ~ may("epoll") /\ may("kqueue") -> "kqueue"
       [] ~ may("epoll") /\ ~ may("kqueue") /\ may("/dev/poll") /\ sys.os = "solaris" -> "/dev/poll"
       [] OTHER -> "poll"

(* The index of a name, looked for from the last one on. *)
get_poll_type(name) == IF name \in Methods THEN name ELSE "none"

-----------------------------------------------------------------------------
(* What is held: as far as the steps before the one that fails. *)
Got(sys, steps, held) ==
  IF sys.fails \in steps THEN [ok |-> FALSE, held |-> held] ELSE [ok |-> TRUE, held |-> held \union steps]

Then(sys, h, steps) == IF h.ok THEN Got(sys, steps, h.held) ELSE h

(* epoll_init, kqueue_init, init_devpoll; select_init and poll_init do not  *)
(* open anything.                                                           *)
Kernel(sys, method, h) ==
  CASE method \in {"poll", "select"} -> Then(sys, h, {"array"})
    [] method = "epoll" -> LET k == Then(sys, Then(sys, h, {"array"}), {"kernel"})
                           IN IF k.ok /\ sys.fails = "watch" THEN [k EXCEPT !.ok = FALSE] ELSE k
    [] method \in {"kqueue", "/dev/poll"} -> Then(sys, Then(sys, h, {"array"}), {"kernel"})

init_io_wait(sys, wanted, held) ==
  LET method == IF ~ check_poll_method(sys, wanted) \/ wanted = "none"
                THEN choose_poll_method(sys) ELSE wanted
      h == Kernel(sys, method, Then(sys, Got(sys, {"pipe"}, held), {"hash"}))
  IN [ok |-> h.ok, held |-> h.held, method |-> method]

(* Only poll closes the pipe. *)
destroy_io_wait_bug(h) == h.held \ ({"hash"} \union IF h.method = "poll" THEN {"pipe"} ELSE {})

destroy_io_wait(h) ==
  h.held \ ({"array", "hash"}
              \union CASE h.method = "poll" -> {"pipe"}
                       [] h.method \in {"epoll", "kqueue", "/dev/poll"} -> {"kernel"}
                       [] OTHER -> {})

(* After an error nothing is given back. *)
new_reactor(sys, type) ==
  LET r == Then(sys, Got(sys, {"reactor"}, {}), {"disp"})
      h == Then(sys, r, {"handler"})
  IN IF ~ r.ok \/ type \notin {"REACTOR_IN", "REACTOR_OUT"} \/ ~ h.ok
     THEN [ok |-> FALSE, held |-> h.held \ {"disp"}, method |-> "none"]
     ELSE init_io_wait(sys, "none", h.held \ {"disp"})

destroy_reactor(h) == destroy_io_wait(h) \ {"handler", "reactor"}

-----------------------------------------------------------------------------
(* Properties *)

(* The back-end is one that was compiled in and that the kernel has,        *)
(* whatever was asked for.                                                  *)
MethodRight(sys) ==
  \A wanted \in Methods :
    LET h == init_io_wait(sys, wanted, {})
    IN /\ check_poll_method(sys, h.method) /\ h.method # "none"
       /\ check_poll_method(sys, wanted) /\ wanted # "none" => h.method = wanted

(* A reactor that was made and destroyed holds nothing but its pipe.        *)
NothingHeld(sys) ==
  \A type \in {"REACTOR_IN", "REACTOR_OUT"} :
    LET h == new_reactor(sys, type)
    IN h.ok => destroy_reactor(h) \subseteq {"pipe"}
=============================================================================
