------------------------------- MODULE MCThreads -------------------------------
(***************************************************************************)
(* One instance of each component whose steps several threads take.  part  *)
(* names the one a behaviour is about; the variables of the others keep    *)
(* their first values.                                                     *)
(***************************************************************************)
EXTENDS Threading, MsgFlow, PollReactor, MiStream

VARIABLES part

FlowPart == part = "flow" /\ FlowNext /\ UNCHANGED <<part, pollVars, miVars, threadVars>>
PollPart(step) == part = "poll" /\ step /\ UNCHANGED <<part, flowVars, miVars, threadVars>>
StreamPart(step) == part = "mi" /\ step /\ UNCHANGED <<part, flowVars, pollVars, threadVars>>
ThreadPart(step) == part = "threads" /\ step /\ UNCHANGED <<part, flowVars, pollVars, miVars>>

vars == <<part, flowVars, pollVars, miVars, threadVars>>

PartInit ==
  /\ part \in {"flow", "poll", "mi", "threads"}
  /\ FlowInit /\ kind["m3"] = "request"
  /\ (part # "flow" => \A x \in DOMAIN kind : kind[x] = "request")
  /\ PollInit /\ (part # "poll" => back = "poll")
  /\ MiInit /\ (part # "mi" => patient = {})
  /\ Init /\ (part # "threads" => rt_coredump)

PartNext == FlowPart \/ PollPart(PollNext) \/ StreamPart(MiNext) \/ ThreadPart(Next)

(* The loops of the reactors and the workers never stop; for the threads   *)
(* see Threading.                                                          *)
PartSpec ==
  /\ PartInit /\ [][PartNext]_vars
  /\ WF_vars(PollPart(Loop)) /\ WF_vars(PollPart(Runs))
  /\ WF_vars(StreamPart(Accept)) /\ \A w \in Wraps : WF_vars(StreamPart(mi_listener(w)))
  /\ WF_vars(ThreadPart(Attendant)) /\ SF_vars(ThreadPart(Realloc))
  /\ \A t \in Threads : WF_vars(ThreadPart(Handled(t))) /\ WF_vars(ThreadPart(Die(t)))

(* poll.c, select.c, kqueue.c, mi_listener.c: a socket is in one place,      *)
(* heard by one thread, no event is made up, and what is answered are the   *)
(* commands of the connection in their order.                               *)
SocketsRight == InOnePlace /\ Fresh /\ Honest /\ OneUser /\ AnswersRight

(* poll.c, select.c, kqueue.c, mi_listener.c, main.c: a descriptor the      *)
(* reactor has is heard, a command is answered, a shutdown ends.            *)
EventsHandled == DescriptorsHeard /\ CommandsAnswered /\ ShutdownEnds
=============================================================================
