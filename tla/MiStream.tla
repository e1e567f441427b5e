------------------------------- MODULE MiStream -------------------------------
(***************************************************************************)
(* src/core/modules/mi_stream: management commands over a fifo and over    *)
(* TCP connections.  A worker reads what has come into the buffer of the   *)
(* connection and, when it ends in an empty line, runs the command of the  *)
(* first line; the answer is written by the task that reactor_out gives    *)
(* out, which gives the connection back to reactor_in.                     *)
(*                                                                         *)
(* A text is a sequence of lines: the head with the command and the name   *)
(* of the reply file, arguments, and the empty line that ends it.          *)
(***************************************************************************)
EXTENDS Naturals, Sequences, SequencesExt, FiniteSetsExt

CONSTANTS Clients,      (* of the TCP port *)
          Commands,     (* what a command may be, of the kinds below *)
          MaxCommands,  (* that are given, over all *)
          MaxBuffer     (* MAX_MI_FIFO_BUFFER, in lines *)

ASSUME MiAssumption == MaxBuffer \in Nat /\ Clients \intersect {"fifo", "server"} = {}

(* "plain" and "input" are good ones without and with arguments; "badarg"  *)
(* has arguments that cannot be parsed, "unknown" is not known, "fails"    *)
(* fails; "nofile" names no reply file, and "file" does without need.      *)

Streams == {"fifo"} \union Clients
Wraps == Streams \union {"server"}

VARIABLES armed,     (* how often it is in reactor_in *)
          listener,  (* where mi_listener is with it, "idle" for nowhere *)
          writer,    (* it waits in reactor_out with an answer *)
          freed,     \* its wrapper is
          waiting,   (* clients that have connected and are not accepted *)
          lines,      (* lines that are sent and not read *)
          gone,      (* clients that have closed *)
          buffer,
          todo,      (* what the client has yet to send of its command *)
          given,     (* the commands of each client *)
          patient,   (* who waits for an answer before the next command *)
          answers,   (* the command and the code of each *)
          reply_fifo_s, (* the file that was named last *)
          starved    \* there was no memory for it

miVars == <<armed, listener, writer, freed, waiting, lines, gone, buffer, todo, given, patient, answers, reply_fifo_s, starved>>

MiInit ==
  /\ armed = [w \in Wraps |-> IF w \in Clients THEN 0 ELSE 1]
  /\ listener = [w \in Wraps |-> "idle"] /\ writer = {}
  /\ freed = {} /\ waiting = Clients
  /\ lines = [w \in Streams |-> <<>>] /\ buffer = lines /\ todo = lines
  /\ gone = {} /\ given = [w \in Streams |-> <<>>]
  /\ patient \in {Streams, {}}
  /\ answers = [w \in Streams |-> <<>>]
  /\ reply_fifo_s = <<"none", 0>> /\ starved = {}

-----------------------------------------------------------------------------
(* The clients *)

Text(k, kind) ==
  LET line(part) == <<[part |-> part, id |-> k]>>
  IN line("head") \o (IF kind \in {"input", "badarg"} THEN line("arg") ELSE <<>>) \o line("end")

Allowed(w) == Commands \ (IF w = "fifo" THEN {"file"} ELSE {"nofile"})

Begin(w) ==
  /\ todo[w] = <<>> /\ w \notin gone /\ MapThenSumSet(LAMBDA v : Len(given[v]), Streams) < MaxCommands
  /\ w \in patient => Len(answers[w]) = Len(given[w])
  /\ \E kind \in Allowed(w) :
       /\ given' = [given EXCEPT ![w] = Append(@, kind)]
       /\ todo' = [todo EXCEPT ![w] = Text(Len(given[w]) + 1, kind)]
  /\ UNCHANGED <<armed, listener, writer, freed, waiting, lines, gone, buffer, patient, answers, reply_fifo_s, starved>>

(* A part of the text, or all. *)
SendText(w) ==
  /\ todo[w] # <<>> /\ w \notin gone
  /\ \E n \in {1, Len(todo[w])} :
       /\ lines' = [lines EXCEPT ![w] = @ \o SubSeq(todo[w], 1, n)]
       /\ todo' = [todo EXCEPT ![w] = SubSeq(@, n + 1, Len(@))]
  /\ UNCHANGED <<armed, listener, writer, freed, waiting, gone, buffer, given, patient, answers, reply_fifo_s, starved>>

(* Of the fifo: nobody reads the reply file. *)
Close(w) ==
  /\ w \notin gone
  /\ gone' = gone \union {w}
  /\ UNCHANGED <<armed, listener, writer, freed, waiting, lines, buffer, todo, given, patient, answers, reply_fifo_s, starved>>

-----------------------------------------------------------------------------
(* mi_listener *)

HasInput(w) == IF w = "server" THEN waiting # {} ELSE lines[w] # <<>> \/ w \in gone \ {"fifo"}

(* The reactor sees an event, a worker gets the task. *)
MiEvent(w) ==
  /\ armed[w] > 0 /\ listener[w] = "idle" /\ HasInput(w)
  /\ armed' = [armed EXCEPT ![w] = @ - 1]
  /\ listener' = [listener EXCEPT ![w] = "read"]
  /\ UNCHANGED <<writer, freed, waiting, lines, gone, buffer, todo, given, patient, answers, reply_fifo_s, starved>>

Resubmit(w) ==
  /\ armed' = [armed EXCEPT ![w] = @ + 1]
  /\ listener' = [listener EXCEPT ![w] = "idle"]

(* There may be no memory for the wrapper: the connection is dropped, but  *)
(* not closed.                                                             *)
Accept ==
  /\ listener["server"] = "read"
  /\ \E c \in waiting :
       /\ waiting' = waiting \ {c}
       /\ listener' = [listener EXCEPT !["server"] = "idle"]
       /\ \/ armed' = [armed EXCEPT ![c] = @ + 1, !["server"] = @ + 1] /\ UNCHANGED freed
          \/ armed' = [armed EXCEPT !["server"] = @ + 1] /\ freed' = freed \union {c}
  /\ UNCHANGED <<writer, lines, gone, buffer, todo, given, patient, answers, reply_fifo_s, starved>>

mi_is_valid(b) == Len(b) > 1 /\ Last(b).part = "end"

(* The buffer keeps what was in it. *)
force_exit_bug(w) == Resubmit(w) /\ UNCHANGED buffer

force_exit(w) == Resubmit(w) /\ buffer' = [buffer EXCEPT ![w] = <<>>]

Kind(w) == given[w][Head(buffer[w]).id]

(* get_reply_filename, for the fifo and for the connection that names one. *)
Names(w, kind) == kind = "file" \/ (w = "fifo" /\ kind # "nofile")
ReplyFilename(w, line) ==
  reply_fifo_s' = IF Names(w, given[w][line.id]) THEN <<w, line.id>> ELSE reply_fifo_s

(* What was read is a command: its first line. *)
FirstLine(w, b) ==
  IF Head(b).part # "head" \/ (w = "fifo" /\ given[w][Head(b).id] = "nofile")
  THEN force_exit(w) /\ UNCHANGED reply_fifo_s
  ELSE /\ listener' = [listener EXCEPT ![w] = "named"]
       /\ buffer' = [buffer EXCEPT ![w] = b]
       /\ ReplyFilename(w, Head(b))
       /\ UNCHANGED armed

(* mi_read_and_append and what follows from it.  A buffer that is full and *)
(* is no command is dropped, and the reading goes on; with the end of the  *)
(* connection everything is.                                               *)
ReadLines(w) ==
  /\ listener[w] = "read"
  /\ LET got == buffer[w] \o lines[w]
         full == SubSeq(got, 1, MaxBuffer)
     IN \/ /\ Len(got) >= MaxBuffer
           /\ lines' = [lines EXCEPT ![w] = SubSeq(got, MaxBuffer + 1, Len(got))]
           /\ IF mi_is_valid(full) THEN FirstLine(w, full)
              ELSE buffer' = [buffer EXCEPT ![w] = <<>>] /\ UNCHANGED <<armed, listener, reply_fifo_s>>
           /\ UNCHANGED freed
        \/ /\ Len(got) < MaxBuffer /\ w \in gone \ {"fifo"}
           /\ freed' = freed \union {w}
           /\ listener' = [listener EXCEPT ![w] = "idle"]
           /\ lines' = [lines EXCEPT ![w] = <<>>]
           /\ UNCHANGED <<armed, buffer, reply_fifo_s>>
        \/ /\ Len(got) < MaxBuffer /\ w \notin gone \ {"fifo"}
           /\ lines' = [lines EXCEPT ![w] = <<>>]
           /\ IF mi_is_valid(got) THEN FirstLine(w, got)
              ELSE Resubmit(w) /\ buffer' = [buffer EXCEPT ![w] = got] /\ UNCHANGED reply_fifo_s
           /\ UNCHANGED freed
  /\ UNCHANGED <<writer, waiting, gone, todo, given, patient, answers, starved>>

(* mi_open_reply_pipe: the file that is named now; if the client does not  *)
(* read it, or it is not its file, there is no answer.                     *)
Open(w) ==
  /\ listener[w] = "named"
  /\ IF w = "fifo" /\ (w \in gone \/ reply_fifo_s # <<w, Head(buffer[w]).id>>)
     THEN force_exit(w)
     ELSE listener' = [listener EXCEPT ![w] = "opened"] /\ UNCHANGED <<armed, buffer>>
  /\ UNCHANGED <<writer, freed, waiting, lines, gone, todo, given, patient, answers, reply_fifo_s, starved>>

WriteAnswer(w, code) ==
  answers' = IF w \in gone THEN answers ELSE [answers EXCEPT ![w] = Append(@, <<Head(buffer[w]).id, code>>)]

Errors == [kind \in {"badarg", "unknown", "fails"} |-> IF kind = "badarg" THEN 400 ELSE 500]

(* The errors are answered at once. *)
Fail(w) ==
  /\ listener[w] = "opened" /\ Kind(w) \in DOMAIN Errors
  /\ WriteAnswer(w, Errors[Kind(w)])
  /\ force_exit(w)
  /\ UNCHANGED <<writer, freed, waiting, lines, gone, todo, given, patient, reply_fifo_s, starved>>

(* The connection goes to both reactors. *)
RunCommand_bug(w) ==
  /\ listener[w] = "opened" /\ Kind(w) \notin DOMAIN Errors
  /\ writer' = writer \union {w}
  /\ Resubmit(w)
  /\ UNCHANGED <<freed, waiting, lines, gone, buffer, todo, given, patient, answers, reply_fifo_s, starved>>

RunCommand(w) ==
  /\ listener[w] = "opened" /\ Kind(w) \notin DOMAIN Errors
  /\ writer' = writer \union {w}
  /\ listener' = [listener EXCEPT ![w] = "idle"]
  /\ UNCHANGED <<armed, freed, waiting, lines, gone, buffer, todo, given, patient, answers, reply_fifo_s, starved>>

(* No memory for the answer: the command was run and nobody is told.       *)
Starve(w) ==
  /\ listener[w] = "opened" /\ Kind(w) \notin DOMAIN Errors
  /\ starved' = starved \union {w}
  /\ force_exit(w)
  /\ UNCHANGED <<writer, freed, waiting, lines, gone, todo, given, patient, answers, reply_fifo_s>>

(* The buffer is used for the answer. *)
mi_writer(w) ==
  /\ w \in writer
  /\ writer' = writer \ {w}
  /\ WriteAnswer(w, 200)
  /\ buffer' = [buffer EXCEPT ![w] = <<>>]
  /\ armed' = [armed EXCEPT ![w] = @ + 1]
  /\ UNCHANGED <<listener, freed, waiting, lines, gone, todo, given, patient, reply_fifo_s, starved>>

Client(w) == Begin(w) \/ SendText(w) \/ Close(w)
mi_listener(w) ==
  \/ MiEvent(w)
  \/ /\ w \in Streams
     /\ ReadLines(w) \/ Open(w) \/ Fail(w) \/ RunCommand(w) \/ Starve(w) \/ mi_writer(w)

MiNext == (\E w \in Streams : Client(w)) \/ Accept \/ \E w \in Wraps : mi_listener(w)

(* The reactors and the workers go on. *)
MiSpec == MiInit /\ [][MiNext]_miVars /\ WF_miVars(Accept) /\ \A w \in Wraps : WF_miVars(mi_listener(w))

-----------------------------------------------------------------------------
(* Properties *)

(* mi_listener.c: a connection is with one reactor or one worker, so that  *)
(* nobody else touches its buffer; and once it is freed, with none.        *)
OneUser ==
  \A w \in Wraps :
    armed[w] + (IF listener[w] = "idle" THEN 0 ELSE 1) + (IF w \in writer THEN 1 ELSE 0)
      = IF w \in freed \union waiting THEN 0 ELSE 1

Code(kind) == IF kind \in DOMAIN Errors THEN Errors[kind] ELSE 200

(* mi_listener.c: the answers of a connection are those of its commands,   *)
(* in their order and each at most once, however the texts were cut up and *)
(* whatever was dropped.                                                   *)
AnswersRight ==
  \A w \in Streams :
    /\ \A i \in DOMAIN answers[w] : answers[w][i][2] = Code(given[w][answers[w][i][1]])
    /\ \A i, j \in DOMAIN answers[w] : i < j => answers[w][i][1] < answers[w][j][1]

(* Nothing was in the way: the client waited for the answers and is still  *)
(* there, there was memory for its wrapper and its answers, and no         *)
(* connection named a file the fifo's worker might have opened instead.    *)
Served(w) ==
  /\ w \in patient \ (gone \union freed \union starved)
  /\ w = "fifo" => /\ \A k \in DOMAIN given[w] : given[w][k] # "nofile"
                   /\ \A c \in Clients : \A k \in DOMAIN given[c] : given[c][k] # "file"

(* mi_listener.c: a command that is sent is answered. *)
CommandsAnswered ==
  \A w \in Streams :
    (Served(w) /\ todo[w] = <<>>) ~> (~ Served(w) \/ Len(answers[w]) = Len(given[w]))
=============================================================================
