--------------------------------- MODULE MySql ---------------------------------
(***************************************************************************)
(* src/core/modules/db_mysql/dbase.c: a connection to the server, its      *)
(* prepared statements and what becomes of both when the connection is     *)
(* lost.  One thread at a time has the connection, so that its calls       *)
(* follow each other; each may find the connection lost, be refused by the *)
(* server, or find no memory.                                              *)
(***************************************************************************)
EXTENDS Naturals, FiniteSets

CONSTANTS Queries,     (* prepared, each for its own table *)
          Slot,        (* the statement (ps_idx) a query belongs to *)
          Selects,     (* those that have columns *)
          MaxTrouble   (* how often something goes wrong *)

ASSUME QueriesAssumption == Queries # {}

Slots == { Slot[q] : q \in Queries }

(* The handle of a context: "none" for no context, "null", "raw" when it   *)
(* is not prepared, else "ready" for the connection of that number.        *)
NoCtx == [is |-> "none", con |-> 0]
Null == [is |-> "null", con |-> 0]
Raw == [is |-> "raw", con |-> 0]
Ready(n) == [is |-> "ready", con |-> n]

VARIABLES
  disconnected, errno,  (* the error is that of a lost connection, or another *)
  con,                  (* number of the connection *)
  stmt,                 (* the handle of each query's context *)
  slots,                (* "none", "unbound" without bind_out, "bound" *)
  freed,                (* a freed statement is in ps_list *)
  at,                   (* where the thread is *)
  query, i, round,      (* i of the loops that prepare, round of that which executes *)
  ran, lost,            (* how often the query was executed, and the connection lost until then *)
  ret,                  (* what the last query returned *)
  crashed, starved,     (* there was no memory once *)
  trouble

mysqlVars == <<disconnected, errno, con, stmt, slots, freed, at, query, i, round, ran, lost, ret, crashed, starved, trouble>>

MySqlInit ==
  /\ disconnected = FALSE /\ errno = "lost" /\ con = 1
  /\ stmt = [q \in Queries |-> NoCtx] /\ slots = [s \in Slots |-> "none"] /\ freed = FALSE
  /\ at = "idle" /\ query \in { CHOOSE q \in Queries : TRUE } /\ i = 1 /\ round = 0
  /\ ran = 0 /\ lost = 0 /\ ret = "none"
  /\ crashed = FALSE /\ starved = FALSE /\ trouble = 0

-----------------------------------------------------------------------------
(* run_mysql_cmd *)

(* Only the statement in use is reset. *)
reset_all_statements_bug(st) == [st EXCEPT ![query] = IF @.is = "none" THEN @ ELSE Null]

reset_all_statements(st) == [q \in Queries |-> IF st[q].is = "none" THEN NoCtx ELSE Null]

Outcome(code, st) ==
  [code |-> code, disconnected |-> FALSE, errno |-> "lost", con |-> con, stmt |-> st, lost |-> 0, cost |-> 0]

Reconnected_bug(o) == [o EXCEPT !.code = 1, !.disconnected = disconnected]

(* One of three attempts. *)
Reconnected(o) == [o EXCEPT !.code = 1, !.con = con + 1]

(* None: with an error other than that of a lost connection it will never  *)
(* be tried again.                                                         *)
NotReconnected(o) == { [o EXCEPT !.disconnected = TRUE, !.errno = e, !.cost = 1] : e \in {"lost", "other"} }

(* The handles being st, what a command may come to: code 0 for success,   *)
(* 1 when it was not run but the connection is there again, 2 for an error.*)
Commands(st) ==
  IF ~ disconnected THEN
    LET Lost == [Outcome(2, reset_all_statements(st)) EXCEPT !.lost = 1, !.cost = 1]
    IN {Outcome(0, st), [Outcome(2, st) EXCEPT !.cost = 1], Reconnected(Lost)} \union NotReconnected(Lost)
  ELSE IF errno = "lost" THEN {Reconnected(Outcome(2, st))} \union NotReconnected(Outcome(2, st))
  ELSE {[Outcome(2, st) EXCEPT !.disconnected = TRUE, !.errno = errno]}

(* The walk over ps_list when a connection is lost. *)
Command(o) ==
  /\ trouble + o.cost <= MaxTrouble
  /\ trouble' = trouble + o.cost
  /\ disconnected' = o.disconnected /\ errno' = o.errno /\ con' = o.con
  /\ lost' = lost + o.lost
  /\ crashed' = (freed /\ o.lost > 0)

NoCommand == UNCHANGED <<disconnected, errno, con, lost, crashed>>
Trouble == trouble < MaxTrouble /\ trouble' = trouble + 1

Return(r) == at' = "idle" /\ ret' = r /\ UNCHANGED <<i, round>>
Goto(l) == at' = l /\ UNCHANGED ret

-----------------------------------------------------------------------------
(* A prepared query: db_mysql_query, _insert, _delete, _update *)

Begin_bug(q) ==
  /\ at = "idle" /\ ~ crashed
  /\ query' = q /\ i' = 1 /\ round' = 0 /\ ran' = 0 /\ lost' = IF disconnected THEN 1 ELSE 0
  /\ Goto(IF stmt[q].is = "none" THEN "prepare" ELSE "execute")
  /\ UNCHANGED <<disconnected, errno, con, stmt, slots, freed, crashed, starved, trouble>>

(* has_stmt_ctx finds the context by the table. *)
Begin(q) ==
  /\ at = "idle" /\ ~ crashed
  /\ query' = q /\ i' = 1 /\ round' = 0 /\ ran' = 0 /\ lost' = IF disconnected THEN 1 ELSE 0
  /\ Goto(IF stmt[q].is = "none" THEN "prepare" ELSE IF stmt[q].is = "null" THEN "reinit" ELSE "execute")
  /\ UNCHANGED <<disconnected, errno, con, stmt, slots, freed, crashed, starved, trouble>>

(* The new context has its handle, prepared or not. *)
Link(st, handle) ==
  /\ stmt' = [st EXCEPT ![query] = handle]
  /\ slots' = [slots EXCEPT ![Slot[query]] = IF @ = "none" THEN "unbound" ELSE @]

(* get_new_stmt_ctx: two rounds, after the second of which nobody looks    *)
(* whether the statement is prepared.                                      *)
get_new_stmt_ctx ==
  /\ at = "prepare" /\ ~ crashed
  /\ \E o \in Commands(stmt) :
       /\ Command(o)
       /\ \/ o.code = 0 /\ Link(o.stmt, Ready(o.con)) /\ Goto("execute") /\ UNCHANGED <<i, round>>
          \/ o.code = 1 /\ i = 2 /\ Link(o.stmt, Raw) /\ Goto("execute") /\ UNCHANGED <<i, round>>
          \/ o.code = 1 /\ i = 1 /\ i' = 2 /\ stmt' = o.stmt /\ UNCHANGED <<slots, at, ret, round>>
          \/ o.code = 2 /\ stmt' = o.stmt /\ Return("error") /\ UNCHANGED slots
  /\ UNCHANGED <<freed, query, ran, starved>>

NoContext ==
  /\ at = "prepare" /\ ~ crashed
  /\ Trouble /\ starved' = TRUE
  /\ NoCommand /\ Return("error")
  /\ UNCHANGED <<stmt, slots, freed, query, ran>>

(* How often a query is executed. *)
Rounds_bug == 1

Rounds == 2

(* Two rounds; the handle is closed behind the second, if there is one.    *)
re_init_statement ==
  /\ at = "reinit" /\ ~ crashed
  /\ \E o \in Commands([stmt EXCEPT ![query] = Raw]) :
       LET close == stmt' = [o.stmt EXCEPT ![query] = Null] /\ Return("error")
       IN \/ /\ o.code = 0 /\ Command(o)
             /\ stmt' = [o.stmt EXCEPT ![query] = Ready(o.con)]
             /\ Goto(IF round < Rounds THEN "execute" ELSE "executed") /\ UNCHANGED <<i, round>>
          \/ /\ o.code = 1 /\ i = 1 /\ Command(o)
             /\ i' = 2 /\ stmt' = o.stmt /\ UNCHANGED <<at, ret, round>>
          \/ /\ o.code = 2 \/ (o.code = 1 /\ i = 2)
             /\ o.stmt[query] # Null /\ Command(o) /\ close
          \/ /\ o.code = 2 \/ (o.code = 1 /\ i = 2)
             /\ o.stmt[query] = Null /\ trouble + o.cost <= MaxTrouble
             /\ crashed' = TRUE /\ lost' = lost + o.lost /\ trouble' = trouble + o.cost
             /\ disconnected' = o.disconnected /\ errno' = o.errno /\ con' = o.con
             /\ close
  /\ UNCHANGED <<slots, freed, query, ran, starved>>

(* mysql_stmt_init has none: what it gave is closed all the same. *)
NoHandle ==
  /\ at = "reinit" /\ ~ crashed
  /\ Trouble /\ starved' = TRUE /\ crashed' = TRUE
  /\ Return("error")
  /\ UNCHANGED <<disconnected, errno, con, lost, stmt, slots, freed, query, ran>>

(* The statement is bound and executed; the server may have done it before *)
(* the connection was lost.                                                *)
Execute ==
  /\ at = "execute" /\ ~ crashed
  /\ \/ /\ stmt[query].is = "raw"
        /\ NoCommand /\ Return("error") /\ UNCHANGED <<stmt, ran, trouble>>
     \/ /\ stmt[query].is = "null"
        /\ crashed' = TRUE /\ Return("error") /\ UNCHANGED <<disconnected, errno, con, lost, stmt, ran, trouble>>
     \/ /\ stmt[query].is = "ready"
        /\ \E o \in Commands(stmt), done \in 0 .. 1 :
             /\ Command(o) /\ stmt' = o.stmt
             /\ done = 1 => o.code = 0 \/ o.lost > 0
             /\ o.code = 0 => done = 1
             /\ ran' = ran + done
             /\ \/ o.code = 0 /\ Goto("store") /\ UNCHANGED <<i, round>>
                \/ o.code = 2 /\ Return("error")
                \/ o.code = 1 /\ round + 1 <= Rounds /\ round' = round + 1 /\ i' = 1 /\ Goto("reinit")
  /\ UNCHANGED <<slots, freed, query, starved>>

(* The last round ended with a new handle that was not executed: only the  *)
(* rows tell.                                                              *)
NotExecuted ==
  /\ at = "executed" /\ ~ crashed
  /\ Return(IF query \in Selects THEN "error" ELSE "ok")
  /\ UNCHANGED <<disconnected, errno, con, stmt, slots, freed, query, ran, lost, crashed, starved, trouble>>

(* bind_out is allocated for the first rows of the statement. *)
Store ==
  /\ at = "store" /\ ~ crashed
  /\ \/ /\ Return("ok") /\ UNCHANGED trouble
        /\ slots' = IF query \in Selects THEN [slots EXCEPT ![Slot[query]] = "bound"] ELSE slots
     \/ query \in Selects /\ Trouble /\ Return("error") /\ slots' = [slots EXCEPT ![Slot[query]] = "bound"]
  /\ NoCommand
  /\ UNCHANGED <<stmt, freed, query, ran, starved>>

(* No memory for it: the statement is freed, but stays in the list. *)
NoRows ==
  /\ at = "store" /\ ~ crashed /\ query \in Selects /\ slots[Slot[query]] = "unbound"
  /\ Trouble /\ starved' = TRUE /\ freed' = TRUE
  /\ slots' = [slots EXCEPT ![Slot[query]] = "none"]
  /\ stmt' = [q \in Queries |-> IF Slot[q] = Slot[query] THEN NoCtx ELSE stmt[q]]
  /\ NoCommand /\ Return("error")
  /\ UNCHANGED <<query, ran>>

(* A query that is not prepared: db_mysql_submit_query sends it, and again *)
(* on a new connection.                                                    *)
db_mysql_submit_query ==
  /\ at = "idle" /\ ~ crashed
  /\ \E o \in Commands(stmt) :
       /\ Command(o) /\ stmt' = o.stmt
       /\ ret' \in IF o.code = 0 THEN {"ok"} ELSE IF o.code = 1 THEN {"ok", "error"} ELSE {"error"}
       /\ ran' = IF ret' = "ok" THEN 1 ELSE 0
  /\ UNCHANGED <<slots, freed, at, query, i, round, starved>>

db_mysql_do_prepared_query ==
  get_new_stmt_ctx \/ NoContext \/ re_init_statement \/ NoHandle \/ Execute \/ NotExecuted \/ Store \/ NoRows

MySqlNext == (\E q \in Queries : Begin(q)) \/ db_mysql_do_prepared_query \/ db_mysql_submit_query

Steps == (\E q \in Queries : Begin(q)) \/ db_mysql_do_prepared_query

(* Queries are asked again and again. *)
MySqlSpec == MySqlInit /\ [][MySqlNext]_mysqlVars /\ WF_mysqlVars(Steps)

-----------------------------------------------------------------------------
(* Properties *)

(* dbase.c:91: a handle that is used is of the connection there is, and    *)
(* none is left when the connection is lost, whichever query found out.    *)
HandlesLive ==
  \A q \in Queries : stmt[q].is = "ready" => ~ disconnected /\ stmt[q].con = con

(* dbase.c:493: a query that succeeds was executed, unless the connection  *)
(* was lost twice under it, and is repeated only for a lost connection.    *)
ToldRight == at = "idle" => (ret = "ok" => ran >= 1 \/ lost >= 2) /\ ran <= 1 + lost

(* dbase.c:341: with enough memory, a connection that is lost once and got *)
(* again does no harm.                                                     *)
NoCrash == crashed => starved \/ lost >= 2 \/ disconnected

(* dbase.c: the handles of statements are those of the connection there     *)
(* is, and what a query returns is what was done.                           *)
ConnectionRight == HandlesLive /\ ToldRight /\ NoCrash

(* The connection that will not be tried again, the statement that was     *)
(* never prepared, the list with freed memory.                             *)
Broken ==
  \/ crashed \/ freed \/ (disconnected /\ errno = "other")
  \/ at = "idle" /\ \E q \in Queries : stmt[q].is = "raw"

(* dbase.c:83: once the server stays, queries succeed again. *)
Heals == ([]<>(at = "idle" /\ ret = "ok")) \/ <>Broken
=============================================================================
