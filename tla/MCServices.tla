------------------------------ MODULE MCServices ------------------------------
(***************************************************************************)
(* The services that stand alone.  part names the one a behaviour is       *)
(* about; the variables of the others keep their first values.             *)
(***************************************************************************)
EXTENDS Timer, SipResolve, AresSockets, MySql, TLC

VARIABLES part,
          nodes, size, lock, sem, pc, arg, hand, cur,
          text, msg, walk, called,
          pool_list, returned, killed, failed

heapVars    == <<nodes, size, lock, sem, pc, arg, hand, cur>>
headerVars  == <<text, msg, walk, called>>
initVars    == <<pool_list, returned, killed, failed>>

ResolveCalls == [ip : {FALSE}, port : {FALSE}, proto : {"NONE", "UDP", "TLS", "TCP", "SIP"},
                 sips : BOOLEAN, len : {"short", "no_srv", "no_dns"}]
                \union [ip : BOOLEAN, port : {TRUE}, proto : {"NONE", "TCP"},
                        sips : BOOLEAN, len : {"short", "no_dns"}]

Answers(Lists) == [is : {"nodata", "fail"}, of : {<<>>}] \union [is : {"records"}, of : Lists]

NaptrRecords == Answers({<<"UDP">>, <<"TLS", "UDP">>})
SrvRecords == Answers({<<"h1">>, <<"h2", "h1">>})

(* Two queries of one statement and one of another. *)
StatementOf == "a" :> 1 @@ "b" :> 1 @@ "c" :> 2

(* One thread puts five tasks on a heap of five slots, another takes them,  *)
(* one after the other; F is the same with too few slots.                   *)
H == INSTANCE Dispatcher WITH
       Producers <- {"producer"}, Workers <- {"worker"}, Tasks <- {"t1", "t2", "t3", "t4", "t5"},
       Prio <- "t1" :> 1 @@ "t2" :> 1 @@ "t3" :> 2 @@ "t4" :> 100 @@ "t5" :> 3,
       MaxTasks <- 5, NoTask <- "no task", NoThread <- "nobody"
F == INSTANCE Dispatcher WITH
       Producers <- {"producer"}, Workers <- {"worker"}, Tasks <- {"t1", "t2", "t3"},
       Prio <- "t1" :> 1 @@ "t2" :> 2 @@ "t3" :> 100,
       MaxTasks <- 2, NoTask <- "no task", NoThread <- "nobody"

Header(of, body) == [kind |-> of, body |-> body, n |-> 1, uri |-> "whole"]
OneHeader == [kind : {"from", "ppi", "pai", "rpid", "to", "diversion", "refer_to", "event", "via", "cseq",
                      "contact", "route", "authorization", "content_type", "content_disposition", "accept",
                      "privacy", "min_se", "session_expires", "sipifmatch", "expires"},
              body : {"ok", "bad", "late"}, n : {1}, uri : {"whole", "part"}]
TwoContacts == [kind |-> "contact", body |-> "ok", n |-> 2, uri |-> "whole"]

M == INSTANCE HeaderCache WITH
       Texts <- { <<h>> : h \in OneHeader } \union { <<Header("from", "ok"), h>> : h \in OneHeader }
                \union { <<Header("allow", "ok"), Header("expires", "ok"), Header("allow", b)>> : b \in {"ok", "bad"} }
                \union { <<TwoContacts, Header("from", "ok"), Header("contact", "ok")>>,
                         <<Header("from", "ok"), Header("contact", "ok"), Header("contact", "ok")>>,
                         <<Header("contact", "ok"), Header("contact", "late")>>,
                         <<Header("authorization", "ok"), Header("authorization", "bad")>> },
       Budgets <- {0, 1, 2, 3, 9}, MaxHeaders <- 4, MaxCalls <- 4

(* The URLs of one host and those that differ from it in one part. *)
Place(user, password, host, port) ==
  [scheme |-> <<"mysql">>, username |-> user, password |-> password, host |-> <<host>>, port |-> port, database |-> <<"db">>]

D == INSTANCE DbInit WITH
       crashed <- killed, db_connection_count <- 2, MaxCalls <- 3,
       Urls <- { Place({<<"user">>}, {}, "h", <<"0">>), Place({<<"user">>}, {}, "H", <<"0">>),
                 Place({<<"user">>}, {<<"pass", ":", "word">>}, "h", <<"3306">>),
                 Place({<<"user">>}, {}, "h", <<"3306">>), Place({}, {}, "h", <<"3306">>) },
       Malformed <- {<<"mysql", ":", "/", "h">>, <<"mysql", ":", "/", "/", "user", ":", "password", "@", "h">>},
       Numbers <- {<<"3306">>}, Modules <- (<<"mysql">> :> {"query", "raw"}),
       Caps <- {{"query"}, {"query", "insert"}}, Budgets <- {1, 9}

TimerPart   == part = "timer"   /\ TimerNext /\ UNCHANGED <<part, resolveVars, aresVars, heapVars, headerVars, mysqlVars, initVars>>
ResolvePart == part = "resolve" /\ ResolveNext /\ UNCHANGED <<part, timerVars, aresVars, heapVars, headerVars, mysqlVars, initVars>>
AresPart    == part = "ares"    /\ AresNext /\ UNCHANGED <<part, timerVars, resolveVars, heapVars, headerVars, mysqlVars, initVars>>
HeapPart    == /\ (part = "heap" /\ H!Next) \/ (part = "full" /\ F!Next)
               /\ pc'["worker"] # "put_lock"
               /\ pc["producer"] = "idle" \/ pc'["worker"] = pc["worker"]
               /\ pc["worker"] \in {"get_wait", "run"} \/ pc'["producer"] = pc["producer"]
               /\ UNCHANGED <<part, timerVars, resolveVars, aresVars, headerVars, mysqlVars, initVars>>
HeadersPart == part = "headers" /\ M!Next /\ UNCHANGED <<part, timerVars, resolveVars, aresVars, heapVars, mysqlVars, initVars>>
MySqlPart   == part = "mysql"   /\ MySqlNext /\ UNCHANGED <<part, timerVars, resolveVars, aresVars, heapVars, headerVars, initVars>>
PoolsPart   == part = "pools"   /\ D!Next /\ UNCHANGED <<part, timerVars, resolveVars, aresVars, heapVars, headerVars, mysqlVars>>

vars == <<part, timerVars, resolveVars, aresVars, heapVars, headerVars, mysqlVars, initVars>>

(* The messages of the other parts. *)
Init == /\ part \in {"timer", "resolve", "ares", "heap", "full", "headers", "mysql", "pools"}
        /\ TimerInit /\ ResolveInit /\ AresInit
        /\ (IF part = "full" THEN F!Init ELSE H!Init)
        /\ M!Init /\ MySqlInit /\ D!Init /\ (part # "headers" => text = <<TwoContacts, Header("from", "ok"), Header("contact", "ok")>>)

Next == TimerPart \/ ResolvePart \/ AresPart \/ HeapPart \/ HeadersPart \/ MySqlPart \/ PoolsPart

(* c-ares answers, and queries are asked again and again. *)
Spec == Init /\ [][Next]_vars
             /\ WF_vars(part = "resolve" /\ Ares /\ UNCHANGED <<part, timerVars, aresVars, heapVars, headerVars, mysqlVars, initVars>>)
             /\ WF_vars(part = "mysql" /\ Steps /\ UNCHANGED <<part, timerVars, resolveVars, aresVars, heapVars, headerVars, initVars>>)

(* sip_resolvehost.c: the addresses come in the order of RFC 3263, and the  *)
(* list holds the live requests; db_to_user.c: a pool is that of the URL it *)
(* was asked for, with all its connections.                                 *)
GivenRight == /\ InOrder /\ ListIsLive
              /\ part = "pools" => D!PoolsRight /\ D!PoolsWhole

(* sip_resolvehost.c: a question asked is answered; dbase.c: once the       *)
(* server stays, queries succeed.                                          *)
Answered == QuestionsAnswered /\ (part = "mysql" => Heals)

(* dispatcher.c: a heap more than two levels deep stays one, and put_task   *)
(* runs past the array only with more than MAX_TASKS tasks in flight.       *)
HeapRight == /\ part = "heap" => H!Inv /\ H!HeapOrder /\ H!OverrunOnlyWhenFull
             /\ part = "full" => F!Inv /\ F!HeapOrder /\ F!OverrunOnlyWhenFull

(* msg_parser.c, hf.c, parse_allow.c, parse_supported.c, parse_from.c,       *)
(* contact/parse_contact.c: an accessor that succeeds gives what the        *)
(* message has, and but for the headers known to lose their bodies nothing  *)
(* allocated for a message is lost.                                         *)
HeadersRight == part = "headers" => M!SumRight /\ M!UriRight /\ M!ContactsRight /\ M!NothingElseLost
=============================================================================
