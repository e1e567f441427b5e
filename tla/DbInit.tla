--------------------------------- MODULE DbInit ---------------------------------
(***************************************************************************)
(* src/core/db/db_to_user.c: db_init, which finds or makes the pool of a   *)
(* URL, with parse_db_url and cmp_db_id of db_id.c.  A call does all but   *)
(* the parsing under db_pools_lock, so that calls follow each other.  A    *)
(* URL is a sequence of separators and words; a char* is the empty set     *)
(* when it is NULL, and else the set of its one text.                      *)
(***************************************************************************)
EXTENDS Naturals, Sequences, FiniteSets, SequencesExt

CONSTANTS Urls,       (* the parts of well-formed URLs *)
          Malformed,  (* URLs that are not *)
          Numbers,    (* texts of numbers *)
          Modules,    (* a function from the names of modules to their capabilities *)
          Caps,       (* sets of capabilities asked for *)
          Budgets,    (* how often dupl_string finds memory *)
          MaxCalls,
          db_connection_count

VARIABLES pool_list,  (* the newest first *)
          returned,   (* what the calls asked for and were given *)
          crashed,
          failed      (* there was no memory for a pool, its lock or a connection *)

initVars == <<pool_list, returned, crashed, failed>>

-----------------------------------------------------------------------------
(* parse_db_url *)

Null == {}
Zero == <<"0">>

(* scheme://[username[:password]@]hostname[:port]/database *)
Url(p) ==
  p.scheme \o <<":", "/", "/">>
    \o (IF p.username = Null THEN <<>>
        ELSE (CHOOSE u \in p.username : TRUE)
               \o (IF p.password = Null THEN <<>> ELSE <<":">> \o CHOOSE w \in p.password : TRUE) \o <<"@">>)
    \o p.host \o (IF p.port = Zero THEN <<>> ELSE <<":">> \o p.port) \o <<"/">> \o p.database

(* str2s gives 0 for what is not a number. *)
str2s(text) == IF text \in Numbers THEN text ELSE Zero

dupl_string(s, field, text) ==
  IF s.left = 0 THEN [s EXCEPT !.st = "err"]
  ELSE [s EXCEPT !.id[field] = {text}, !.left = s.left - 1]

(* The database is the rest of the URL. *)
Done(s, rest) ==
  LET d == dupl_string(s, "database", rest) IN IF d.st = "err" THEN d ELSE [d EXCEPT !.st = "done"]

Token(s, url, k) ==
  LET c == url[k]
      text == SubSeq(url, s.begin, k - 1)
      rest == SubSeq(url, k + 1, Len(url))
      To(r, st) == IF r.st = "err" THEN r ELSE [r EXCEPT !.st = st, !.begin = k + 1]
  IN CASE s.st = "scheme" /\ c = ":" -> To(dupl_string(s, "scheme", text), "slash1")
       [] s.st = "slash1" -> IF c = "/" THEN [s EXCEPT !.st = "slash2"] ELSE [s EXCEPT !.st = "err"]
       [] s.st = "slash2" -> IF c = "/" THEN To(s, "user_host") ELSE [s EXCEPT !.st = "err"]
       [] s.st = "user_host" /\ c = "@" -> To(dupl_string(s, "username", text), "host")
       [] s.st = "user_host" /\ c = ":" -> To(dupl_string(s, "prev_token", text), "pass_port")
       [] s.st \in {"user_host", "host"} /\ c = "/" ->
            LET h == dupl_string(s, "host", text) IN IF h.st = "err" THEN h ELSE Done(h, rest)
       [] s.st = "pass_port" /\ c = "@" ->
            To(dupl_string([s EXCEPT !.id["username"] = s.id.prev_token], "password", text), "host")
       [] s.st = "pass_port" /\ c = "/" ->
            Done([s EXCEPT !.id["host"] = s.id.prev_token, !.id["port"] = str2s(text)], rest)
       [] s.st = "host" /\ c = ":" -> To(dupl_string(s, "host", text), "port")
       [] s.st = "port" /\ c = "/" -> Done([s EXCEPT !.id["port"] = str2s(text)], rest)
       [] OTHER -> s

NoId == [scheme |-> Null, username |-> Null, password |-> Null, host |-> Null, port |-> Zero,
         database |-> Null, prev_token |-> Null]

Start(budget) == [st |-> "scheme", id |-> NoId, begin |-> 1, left |-> budget]

parse_db_url(url, budget) ==
  FoldLeft(LAMBDA s, k : Token(s, url, k), Start(budget), [k \in 1 .. Len(url) |-> k])

-----------------------------------------------------------------------------
(* cmp_db_id *)

strcasecmp(a, b) == a = b \/ {a, b} \subseteq { {<<"h">>}, {<<"H">>} }

SamePlace(a, b) == a.port = b.port /\ a.scheme = b.scheme

(* strcmp is given the names of the users, be they NULL or not. *)
NullName(a, b) == SamePlace(a, b) /\ (a.username = Null \/ b.username = Null)

cmp_db_id_bug(a, b) ==
  /\ SamePlace(a, b) /\ a.username = b.username
  /\ a.password # Null /\ b.password # Null => a.password = b.password
  /\ strcasecmp(a.host, b.host) /\ a.database = b.database

cmp_db_id(a, b) ==
  /\ SamePlace(a, b) /\ a.username = b.username /\ a.password = b.password
  /\ strcasecmp(a.host, b.host) /\ a.database = b.database

-----------------------------------------------------------------------------
(* db_init *)

Init == pool_list = <<>> /\ returned = {} /\ crashed = FALSE /\ failed = FALSE

Call == ~ crashed /\ Cardinality(returned) < MaxCalls

(* new_db_id gives no id, and the scheme of NULL is read, in the new pool. *)
BadUrl ==
  /\ Call
  /\ \E u \in Malformed \union { Url(p) : p \in Urls }, b \in Budgets : parse_db_url(u, b).st # "done"
  /\ crashed' = TRUE
  /\ UNCHANGED <<pool_list, returned, failed>>

(* The search stops at the first pool with this id, or at a NULL name. *)
Matches(id) == { k \in 1 .. Len(pool_list) : cmp_db_id(pool_list[k].id, id) }
NullMet(id) == \E k \in 1 .. Len(pool_list) : NullName(pool_list[k].id, id) /\ \A j \in Matches(id) : j >= k

Crash(id) == NullMet(id) /\ crashed' = TRUE /\ UNCHANGED <<pool_list, returned, failed>>

Return(p, caps, pool) == returned' = returned \union {[parts |-> p, caps |-> caps, pool |-> pool]}

Found(p, id, caps) ==
  /\ ~ NullMet(id) /\ Matches(id) # {}
  /\ Return(p, caps, pool_list[CHOOSE k \in Matches(id) : \A j \in Matches(id) : j >= k])
  /\ UNCHANGED <<pool_list, crashed, failed>>

Provides(id, caps) == \E t \in id.scheme : t \in DOMAIN Modules /\ caps \subseteq Modules[t]

(* The connections there is memory for, if the module is there and has the *)
(* capabilities; whether the driver got them is not looked at.             *)
Connections_bug(id, caps, n) == IF Provides(id, caps) /\ n > 0 THEN n - 1 ELSE 0

Connections(id, caps, n) == IF Provides(id, caps) THEN n ELSE 0

(* The pool is in the list before it has its module and its connections,   *)
(* and stays there without them.  Without memory for it there is no pool,  *)
(* and without a lock it is returned but not in the list.                  *)
Make(p, id, caps) ==
  /\ ~ NullMet(id) /\ Matches(id) = {}
  /\ \/ \E n \in 0 .. db_connection_count :
          LET pool == [id |-> id, items |-> Connections(id, caps, n)] IN
          /\ pool_list' = <<pool>> \o pool_list
          /\ Return(p, caps, pool)
          /\ failed' = (failed \/ n < db_connection_count)
     \/ /\ failed' = TRUE /\ UNCHANGED pool_list
        /\ UNCHANGED returned \/ Return(p, caps, [id |-> id, items |-> 0])
  /\ UNCHANGED crashed

db_init ==
  /\ Call
  /\ \E p \in Urls, caps \in Caps, b \in Budgets :
       LET s == parse_db_url(Url(p), b) IN
       /\ s.st = "done"
       /\ Crash(s.id) \/ Found(p, s.id, caps) \/ Make(p, s.id, caps)

Next == BadUrl \/ db_init
Spec == Init /\ [][Next]_initVars

-----------------------------------------------------------------------------
(* Properties *)

(* db_to_user.c:92: a URL has one pool, however many ask for it.           *)
OnePool == \A j, k \in 1 .. Len(pool_list) : j # k => ~ cmp_db_id(pool_list[j].id, pool_list[k].id)

(* db_id.c:256: a caller gets the pool of its own URL, and a URL has one. *)
PoolsRight ==
  /\ \A r \in returned :
       LET id == r.pool.id IN
       /\ id.scheme = {r.parts.scheme} /\ id.username = r.parts.username /\ id.password = r.parts.password
       /\ id.port = r.parts.port /\ id.database = {r.parts.database} /\ strcasecmp(id.host, {r.parts.host})
  /\ OnePool

(* db_to_user.c:174: with enough memory every caller gets all connections  *)
(* and the capabilities it asked for, if none of that URL asked for more   *)
(* than there is.                                                          *)
PoolsWhole ==
  failed \/ \A r \in returned :
    \/ r.pool.items = db_connection_count /\ Provides(r.pool.id, r.caps)
    \/ \E t \in returned : t.pool.id = r.pool.id /\ ~ Provides(t.pool.id, t.caps)
=============================================================================
