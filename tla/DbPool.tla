------------------------------- MODULE DbPool -------------------------------
(***************************************************************************)
(* What the database core promises to the users of a pool, without its     *)
(* lock, its lists and its threads: a connection serves one query at a     *)
(* time, no query waits while a connection is free, and a query is         *)
(* answered once and gives its connection back once.                       *)
(***************************************************************************)
CONSTANTS Queries, Items, NoItem

VARIABLES stage,    (* "new", "pending", "using" a connection, gave it "back" *)
          conn,     (* the connection a query was paired with                 *)
          told      (* how often its callback was called                      *)

vars == <<stage, conn, told>>

Free == Items \ { conn[q] : q \in { r \in Queries : stage[r] = "using" } }

Init == /\ stage = [q \in Queries |-> "new"]
        /\ conn = [q \in Queries |-> NoItem]
        /\ told = [q \in Queries |-> 0]

Use(q, i) == conn' = [conn EXCEPT ![q] = i]

Submit(q) ==
  /\ stage[q] = "new"
  /\ \/ /\ Free = {}
        /\ stage' = [stage EXCEPT ![q] = "pending"]
        /\ UNCHANGED conn
     \/ \E i \in Free : /\ stage' = [stage EXCEPT ![q] = "using"]
                        /\ Use(q, i)
  /\ UNCHANGED told

Release(q) ==
  /\ stage[q] = "using"
  /\ \/ /\ \A r \in Queries : stage[r] # "pending"
        /\ stage' = [stage EXCEPT ![q] = "back"]
        /\ UNCHANGED conn
     \/ \E r \in Queries : /\ stage[r] = "pending"
                           /\ stage' = [stage EXCEPT ![q] = "back", ![r] = "using"]
                           /\ Use(r, conn[q])
  /\ UNCHANGED told

Answer(q) ==
  /\ stage[q] \in {"using", "back"}
  /\ told[q] = 0
  /\ told' = [told EXCEPT ![q] = 1]
  /\ UNCHANGED <<stage, conn>>

Next == \E q \in Queries : Submit(q) \/ Release(q) \/ Answer(q)

Spec == Init /\ [][Next]_vars
=============================================================================
