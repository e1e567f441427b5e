------------------------------ MODULE SipResolve ------------------------------
(***************************************************************************)
(* src/core/resolve/sip_resolvehost.c: where a SIP message is to go.  A    *)
(* host is looked up by NAPTR, SRV or A records, according to what the URI *)
(* says; every answer puts the requests it gives rise to in front of the   *)
(* list that is left, and the user hears of one address at a time and may  *)
(* ask for the next one (next_he).                                         *)
(*                                                                         *)
(* zone is what the DNS answers: for each question records in their order  *)
(* of preference (parsers.c sorts them, see DnsRecords), NoData if it knows *)
(* of none, Fail for an error, a timeout or a reply that does not parse,   *)
(* or that has nothing to be used.  The target of a SRV record             *)
(* stands for its port too.  A request is freed once, and live holds those *)
(* that are not: request n is the n-th that was allocated.                 *)
(***************************************************************************)
EXTENDS Integers, Sequences, SequencesExt

CONSTANTS Targets,   (* the hosts SRV records name *)
          Disabled,  (* the protocols the configuration switched off *)
          Calls,     (* what sip_resolvehost is called with *)
          NaptrAnswers, SrvAnswers  (* what the DNS may know: see zone *)

VARIABLES call,      (* what sip_resolvehost was called with *)
          zone,
          where,     (* "idle", "asking" while c-ares has a request, "told" *)
          requests,  (* pack->requests *)
          live, made,
          oom,       (* an allocation failed while records were read *)
          answers    (* what func was called with, in order *)

resolveVars == <<call, zone, where, requests, live, made, oom, answers>>

(* What the DNS says to a question. *)
Fail       == [is |-> "fail", of |-> <<>>]
NoData     == [is |-> "nodata", of |-> <<>>]
Records(l) == [is |-> "records", of |-> l]

Protos == {"UDP", "TCP", "TLS"}
Domain == "domain"
Names  == Targets \union {Domain}

(* The lengths name->len is compared with: too long for a SRV prefix, too   *)
(* long at all.                                                             *)
Lengths == {"short", "no_srv", "no_dns"}

EveryCall == [ip : BOOLEAN, port : BOOLEAN, proto : Protos \union {"NONE", "SIP"},
             sips : BOOLEAN, len : Lengths]

ASSUME CallsAssumption == Calls \subseteq EveryCall

ASSUME AnswersAssumption ==
  /\ \A a \in NaptrAnswers : a.of \in Seq(Protos)
  /\ \A a \in SrvAnswers : a.of \in Seq(Targets)

Zones == { z \in [naptr : NaptrAnswers, srv : [Protos -> SrvAnswers], addr : [Names -> BOOLEAN]] :
             \A p \in Disabled : z.srv[p] = Fail }

ResolveInit ==
  /\ call = [ip |-> FALSE, port |-> FALSE, proto |-> "NONE", sips |-> FALSE, len |-> "short"]
  /\ zone = [naptr |-> Fail, srv |-> [p \in Protos |-> Fail], addr |-> [n \in Names |-> FALSE]]
  /\ where = "idle"
  /\ requests = <<>>
  /\ live = {}
  /\ made = 0
  /\ oom = FALSE
  /\ answers = <<>>

Request(id, type, proto, port, name) ==
  [id |-> id, type |-> type, proto |-> proto, port |-> port, name |-> name]

Failure == [host |-> "none", port |-> "none", proto |-> "NONE"]
Tell(a) == answers' = Append(answers, a)

(* The defaults, as sip_resolvehost has them ... *)
DefaultProto(sips) == IF sips THEN "TLS" ELSE "UDP"
DefaultPort(proto, sips) == IF sips \/ proto = "TLS" THEN "SIPS_PORT" ELSE "SIP_PORT"

(* ... and the port when the name is too long for a SRV request.            *)
LongNamePort(sips) == IF sips THEN "SIPS_PORT" ELSE "SIP_PORT"

-----------------------------------------------------------------------------
(* sip_resolvehost and next_he *)

Ask(req) ==
  /\ where' = "asking"
  /\ requests' = <<req>>
  /\ made' = 1 /\ live' = {1}
  /\ UNCHANGED answers

(* goto error: the request, if there is one, is not freed. *)
Refuse(n) ==
  /\ where' = "told"
  /\ made' = n /\ live' = 1 .. n
  /\ Tell(Failure)
  /\ UNCHANGED requests

(* An address needs no question. *)
TellAddress(c) ==
  LET proto == IF c.proto = "NONE" THEN DefaultProto(c.sips) ELSE c.proto
  IN /\ where' = "told"
     /\ Tell([host |-> Domain, proto |-> proto,
              port |-> IF c.port THEN "given" ELSE DefaultPort(proto, c.sips)])
     /\ UNCHANGED <<requests, made, live>>

AskA(c, proto, port) ==
  IF c.len = "no_dns" THEN Refuse(1) ELSE Ask(Request(1, "A", proto, port, Domain))

AskSrv(c) ==
  CASE c.sips /\ c.proto = "TLS" -> Refuse(1)
    [] c.len # "short" /\ ~ (c.sips /\ c.proto = "TLS") ->
         AskA(c, c.proto, LongNamePort(c.sips))
    [] OTHER ->
         IF c.proto \in Protos \ (Disabled \ {"UDP"})
         THEN Ask(Request(1, "SRV", c.proto, "none", Domain))
         ELSE Refuse(1)

sip_resolvehost ==
  /\ where = "idle"
  /\ \E c \in Calls, z \in Zones :
       /\ call' = c /\ zone' = z
       /\ CASE c.ip -> TellAddress(c)
            [] ~ c.ip /\ c.port ->
                 AskA(c, IF c.proto = "NONE" THEN DefaultProto(c.sips) ELSE c.proto, "given")
            [] ~ c.ip /\ ~ c.port /\ c.proto # "NONE" -> AskSrv(c)
            [] OTHER ->
                 IF c.len = "no_dns" THEN Refuse(1)
                 ELSE Ask(Request(1, "NAPTR", "NONE", "none", Domain))
  /\ UNCHANGED oom

(* No memory for the request: told at once, nothing is allocated. *)
NoMemory ==
  /\ where = "idle"
  /\ Refuse(0)
  /\ oom' = TRUE
  /\ UNCHANGED <<call, zone>>

(* The user tries the next address, or hears that there is none.  The pack  *)
(* allocated before the list is looked at is lost then.                     *)
next_he ==
  /\ where = "told" /\ answers[Len(answers)] # Failure
  /\ IF requests = <<>>
     THEN Tell(Failure) /\ UNCHANGED where
     ELSE where' = "asking" /\ UNCHANGED answers
  /\ UNCHANGED <<call, zone, requests, live, made, oom>>

-----------------------------------------------------------------------------
(* sip_ares_to_dns, the callback of c-ares *)

req == Head(requests)
Free(r) == live' = live \ {r.id}

(* The end of the list is the end of the matter. *)
SearchAgain_bug(list) ==
  /\ requests' = list
  /\ where' = IF list = <<>> THEN "over" ELSE where
  /\ UNCHANGED answers

(* search_again, with what is left to ask; kept is the request, re-used.    *)
SearchAgain(list) ==
  /\ requests' = list
  /\ IF list = <<>> THEN where' = "told" /\ Tell(Failure)
                    ELSE UNCHANGED <<where, answers>>

FailOver ==
  /\ SearchAgain(Tail(requests))
  /\ Free(req)
  /\ UNCHANGED <<made, oom>>

(* The requests of the records rs, in front of the others.  When memory     *)
(* runs out the user is told of the failure with those already built.       *)
Expand(rs) ==
  \/ /\ SearchAgain(rs \o Tail(requests))
     /\ made' = made + Len(rs)
     /\ live' = (live \ {req.id}) \union (made + 1 .. made + Len(rs))
     /\ UNCHANGED oom
  \/ \E k \in 0 .. Len(rs) - 1 :
       /\ requests' = SubSeq(rs, 1, k) \o Tail(requests)
       /\ made' = made + k
       /\ live' = (live \ {req.id}) \union (made + 1 .. made + k)
       /\ where' = "told" /\ Tell(Failure)
       /\ oom' = TRUE

(* Each record goes in front of the one before it. *)
SrvRequests_bug(hosts) ==
  [i \in DOMAIN hosts |->
     Request(made + i, "A", req.proto, hosts[Len(hosts) + 1 - i], hosts[Len(hosts) + 1 - i])]

SrvRequests(hosts) ==
  [i \in DOMAIN hosts |-> Request(made + i, "A", req.proto, hosts[i], hosts[i])]

NaptrRequests(protos) ==
  [i \in DOMAIN protos |-> Request(made + i, "SRV", protos[i], "none", Domain)]

(* natpr_2_srv: the request becomes one for SRV records, if it can.         *)
CanBeSrv(proto) == call.len = "short" /\ proto \notin Disabled \ {"UDP"}

Reuse_bug(r) ==
  /\ requests' = <<r>> \o Tail(requests)
  /\ live' = live \ {req.id}
  /\ UNCHANGED <<where, answers, made, oom>>

(* The same request goes on, changed; it is not freed. *)
Reuse(r) ==
  /\ requests' = <<r>> \o Tail(requests)
  /\ UNCHANGED <<where, answers, live, made, oom>>

(* srv_2_a: the name without its prefix, with the default port.             *)
AsA(proto) ==
  [req EXCEPT !.type = "A", !.proto = proto, !.port = DefaultPort(proto, call.sips)]

AresA ==
  /\ where = "asking" /\ req.type = "A"
  /\ IF zone.addr[req.name]
     THEN /\ requests' = Tail(requests)
          /\ where' = "told"
          /\ Tell([host |-> req.name, port |-> req.port, proto |-> req.proto])
          /\ Free(req)
          /\ UNCHANGED <<made, oom>>
     ELSE FailOver
  /\ UNCHANGED <<call, zone>>

AresSrv ==
  /\ where = "asking" /\ req.type = "SRV"
  /\ CASE zone.srv[req.proto].is = "fail"   -> FailOver
       [] zone.srv[req.proto].is = "nodata" -> Reuse(AsA(req.proto))
       [] OTHER -> Expand(SrvRequests(zone.srv[req.proto].of))
  /\ UNCHANGED <<call, zone>>

AresNaptr ==
  /\ where = "asking" /\ req.type = "NAPTR"
  /\ LET proto == DefaultProto(call.sips)
     IN CASE zone.naptr.is = "fail"   -> FailOver
          [] zone.naptr.is = "nodata" ->
               Reuse(IF CanBeSrv(proto)
                     THEN [req EXCEPT !.type = "SRV", !.proto = proto] ELSE AsA(proto))
          [] OTHER -> Expand(NaptrRequests(zone.naptr.of))
  /\ UNCHANGED <<call, zone>>

Ares == AresA \/ AresSrv \/ AresNaptr

ResolveNext == sip_resolvehost \/ NoMemory \/ next_he \/ Ares

ResolveSpec == ResolveInit /\ [][ResolveNext]_resolveVars

(* Every question is answered or times out: timeout_func sees to it. *)
Fairness == WF_resolveVars(Ares)

-----------------------------------------------------------------------------
(* Properties *)

(* The addresses the zone has for a call, best first. *)
Address(host, port, proto) == [host |-> host, port |-> port, proto |-> proto]

BySrv(proto) ==
  CASE zone.srv[proto].is = "fail"   -> <<>>
    [] zone.srv[proto].is = "nodata" -> <<Address(Domain, DefaultPort(proto, call.sips), proto)>>
    [] OTHER -> [i \in DOMAIN zone.srv[proto].of |->
                   Address(zone.srv[proto].of[i], zone.srv[proto].of[i], proto)]

ByNaptr ==
  LET proto == DefaultProto(call.sips)
  IN CASE zone.naptr.is = "fail" -> <<>>
       [] zone.naptr.is = "nodata" ->
            IF CanBeSrv(proto) THEN BySrv(proto)
            ELSE <<Address(Domain, DefaultPort(proto, call.sips), proto)>>
       [] OTHER -> FlattenSeq([i \in DOMAIN zone.naptr.of |-> BySrv(zone.naptr.of[i])])

Proto == IF call.proto = "NONE" THEN DefaultProto(call.sips) ELSE call.proto

Candidates ==
  CASE call.port -> <<Address(Domain, "given", Proto)>>
    [] ~ call.port /\ call.proto = "NONE" -> ByNaptr
    [] OTHER -> IF call.len = "short" THEN BySrv(call.proto)
                ELSE <<Address(Domain, LongNamePort(call.sips), call.proto)>>

Refused == requests = <<>> /\ made = 1 /\ live = {1}

Reachable == SelectSeq(Candidates, LAMBDA a : zone.addr[a.host])

(* RFC 3263 order: the user is told of the addresses that resolve in the    *)
(* order of the records, whatever failed between them, each once, and of a  *)
(* failure only after the last one.                                         *)
InOrder ==
  ~ call.ip /\ ~ oom /\ ~ Refused /\ where # "idle" =>
    /\ IsPrefix(SelectSeq(answers, LAMBDA a : a # Failure), Reachable)
    /\ \A i \in DOMAIN answers :
         answers[i] = Failure => i = Len(answers) /\ i = Len(Reachable) + 1

(* No request is freed while it is in the list, freed twice or lost: what   *)
(* is allocated is what the list holds, except after sip_resolvehost has    *)
(* refused the call (goto error, line 430 and others, keeps the request).   *)
ListIsLive ==
  Refused \/ ( /\ live = { requests[i].id : i \in DOMAIN requests }
               /\ Cardinality(live) = Len(requests) )

(* c-ares answers every question, and then the user is told.                *)
QuestionsAnswered == where = "asking" ~> where = "told"
=============================================================================
