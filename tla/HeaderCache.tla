------------------------------ MODULE HeaderCache ------------------------------
(***************************************************************************)
(* The headers of a message and what is parsed of them: parse_headers adds *)
(* them to the message as they are looked for, an accessor parses a body   *)
(* the first time it is asked for it and keeps the result in the header,   *)
(* free_sip_msg frees it all (src/core/parser: msg_parser.c, hf.c and the  *)
(* parse_*.c of the headers).                                              *)
(*                                                                         *)
(* A header of the text is [kind, body, n, uri].  body says what its       *)
(* parser will find: it is "ok", or "bad", or "late": wrong behind its     *)
(* parameters; "notag": an address without a tag.  n is the number of the  *)
(* blocks its list takes, uri whether the URI in it is one.                *)
(***************************************************************************)
EXTENDS Integers, Sequences, SequencesExt, FiniteSetsExt

CONSTANTS Texts,      (* the messages *)
          Budgets,    (* how many allocations succeed in one call *)
          MaxHeaders, (* bound: the headers in the list *)
          MaxCalls    (* bound: the calls *)

VARIABLES text,     (* the headers of the message *)
          msg,      (* struct sip_msg: its list, the text not parsed yet, what is allocated *)
          walk,     (* the contacts the iterator gave, and the header it is in *)
          called    (* the last call, its result, and how many there were *)

vars == <<text, msg, walk, called>>

EagerKinds == {"via", "cseq", "to"}              (* parsed by get_hdr_field *)
NumberKinds == {"privacy", "min_se"}             (* parsed is the number itself *)

(* msg: list, of [of, parsed, blocks, all, authorized, uri]; unparsed, the  *)
(* header of the text parse_headers goes on with; heap, the blocks that are *)
(* allocated; mem, what is left of the call's budget.                       *)
Field(i) == [of |-> i, parsed |-> FALSE, blocks |-> 0, all |-> {}, authorized |-> 0, uri |-> "none"]
Kind(m, j) == text[m.list[j].of].kind
OfKind(m, kind) == { j \in DOMAIN m.list : Kind(m, j) = kind }
Hook(m, kind) == IF OfKind(m, kind) = {} THEN 0 ELSE Min(OfKind(m, kind))

Ret(m, ret) == [msg |-> m, ret |-> ret]

-----------------------------------------------------------------------------
(* The bodies *)

(* What a parsed body takes: itself and its list.  A Route has no body of   *)
(* its own.                                                                 *)
Blocks(t) == CASE t.kind \in NumberKinds -> 0
               [] t.kind = "route" -> t.n
               [] t.kind \in {"cseq", "allow", "supported", "accept", "authorization", "expires",
                              "sipifmatch", "session_expires"} -> 1
               [] OTHER -> 1 + t.n

(* What nothing points to when the body turns out wrong: get_hdr_field      *)
(* drops a Via and a CSeq; the parameters just parsed are not freed with    *)
(* the contact, route or type they belong to.                               *)
Left_bug(t) == CASE t.kind \in {"via", "cseq", "content_disposition"} -> Blocks(t)
                 [] t.kind \in {"content_type", "contact", "route"} /\ t.body = "late" -> t.n
                 [] OTHER -> 0

Left(t) == CASE t.kind \in {"via", "cseq"} -> Blocks(t)
             [] t.kind \in {"content_type", "contact", "route"} /\ t.body = "late" -> t.n
             [] OTHER -> 0

(* What is allocated until it turns out. *)
Needed(t) == IF t.body = "late" /\ t.kind \in {"contact", "route"} THEN Blocks(t) + t.n ELSE Blocks(t)

(* The body of header j: -1 when memory runs out or it is wrong. *)
ParseBody(m, j) ==
  LET t == text[m.list[j].of]
      need == Needed(t)
  IN CASE m.mem < need ->
            Ret([m EXCEPT !.mem = 0, !.heap = @ + IF t.kind = "via" THEN m.mem ELSE 0], -1)
       [] m.mem >= need /\ t.body # "ok" -> Ret([m EXCEPT !.mem = @ - need, !.heap = @ + Left(t)], -1)
       [] OTHER -> Ret([m EXCEPT !.mem = @ - need, !.heap = @ + need,
                                 !.list[j].parsed = TRUE, !.list[j].blocks = need], 0)

(* The accessors that are given the header: one that is parsed is left      *)
(* alone.                                                                   *)
ParseOnce(m, j) == IF m.list[j].parsed THEN Ret(m, 0) ELSE ParseBody(m, j)

-----------------------------------------------------------------------------
(* parse_headers *)

(* One more header: its hdr_field, and the body of those get_hdr_field      *)
(* parses itself.                                                           *)
AddHeader(m, i) ==
  LET new == [m EXCEPT !.list = Append(@, Field(i)), !.mem = @ - 1, !.heap = @ + 1]
      body == ParseBody(new, Len(new.list))
  IN CASE m.mem = 0 -> Ret(m, -1)
       [] m.mem > 0 /\ text[i].kind \notin EagerKinds -> Ret(new, 0)
       [] m.mem > 0 /\ text[i].kind \in EagerKinds /\ body.ret = 0 -> body
       [] OTHER -> Ret([m EXCEPT !.mem = body.msg.mem, !.heap = body.msg.heap - 1], -1)

(* From header i of the text on, until one of the kind is found; those      *)
(* before base do not count.  The end of the headers, too, is looked at     *)
(* with a hdr_field.                                                        *)
Found(m, kind, base) == (kind = "eoh" /\ m.eoh) \/ \E j \in OfKind(m, kind) : j > base

RECURSIVE GoOn(_, _, _, _)
GoOn(m, i, kind, base) ==
  LET one == AddHeader(m, i)
  IN CASE Found(m, kind, base) -> Ret([m EXCEPT !.unparsed = i], 0)
       [] ~ Found(m, kind, base) /\ i > Len(text) ->
            IF m.mem = 0 THEN Ret(m, -1)
            ELSE Ret([m EXCEPT !.mem = @ - 1, !.unparsed = i, !.eoh = TRUE], 0)
       [] ~ Found(m, kind, base) /\ i <= Len(text) /\ one.ret = -1 -> one
       [] OTHER -> GoOn(one.msg, i + 1, kind, base)

(* After an error the message goes on where this call began, with the       *)
(* headers it had added in its list.  "eoh" is no header's kind.            *)
parse_headers(m, kind, next) == GoOn(m, m.unparsed, kind, IF next THEN Len(m.list) ELSE 0)

(* The accessors that are given the message. *)
Find(m, kind) == IF Hook(m, kind) # 0 THEN Ret(m, 0) ELSE parse_headers(m, kind, FALSE)
Search(m, kind, missing) ==
  LET found == Find(m, kind)
      j == Hook(found.msg, kind)
  IN CASE found.ret = -1 -> found
       [] found.ret = 0 /\ j = 0 -> Ret(found.msg, missing)
       [] OTHER -> ParseOnce(found.msg, j)

(* The addresses: From has to have a tag, and what it has is freed when not. *)
parse_from_header(m)      == Search(m, "from", -1)
parse_pai_header(m)       == Search(m, "pai", -1)
parse_ppi_header(m)       == Search(m, "ppi", -1)
parse_rpid_header(m)      == Search(m, "rpid", -1)
parse_diversion_header(m) == Search(m, "diversion", -1)
parse_refer_to_header(m)  == Search(m, "refer_to", -1)

(* What a message without the header gives differs. *)
parse_content_type_hdr(m)    == Search(m, "content_type", 0)
parse_accept_hdr(m)          == Search(m, "accept", 0)
parse_content_disposition(m) == Search(m, "content_disposition", 1)
parse_privacy(m)             == Search(m, "privacy", -1)

(* These two only look at a header that was found before. *)
parse_session_expires(m) == IF Hook(m, "session_expires") = 0 THEN Ret(m, 1)
                            ELSE ParseOnce(m, Hook(m, "session_expires"))
parse_min_se(m) == IF Hook(m, "min_se") = 0 THEN Ret(m, 1) ELSE ParseOnce(m, Hook(m, "min_se"))

(* These are given the header. *)
parse_sipifmatch(m, j)  == ParseOnce(m, j)
parse_event(m, j)       == ParseOnce(m, j)
parse_expires(m, j)     == ParseOnce(m, j)
parse_contact(m, j)     == ParseOnce(m, j)
parse_rr(m, j)          == ParseOnce(m, j)
parse_credentials(m, j) == ParseOnce(m, j)

(* parse_from_uri, parse_ppi_uri: 2 stands for a URI that is not whole. *)
Kept(uri) == IF uri = "whole" THEN 0 ELSE 2

ParseUri_bug(m, j) ==
  LET uri == text[m.list[j].of].uri
  IN IF m.list[j].uri # "none" THEN Ret(m, Kept(m.list[j].uri))
     ELSE Ret([m EXCEPT !.list[j].uri = uri], IF uri = "whole" THEN 0 ELSE -1)

ParseUri(m, j) ==
  LET uri == text[m.list[j].of].uri
  IN IF m.list[j].uri # "none" THEN Ret(m, Kept(m.list[j].uri))
     ELSE IF uri = "whole" THEN Ret([m EXCEPT !.list[j].uri = uri], 0) ELSE Ret(m, -1)

parse_from_uri(m) ==
  LET found == parse_from_header(m)
  IN IF found.ret = -1 THEN found ELSE ParseUri(found.msg, Hook(found.msg, "from"))

parse_ppi_uri(m) ==
  LET found == parse_ppi_header(m)
  IN IF found.ret = -1 THEN found ELSE ParseUri(found.msg, Hook(found.msg, "ppi"))

(* parse_to_uri: To was parsed with the headers. *)
parse_to_uri(m) == IF Hook(m, "to") = 0 THEN Ret(m, -1) ELSE ParseUri(m, Hook(m, "to"))

(* parse_allow, parse_supported: every header of the kind, the sum in the   *)
(* first.                                                                   *)
RECURSIVE Chain(_, _)
Chain(m, chain) ==
  LET one == ParseOnce(m, Head(chain))
  IN IF chain = <<>> THEN Ret(m, 0) ELSE IF one.ret = -1 THEN one ELSE Chain(one.msg, Tail(chain))

parse_chain_bug(m, kind) ==
  LET found == parse_headers(m, kind, FALSE)
      chain == SetToSortSeq(OfKind(found.msg, kind), <)
      parsed == Chain(found.msg, chain)
  IN CASE Hook(m, kind) # 0 /\ m.list[Hook(m, kind)].parsed -> Ret(m, 0)
       [] found.ret = -1 \/ chain = <<>> -> Ret(found.msg, -1)
       [] OTHER -> IF parsed.ret = -1 THEN parsed
                   ELSE Ret([parsed.msg EXCEPT !.list[chain[1]].all = Range(chain)], 0)

parse_chain(m, kind) ==
  LET found == parse_headers(m, "eoh", FALSE)
      chain == SetToSortSeq(OfKind(found.msg, kind), <)
      parsed == Chain(found.msg, chain)
      hook == Hook(m, kind)
      done == hook # 0 /\ m.list[hook].parsed
  IN CASE done -> Ret(m, 0)
       [] ~ done /\ (found.ret = -1 \/ chain = <<>>) -> Ret(found.msg, -1)
       [] OTHER -> IF parsed.ret = -1 THEN parsed
                   ELSE Ret([parsed.msg EXCEPT !.list[chain[1]].all = Range(chain)], 0)

parse_allow(m)     == parse_chain(m, "allow")
parse_supported(m) == parse_chain(m, "supported")

(* mark_authorized_cred: empty credentials are made for a first header that *)
(* is not parsed.                                                           *)
mark_authorized_cred(m, j) ==
  LET f == Hook(m, "authorization")
  IN CASE m.list[f].parsed -> Ret([m EXCEPT !.list[f].authorized = j], 0)
       [] ~ m.list[f].parsed /\ m.mem = 0 -> Ret(m, -1)
       [] OTHER -> Ret([m EXCEPT !.list[f].authorized = j, !.list[f].parsed = TRUE,
                                 !.list[f].blocks = 1, !.heap = @ + 1], 0)

-----------------------------------------------------------------------------
(* contact_iterator: from the first Contact on, parsing headers and bodies  *)
(* only when it comes to them.  walk.gave has <<header, contact>>.          *)

NotWalking == [hdr |-> 0, gave |-> <<>>, ended |-> FALSE]
Give(m, j, w) ==
  LET one == ParseOnce(m, j)
      next == [w EXCEPT !.hdr = j, !.gave = Append(@, <<j, 1>>)]
  IN IF one.ret = -1 THEN [msg |-> one.msg, ret |-> -1, walk |-> NotWalking]
     ELSE [msg |-> one.msg, ret |-> 0, walk |-> next]

Ended(m, w) == [msg |-> m, ret |-> 1, walk |-> [w EXCEPT !.hdr = 0, !.ended = TRUE]]

FirstContact(m) ==
  LET found == Find(m, "contact")
      j == Hook(found.msg, "contact")
  IN IF found.ret = -1 THEN [msg |-> found.msg, ret |-> -1, walk |-> NotWalking]
     ELSE IF j = 0 THEN Ended(found.msg, NotWalking) ELSE Give(found.msg, j, NotWalking)

NextContact_bug(m, w) ==
  LET last == w.gave[Len(w.gave)]
      after == { j \in OfKind(m, "contact") : j > last[1] }
  IN CASE last[2] < text[m.list[last[1]].of].n ->
            [msg |-> m, ret |-> 0, walk |-> [w EXCEPT !.gave = Append(@, <<last[1], last[2] + 1>>)]]
       [] after # {} -> Give(m, Min(after), w)
       [] OTHER -> Ended(m, w)

NextContact(m, w) ==
  LET last == w.gave[Len(w.gave)]
      after == { j \in OfKind(m, "contact") : j > last[1] }
      found == parse_headers(m, "contact", TRUE)
      end == Len(found.msg.list)
  IN CASE last[2] < text[m.list[last[1]].of].n ->
            [msg |-> m, ret |-> 0, walk |-> [w EXCEPT !.gave = Append(@, <<last[1], last[2] + 1>>)]]
       [] last[2] >= text[m.list[last[1]].of].n /\ after # {} -> Give(m, Min(after), w)
       [] OTHER -> IF found.ret = -1 THEN [msg |-> found.msg, ret |-> -1, walk |-> NotWalking]
                   ELSE IF Kind(found.msg, end) = "contact" /\ end # last[1] THEN Give(found.msg, end, w)
                   ELSE Ended(found.msg, w)

-----------------------------------------------------------------------------
(* free_sip_msg: clean_hdr_field knows no SIP-If-Match. *)
Freed(t, f) == IF t.kind = "sipifmatch" THEN 0 ELSE f.blocks
FreeList(m) == FoldLeft(LAMBDA n, f : n - 1 - Freed(text[f.of], f), m.heap, m.list)

-----------------------------------------------------------------------------
Call(op, r) ==
  /\ called.n < MaxCalls /\ msg.alive
  /\ Len(r.msg.list) <= MaxHeaders
  /\ msg' = [r.msg EXCEPT !.mem = 0]
  /\ called' = [op |-> op, ret |-> r.ret, failed |-> called.failed \/ r.ret = -1, n |-> called.n + 1]
  /\ UNCHANGED text

Kinds == { text[i].kind : i \in DOMAIN text }

(* The accessors that take the message, and those that take header j. *)
OfMsg(m, kind) ==
  CASE kind = "from" -> {<<kind, parse_from_header(m)>>, <<"uri", parse_from_uri(m)>>}
    [] kind = "ppi" -> {<<kind, parse_ppi_header(m)>>, <<"uri", parse_ppi_uri(m)>>}
    [] kind = "to" -> {<<"uri", parse_to_uri(m)>>}
    [] kind = "pai" -> {<<kind, parse_pai_header(m)>>}
    [] kind = "rpid" -> {<<kind, parse_rpid_header(m)>>}
    [] kind = "diversion" -> {<<kind, parse_diversion_header(m)>>}
    [] kind = "refer_to" -> {<<kind, parse_refer_to_header(m)>>}
    [] kind = "content_type" -> {<<kind, parse_content_type_hdr(m)>>}
    [] kind = "accept" -> {<<kind, parse_accept_hdr(m)>>}
    [] kind = "content_disposition" -> {<<kind, parse_content_disposition(m)>>}
    [] kind = "privacy" -> {<<kind, parse_privacy(m)>>}
    [] kind = "session_expires" -> {<<kind, parse_session_expires(m)>>}
    [] kind = "min_se" -> {<<kind, parse_min_se(m)>>}
    [] kind = "allow" -> {<<kind, parse_allow(m)>>}
    [] kind = "supported" -> {<<kind, parse_supported(m)>>}
    [] OTHER -> {}

OfHeader(m, kind, j) ==
  CASE kind = "sipifmatch" -> {<<kind, parse_sipifmatch(m, j)>>}
    [] kind = "event" -> {<<kind, parse_event(m, j)>>}
    [] kind = "expires" -> {<<kind, parse_expires(m, j)>>}
    [] kind = "contact" -> {<<kind, parse_contact(m, j)>>}
    [] kind = "route" -> {<<kind, parse_rr(m, j)>>}
    [] kind = "authorization" -> {<<kind, parse_credentials(m, j)>>, <<"mark", mark_authorized_cred(m, j)>>}
    [] OTHER -> {}

(* One call, in which so many allocations succeed.  SIP-If-Match has no     *)
(* type of its own, so nobody can look for it.                              *)
Access ==
  /\ \E mem \in Budgets, kind \in Kinds :
       LET m == [msg EXCEPT !.mem = mem]
       IN \/ \E c \in OfMsg(m, kind) : Call(<<c[1], 0>>, c[2])
          \/ kind # "sipifmatch" /\ Call(<<"headers", 0>>, parse_headers(m, kind, FALSE))
          \/ \E j \in OfKind(m, kind) : \E c \in OfHeader(m, kind, j) : Call(<<c[1], j>>, c[2])
  /\ UNCHANGED walk

Iterate ==
  \E mem \in Budgets :
    LET m == [msg EXCEPT !.mem = mem]
        r == IF walk.hdr = 0 THEN FirstContact(m) ELSE NextContact(m, walk)
    IN /\ "contact" \in Kinds /\ ~ walk.ended
       /\ Call(<<"iterate", 0>>, r) /\ walk' = r.walk

Free == /\ msg.alive
        /\ msg' = [msg EXCEPT !.heap = FreeList(msg), !.list = <<>>, !.alive = FALSE]
        /\ walk' = NotWalking
        /\ UNCHANGED <<text, called>>

Init == /\ text \in Texts
        /\ msg = [list |-> <<>>, unparsed |-> 1, eoh |-> FALSE, heap |-> 0, mem |-> 0, alive |-> TRUE]
        /\ walk = NotWalking
        /\ called = [op |-> <<"none", 0>>, ret |-> 0, failed |-> FALSE, n |-> 0]

Next == Access \/ Iterate \/ Free

Spec == Init /\ [][Next]_vars

-----------------------------------------------------------------------------
(* Properties *)

(* What is allocated for the message is what its list leads to, and nothing *)
(* when it is freed.                                                        *)
Reachable == FoldLeft(LAMBDA n, f : n + 1 + f.blocks, 0, msg.list)
NothingLost == msg.heap = Reachable

(* The headers the code does lose something of. *)
Losing == \E i \in DOMAIN text :
            \/ text[i].kind \in {"via", "cseq", "sipifmatch"}
            \/ text[i].kind \in {"content_type", "contact", "route"} /\ text[i].body = "late"
NothingElseLost == Losing \/ NothingLost

(* A call that succeeds has what the message has: the sum of all the        *)
(* headers of the kind, unless an earlier call failed; the whole URI.       *)
SumRight ==
  \A kind \in {"allow", "supported"} :
    called.op[1] = kind /\ called.ret = 0 /\ ~ called.failed =>
      msg.list = <<>> \/ Cardinality(msg.list[Hook(msg, kind)].all)
                           = Cardinality({ i \in DOMAIN text : text[i].kind = kind })
UriRight == called.op[1] = "uri" => called.ret # 2

(* The contacts come once each, in the order of the text, and at the end    *)
(* there were all.                                                          *)
AllContacts ==
  FlattenSeq([i \in DOMAIN text |-> IF text[i].kind # "contact" THEN <<>>
                                    ELSE [k \in 1 .. text[i].n |-> <<i, k>>]])
ContactsRight ==
  LET gave == [k \in DOMAIN walk.gave |-> <<msg.list[walk.gave[k][1]].of, walk.gave[k][2]>>]
  IN ~ called.failed => IsPrefix(gave, AllContacts) /\ (walk.ended => gave = AllContacts)
=============================================================================
