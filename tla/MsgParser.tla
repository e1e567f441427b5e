------------------------------- MODULE MsgParser -------------------------------
(***************************************************************************)
(* src/core/parser/msg_parser.c and parse_fline.c: the first line and the  *)
(* headers of a message, parsed as the text arrives.  parse_msg is called  *)
(* again each time there is more of it and goes on where it stopped.       *)
(*                                                                         *)
(* The text is a sequence of words: "SP" (a blank or a tab), "CR", "LF",   *)
(* ":", ",", the methods and the version, a status "200", header names     *)
(* ("via", "from", "contact" ..), "body", one body of a Via as ViaParser   *)
(* reads it, "/", which no method has, and "x".  At the end of the text    *)
(* the code looks at one byte more, which is after.                        *)
(***************************************************************************)
EXTENDS Integers, Sequences, SequencesExt, FiniteSetsExt

Methods == {"INVITE", "CANCEL", "ACK", "BYE", "INFO"}

(* The headers msg keeps the first of, and those it keeps a chain of. *)
FirstOf == {"callid", "to", "cseq", "from", "maxforwards", "content_type", "content_length",
            "expires", "organization", "priority", "subject", "user_agent",
            "content_disposition", "rpid", "refer_to", "session_expires", "min_se", "ppi",
            "pai", "privacy"}
ChainOf == {"contact", "route", "record_route", "path", "authorization", "proxy_auth",
            "proxy_require", "supported", "unsupported", "allow", "event", "accept",
            "accept_language", "accept_disposition", "diversion"}
Known == FirstOf \union ChainOf \union {"via", "retry_after"}

(* headers is the list; hook has, of each type, the headers msg leads to,   *)
(* as numbers in that list; a Via body is <<header, number in it>>.         *)
NoMsg == [first |-> "none", unparsed |-> 0, headers |-> <<>>,
          hook |-> [t \in Known |-> <<>>], flags |-> {}, via1 |-> <<>>, via2 |-> <<>>,
          eoh |-> 0, ret |-> "partial"]

-----------------------------------------------------------------------------
(* parser_f.h *)

At(text, p) == IF p \in DOMAIN text THEN text[p] ELSE "NUL"
Len1(text) == Len(text) + 1     (* end *)

(* The first place from p on that is in the set, or end. *)
FirstIn(text, p, set) == Min({ i \in p .. Len(text) : text[i] \in set } \union {Len1(text)})
FirstNotIn(text, p, set) == Min({ i \in p .. Len(text) : text[i] \notin set } \union {Len1(text)})

eat_space_end(text, p) == FirstNotIn(text, p, {"SP"})
eat_token_end(text, p) == FirstIn(text, p, {"SP", "CR", "LF"})
eat_token2_end(text, p) == FirstIn(text, p, {"CR", "LF"})

RECURSIVE eat_lws_end(_, _)
eat_lws_end(text, p) ==
  CASE At(text, p) = "SP" -> eat_lws_end(text, p + 1)
    [] At(text, p) = "LF" /\ At(text, p + 1) = "SP" -> eat_lws_end(text, p + 2)
    [] At(text, p) = "CR" /\ At(text, p + 1) = "LF" /\ At(text, p + 2) = "SP" ->
         eat_lws_end(text, p + 3)
    [] OTHER -> p

RECURSIVE eat_lws_cr(_, _)
eat_lws_cr(text, p) ==
  LET q == eat_lws_end(text, p)
  IN IF At(text, q) = "CR" /\ At(text, q + 1) = "SP" THEN eat_lws_cr(text, q + 2) ELSE q

-----------------------------------------------------------------------------
(* parse_first_line *)

Bytes(word) == CASE word \in {"INVITE", "CANCEL"} -> 6 [] word \in {"BYE", "ACK", "200"} -> 3
                 [] word = "INFO" -> 4 [] word = "SIP/2.0" -> 7 [] OTHER -> 1
Size(text, p) == FoldLeft(LAMBDA n, i : n + Bytes(text[i]), 0, [i \in 1 .. Len1(text) - p |-> i + p - 1])

(* [type, next]: the line after it, or 0 when the text is too short. *)
Line(type, next) == [type |-> type, next |-> next]
TooShort == Line("none", 0)
Invalid(p) == Line("invalid", p)

(* The text of a method, a known one followed by a blank or any token.      *)
Method(text, p, end) ==
  CASE At(text, p) \in Methods /\ At(text, p + 1) = "SP" -> Line("request", p + 1)
    [] At(text, p) = "SIP/2.0" /\ At(text, p + 1) = "SP" -> Line("reply", p + 1)
    [] end = p -> Invalid(p)
    [] end > p /\ end = Len1(text) -> TooShort
    [] OTHER -> IF text[end] # "SP" \/ \E i \in p .. end - 1 : text[i] \in {"SIP/2.0", "/", ":"}
                THEN Invalid(p)
                ELSE Line("request", end)

(* The end of the line, nl: CR, LF or both. *)
EndOfFirst(text, type, nl) ==
  CASE nl = Len1(text) -> TooShort
    [] nl < Len1(text) /\ text[nl] = "LF" -> Line(type, nl + 1)
    [] nl < Len1(text) /\ text[nl] = "CR" ->
         IF nl + 1 = Len1(text) THEN TooShort
         ELSE Line(type, IF text[nl + 1] = "LF" THEN nl + 2 ELSE nl + 1)
    [] OTHER -> Invalid(nl)

(* Version or reason. *)
Third(text, type, third) ==
  IF type = "reply" THEN EndOfFirst(text, type, eat_token2_end(text, third))
  ELSE LET tmp == eat_token_end(text, third)
       IN IF tmp = third THEN Invalid(tmp)
          ELSE EndOfFirst(text, type, eat_space_end(text, tmp))

parse_first_line(text, p) ==
  LET Second(method) ==
        LET second == method.next + 1
            tmp    == eat_token_end(text, second)
            third  == eat_space_end(text, tmp)
        IN CASE tmp = Len1(text) -> TooShort
             [] tmp < Len1(text) /\ third = tmp -> Invalid(tmp)
             [] third > tmp /\ third = Len1(text) -> TooShort
             [] OTHER -> IF method.type = "reply" /\ SubSeq(text, second, tmp - 1) # <<"200">>
                         THEN Invalid(tmp) ELSE Third(text, method.type, third)
      First(method) ==
        CASE Size(text, p) <= 16 -> TooShort
          [] Size(text, p) > 16 /\ method.type \in {"none", "invalid"} -> method
          [] OTHER -> Second(method)
  IN First(Method(text, p, eat_token_end(text, p)))

-----------------------------------------------------------------------------
(* get_hdr_field *)

Header(type, next) == [type |-> type, name |-> <<0, 0>>, body |-> <<0, 0>>, vias |-> 0, next |-> next]
BadHeader == Header("error", 0)

(* parse_hname2: a name no table knows ends at the next ':', on this line   *)
(* or on another.                                                           *)
parse_hname(text, p) ==
  LET blank == eat_space_end(text, p + 1)
      colon == FirstIn(text, p, {":"})
      named(type, end, next) == [Header(type, next) EXCEPT !.name = <<p, end>>]
  IN CASE text[p] \in Known /\ At(text, blank) = ":" -> named(text[p], p + 1, blank + 1)
       [] colon = Len1(text) -> BadHeader
       [] OTHER -> named("other", colon, colon + 1)

(* Bodies of Via separated by commas up to the end of the header; parse_via *)
(* takes a CR alone for the end of a line too.                              *)
RECURSIVE Vias(_, _, _)
Vias(text, p, n) ==
  LET q == eat_lws_cr(text, p + 1)
  IN CASE At(text, p) = "," /\ n > 0 -> Vias(text, q, n)
       [] At(text, p) # "body" /\ ~ (At(text, p) = "," /\ n > 0) -> <<>>
       [] At(text, p) = "body" /\ At(text, q) = "," -> Vias(text, eat_lws_cr(text, q + 1), n + 1)
       [] OTHER -> <<n + 1, q>>

(* trim_r *)
TrimRight(text, a, b) ==
  <<a, Max({a} \union { i + 1 : i \in { j \in a .. b - 1 : text[j] \notin {"CR", "LF"} } })>>

(* "just skip over it": the first LF that no blank follows; at the end of   *)
(* the text any LF will do.                                                 *)
EndsOfLines(text, p) ==
  { i \in p .. Len(text) : text[i] = "LF" /\ (i = Len(text) \/ text[i + 1] # "SP") }
Skip(h, text, p) ==
  IF EndsOfLines(text, p) = {} THEN BadHeader
  ELSE LET end == Min(EndsOfLines(text, p)) + 1
       IN [h EXCEPT !.body = TrimRight(text, p, end), !.next = end]

(* parse_via goes on to the end of the bodies; the line must end there. *)
AfterLine(text, p) ==
  IF At(text, p) = "CR" /\ At(text, p + 1) = "LF" THEN p + 2 ELSE p + 1

Via(h, text, p) ==
  LET Ended(n, q) ==
        IF At(text, q) \notin {"CR", "LF"} THEN BadHeader
        ELSE LET end == AfterLine(text, q)
             IN [h EXCEPT !.body = TrimRight(text, p, end), !.next = end, !.vias = n]
      Read(v) == IF v = <<>> THEN BadHeader ELSE Ended(v[1], v[2])
  IN Read(Vias(text, eat_lws_cr(text, p), 0))

get_hdr_field(text, p) ==
  LET Body(h, q) ==
        IF q > Len(text) THEN BadHeader
        ELSE IF h.type = "via" THEN Via(h, text, q) ELSE Skip(h, text, q)
      Named(h) == IF h.type = "error" THEN h ELSE Body(h, eat_lws_end(text, h.next))
  IN IF text[p] \in {"CR", "LF"} THEN Header("eoh", p) ELSE Named(parse_hname(text, p))

-----------------------------------------------------------------------------
(* parse_headers *)

(* A header is whole when a CR LF has come that is the first of the rest or *)
(* is not followed by a blank; what follows the last one is not known yet.  *)
HaveHeader_bug(text, p, after) ==
  \E i \in p .. Len(text) - 1 : text[i] = "CR" /\ text[i + 1] = "LF"

HaveHeader(text, p, after) ==
  \E i \in p .. Len(text) - 1 :
    /\ text[i] = "CR" /\ text[i + 1] = "LF"
    /\ i = p \/ (IF i + 2 \in DOMAIN text THEN text[i + 2] ELSE after) \notin {"SP", "NUL"}

(* The first of its type, or the end of the chain. *)
Link(m, h) ==
  LET n == Len(m.headers) + 1
  IN [m EXCEPT !.headers = Append(@, h),
               !.flags = IF h.type \in Known \ {"retry_after"} THEN @ \union {h.type} ELSE @,
               !.hook = [t \in Known |->
                           IF t = h.type /\ (t \in ChainOf \union {"via"} \/ (t \in FirstOf /\ @[t] = <<>>))
                           THEN Append(@[t], n) ELSE @[t]]]

(* Only the first header is asked for its second body. *)
LinkVia_bug(m, h) ==
  LET n == Len(m.headers) + 1
  IN CASE m.via1 = <<>> ->
            [Link(m, h) EXCEPT !.via1 = <<n, 1>>, !.via2 = IF h.vias > 1 THEN <<n, 2>> ELSE <<>>]
       [] OTHER -> [Link(m, h) EXCEPT !.via2 = <<n, 1>>]

(* via2 is the second body of the first Via or the first of the second. *)
LinkVia(m, h) ==
  LET n == Len(m.headers) + 1
      l == Link(m, h)
      two(w) == [w EXCEPT !.flags = @ \union {"via2"}]
  IN CASE m.via1 = <<>> /\ h.vias = 1 -> [l EXCEPT !.via1 = <<n, 1>>]
       [] m.via1 = <<>> /\ h.vias > 1 -> two([l EXCEPT !.via1 = <<n, 1>>, !.via2 = <<n, 2>>])
       [] m.via1 # <<>> /\ m.via2 = <<>> -> two([l EXCEPT !.via2 = <<n, 1>>])
       [] OTHER -> l

RECURSIVE Headers(_, _, _, _)
Headers(m, text, want, after) ==
  LET p == m.unparsed
      Next(h) ==
        CASE h.type = "error" -> [m EXCEPT !.ret = "error"]
          [] h.type = "eoh" -> [m EXCEPT !.eoh = p, !.flags = @ \union {"eoh"}, !.ret = "ok"]
          [] OTHER -> Headers([(IF h.type = "via" THEN LinkVia(m, h) ELSE Link(m, h)) EXCEPT !.unparsed = h.next],
                              text, want, after)
  IN CASE p > Len(text) \/ want \subseteq m.flags -> [m EXCEPT !.ret = "ok"]
       [] p <= Len(text) /\ ~ want \subseteq m.flags /\ ~ HaveHeader(text, p, after) ->
            [m EXCEPT !.ret = "partial"]
       [] OTHER -> Next(get_hdr_field(text, p))

(* With next, what is wanted is looked for again; only after an error are   *)
(* its flags given back.  After an error unparsed stays where it was.       *)
parse_headers(m, text, want, next, after) ==
  LET clear == IF next THEN m.flags \ want ELSE m.flags
      flags == IF next THEN m.flags ELSE {}
      Done(done) == IF done.ret = "error"
                    THEN [done EXCEPT !.unparsed = m.unparsed, !.flags = @ \union flags] ELSE done
  IN Done(Headers([m EXCEPT !.flags = clear], text, want, after))

-----------------------------------------------------------------------------
(* parse_msg *)

parse_msg(m, text, want, after) ==
  LET go(w) == parse_headers(w, text, want \union {"via"}, FALSE, after)
      First(line) ==
        CASE line.next = 0 -> [m EXCEPT !.ret = "partial"]
          [] line.next # 0 /\ line.type = "invalid" ->
               [m EXCEPT !.first = "invalid", !.unparsed = line.next, !.ret = "error"]
          [] OTHER -> go([m EXCEPT !.first = line.type, !.unparsed = line.next])
  IN IF m.unparsed # 0 THEN go(m)
     ELSE First(parse_first_line(text, FirstNotIn(text, 1, {"CR", "LF"})))

Whole(text, after) == parse_msg(NoMsg, text, {"eoh"}, after)

-----------------------------------------------------------------------------
(* Properties *)

(* A message that arrives in pieces, with parse_msg called after any of     *)
(* them, is the message that arrives at once; unless the byte after the     *)
(* text, which nobody wrote, happened to say that a line was not folded,    *)
(* or a line has no ':' and its name went on in the next.                   *)
OneLine(text, h) == \A i \in h.name[1] .. h.name[2] - 1 : text[i] \notin {"CR", "LF"}

Incremental(m, text, after) ==
  LET Right(whole) ==
        after = "NUL" /\ (\A h \in Range(whole.headers) : OneLine(text, h)) =>
          CASE m.ret = "ok" -> m = whole
            [] m.ret = "error" -> whole.ret = "error"
            [] m.ret = "partial" -> IsPrefix(m.headers, whole.headers)
  IN Right(Whole(text, after))

(* However the headers came, msg leads to every header of a type that has a *)
(* chain, in their order, to the first of the others, and to the first two  *)
(* bodies of all the Vias; the flags say which there are.                   *)
Bodies(m) ==
  FlattenSeq([i \in DOMAIN m.headers |-> [k \in 1 .. m.headers[i].vias |-> <<i, k>>]])

HooksRight(m) ==
  LET of(t) == SelectSeq([i \in DOMAIN m.headers |-> i], LAMBDA i : m.headers[i].type = t)
      nth(n) == IF Len(Bodies(m)) >= n THEN Bodies(m)[n] ELSE <<>>
  IN /\ \A t \in Known :
          m.hook[t] = IF t \in ChainOf \union {"via"} THEN of(t)
                      ELSE IF t \in FirstOf /\ of(t) # <<>> THEN <<Head(of(t))>> ELSE <<>>
     /\ m.via1 = nth(1) /\ m.via2 = nth(2)
     /\ m.flags \subseteq { t \in Known : of(t) # <<>> } \union {"eoh", "via2"}
     /\ "via2" \in m.flags <=> m.via2 # <<>>
=============================================================================
