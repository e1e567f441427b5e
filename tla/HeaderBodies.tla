------------------------------ MODULE HeaderBodies ------------------------------
(***************************************************************************)
(* The bodies that are words: src/core/parser/parse_methods.c, parse_cseq.c,*)
(* parse_privacy.c, parse_supported.c, parse_sst.c, parse_expires.c,       *)
(* parse_event.c, parse_sipifmatch.c and parse_content_length.             *)
(*                                                                         *)
(* A text is a sequence of words the code knows, in any case, and of single *)
(* characters: x a letter, ? one no method may have, 5 a digit.             *)
(***************************************************************************)
EXTENDS ParamList

(* The words of text between the marks, blanks apart. *)
Split(text, marks) ==
  LET cuts == SetToSortSeq({ i \in DOMAIN text : text[i] \in marks } \union {0, Len(text) + 1}, <)
  IN { SelectSeq(SubSeq(text, cuts[i] + 1, cuts[i + 1] - 1), LAMBDA c : c \notin White) :
         i \in 1 .. Len(cuts) - 1 }

-----------------------------------------------------------------------------
(* parse_methods.c *)

Known == {"ACK", "BYE", "CANCEL", "INFO", "INVITE", "MESSAGE", "NOTIFY", "OPTIONS", "PRACK",
          "PUBLISH", "REFER", "REGISTER", "SUBSCRIBE", "UPDATE"}
(* The second letter of INFO and INVITE is not looked at: what has another  *)
(* there, IxFO, is one of them.                                             *)
Method(word) == IF word = "IxFO" THEN "INFO" ELSE word
MethodWords == Known \union {"IxFO"}
method_char == MethodWords \union {"x", "5", "path", "none", "id"}
Separators == White \union {",", "NUL"}

(* From start to before end: where the method ends, 0 if it is none. *)
Unknown_bug(text, from, end, method) ==
  LET to == Min({ i \in from .. end - 1 : At(text, i) \in Separators } \union {end})
  IN [to |-> IF \E i \in from .. to - 1 : At(text, i) \notin method_char THEN 0 ELSE to,
      method |-> method]

Unknown(text, from, end, method) ==
  LET to == Min({ i \in from .. end - 1 : At(text, i) \in Separators } \union {end})
  IN [to |-> IF \E i \in from .. to - 1 : At(text, i) \notin method_char THEN 0 ELSE to,
      method |-> "OTHER"]

parse_method(text, start, end) ==
  LET word == At(text, start)
  IN CASE word \notin MethodWords -> Unknown(text, start, end, "OTHER")
       [] word \in MethodWords /\ (start + 1 = end \/ At(text, start + 1) \in Separators) ->
            [to |-> start + 1, method |-> Method(word)]
       [] OTHER -> Unknown(text, start + 1, end, Method(word))

(* From p on, with what was found so far; nothing between two commas is an  *)
(* unknown method.                                                          *)
RECURSIVE Methods(_, _, _)
Methods(text, str, found) ==
  LET m == parse_method(text, str.s, End(str))
      all == found \union {m.method}
      next == trim_leading(text, Move(str, m.to - str.s))
      after == trim_leading(text, Move(next, 1))
  IN CASE str.len = 0 -> [ok |-> TRUE, methods |-> found]
       [] str.len # 0 /\ m.to = 0 -> [ok |-> FALSE, methods |-> {}]
       [] str.len # 0 /\ m.to # 0 /\ (next.len = 0 \/ At(text, next.s) = "NUL") ->
            [ok |-> TRUE, methods |-> all]
       [] str.len # 0 /\ m.to # 0 /\ next.len # 0 /\ At(text, next.s) = "," -> Methods(text, after, all)
       [] OTHER -> [ok |-> FALSE, methods |-> {}]

parse_methods(text) == Methods(text, trim_leading(text, Str(1, Len(text))), {})

-----------------------------------------------------------------------------
(* parse_cseq.c, in a text that goes on behind the line: the number, the    *)
(* method and where the next header begins.                                 *)

BadCSeq == [ok |-> FALSE, number |-> NoStr, method |-> NoStr, id |-> "OTHER", next |-> 0]
TokenEnd(text, i) == FirstIn(text, Str(i, Len(text) + 1 - i), White)
SpaceEnd(text, i) ==
  Min({ k \in i .. Len(text) : At(text, k) # "SP" } \union {Len(text) + 1})

(* Blanks and new lines that a blank follows. *)
RECURSIVE LwsEnd(_, _)
LwsEnd(text, i) ==
  LET is(k, c) == k <= Len(text) /\ text[k] = c
  IN CASE is(i, "SP") -> LwsEnd(text, i + 1)
       [] is(i, "LF") /\ is(i + 1, "SP") -> LwsEnd(text, i + 2)
       [] is(i, "CR") /\ is(i + 1, "LF") /\ is(i + 2, "SP") -> LwsEnd(text, i + 3)
       [] OTHER -> i

parse_cseq(text) ==
  LET t == TokenEnd(text, 1)
      m == SpaceEnd(text, t)
      to == TokenEnd(text, m)
      method == parse_method(text, m, to)
      end == LwsEnd(text, to)
      crlf == end < Len(text) /\ text[end] = "CR" /\ text[end + 1] = "LF"
  IN IF to > Len(text) \/ to = m THEN BadCSeq
     ELSE IF method.to = 0 \/ end > Len(text) \/ ~ (crlf \/ text[end] = "LF") THEN BadCSeq
     ELSE [ok |-> TRUE, number |-> Str(1, t - 1), method |-> Str(m, to - m), id |-> method.method,
           next |-> IF crlf THEN end + 2 ELSE end + 1]

-----------------------------------------------------------------------------
(* parse_privacy.c *)

Privacy == {"critical", "header", "history", "id", "none", "session", "user"}

(* What is left is counted with the blanks and marks that were passed: a    *)
(* value is always looked behind, at the end of the line, too.              *)
RECURSIVE Values(_, _, _)
Values(text, str, found) ==
  LET value == At(text, str.s)
      next == trim_leading(text, Move(str, 1))
      after == trim_leading(text, Move(next, 1))
  IN CASE value \notin Privacy \/ At(text, str.s + 1) \notin White \union {";", "NUL"} -> {}
       [] value \in Privacy /\ At(text, str.s + 1) \in White \union {";", "NUL"} /\ next.len = 0 ->
            found \union {value}
       [] OTHER -> IF At(text, next.s) # ";" \/ after.len = 0 THEN {}
                   ELSE Values(text, after, found \union {value})

(* {} is an error; nothing goes with none. *)
parse_privacy(text) ==
  LET str == trim_leading(text, Str(1, Len(text)))
      values == IF str.len = 0 THEN {} ELSE Values(text, str, {})
  IN IF "none" \in values /\ values # {"none"} THEN {} ELSE values

-----------------------------------------------------------------------------
(* parse_supported.c *)

Options == {"path", "100rel", "timer", "eventlist"}
(* A word is known by its first four letters. *)
Quaternions == Options \union {"time"}

(* A word that begins as a known one and is another is never passed. *)
parse_supported_body(text) ==
  LET words == Split([i \in DOMAIN text |-> IF text[i] \in White THEN "," ELSE text[i]], {","}) \ {<<>>}
  IN [ends |-> \A w \in words : w[1] \in Quaternions => w \in { <<o>> : o \in Options },
      sup |-> { o \in Options : <<o>> \in words }]

-----------------------------------------------------------------------------
(* parse_sst.c *)

SkipDigits(text, i) == Min({ k \in i .. Len(text) : text[k] # "5" } \union {Len(text) + 1})

NoExpires(why) == [result |-> why, interval |-> NoStr, refresher |-> "unspecified"]

(* The parameters from i on, each behind its ";". *)
RECURSIVE SeParams(_, _, _)
SeParams(text, i, se) ==
  LET word == At(text, i + 1)
      next == FirstIn(text, Str(i + 1, Len(text) - i), {";"})
  IN CASE i > Len(text) -> se
       [] i <= Len(text) /\ At(text, i) # ";" -> NoExpires("parse_error")
       [] i <= Len(text) /\ At(text, i) = ";" /\ word = "refresher=uac" ->
            SeParams(text, i + 2, [se EXCEPT !.refresher = "uac"])
       [] i <= Len(text) /\ At(text, i) = ";" /\ word = "refresher=uas" ->
            SeParams(text, i + 2, [se EXCEPT !.refresher = "uas"])
       [] i <= Len(text) /\ At(text, i) = ";" /\ word = "refresher=" -> NoExpires("parse_error")
       [] OTHER -> SeParams(text, next, se)

parse_session_expires_body(text) ==
  LET from == SpaceEnd(text, 1)
      to == SkipDigits(text, from)
  IN CASE Len(text) = 0 -> NoExpires("header_not_found")
       [] Len(text) # 0 /\ to = from -> NoExpires("no_value")
       [] OTHER -> SeParams(text, to, [NoExpires("success") EXCEPT !.interval = Str(from, to - from)])

(* An interval of no digits, before a blank, is accepted. *)
parse_min_se_body(text) ==
  LET from == SpaceEnd(text, 1)
      to == SkipDigits(text, from)
  IN CASE from > Len(text) -> NoExpires("no_value")
       [] from <= Len(text) /\ SpaceEnd(text, to) <= Len(text) -> NoExpires("parse_error")
       [] OTHER -> [NoExpires("success") EXCEPT !.interval = Str(from, to - from)]

(* parse_expires.c: a number, with str2int. *)
Numeric(text, str) == \A i \in Places(str) : At(text, i) = "5"
expires_parser(text) ==
  LET str == trim(text, Str(1, Len(text)))
  IN IF str.len > 0 /\ Numeric(text, str) THEN str ELSE NoStr

(* parse_content_length: where the header ends, 0 for an error; blanks and  *)
(* folded lines, the end of the text always an error.                       *)
SkipLws(text, i) ==
  Min({ k \in i .. Len(text) : ~ (text[k] = "SP" \/ (text[k] = "LF" /\ At(text, k + 1) = "SP")) }
        \union {Len(text) + 1})
parse_content_length(text) ==
  LET from == SkipLws(text, 1)
      to == SkipDigits(text, from)
      end == SkipLws(text, to)
  IN CASE to = from \/ end > Len(text) -> 0
       [] to # from /\ end <= Len(text) /\ At(text, end) = "LF" -> end + 1
       [] OTHER -> IF At(text, end) = "CR" /\ At(text, end + 1) = "LF" THEN end + 2 ELSE 0

-----------------------------------------------------------------------------
(* parse_event.c, parse_sipifmatch.c *)

Events == {"presence", "presence.winfo", "xcap-change", "sip-profile", "message-summary", "dialog"}
skip_token(text, str) == FirstIn(text, str, White \union {";"})

(* What stands behind a blank is ignored; dialog;sla is an event. *)
NoEvent == [ok |-> FALSE, text |-> NoStr, parsed |-> "OTHER", params |-> <<>>]
event_parser(text) ==
  LET str == trim_leading(text, Str(1, Len(text)))
      name == Str(str.s, skip_token(text, str) - str.s)
      event == IF name.len = 1 /\ At(text, name.s) \in Events THEN At(text, name.s) ELSE "OTHER"
      with == name.len < str.len /\ At(text, End(name)) = ";"
      params == parse_params(text, Move(str, name.len + 1), "ANY")
      sla == event = "dialog" /\ params.list # <<>> /\ Chars(text, params.list[1].name) = <<"sla">>
  IN CASE str.len = 0 -> NoEvent
       [] str.len # 0 /\ ~ with -> [ok |-> TRUE, text |-> name, parsed |-> event, params |-> <<>>]
       [] OTHER -> IF ~ params.ok THEN NoEvent
                   ELSE [ok |-> TRUE, text |-> name, parsed |-> IF sla THEN "dialog;sla" ELSE event,
                         params |-> params.list]

etag_parser(text) ==
  LET str == trim_leading(text, Str(1, Len(text)))
  IN IF str.len = 0 THEN NoStr ELSE Str(str.s, skip_token(text, str) - str.s)

-----------------------------------------------------------------------------
(* Properties *)

(* A list of methods is the set of its words. *)
MethodsRight(text) ==
  LET h == parse_methods(text)
      upto == FirstIn(text, Str(1, Len(text)), {"NUL"})
      names == Split(SubSeq(text, 1, upto - 1), {","})
      Is(w) == IF Len(w) = 1 /\ w[1] \in MethodWords THEN Method(w[1]) ELSE "OTHER"
  IN h.ok => /\ { Is(w) : w \in names \ {<<>>} } \subseteq h.methods
             /\ h.methods \subseteq { Is(w) : w \in names }

(* The method of a CSeq is what it says, and its line ends it. *)
CSeqRight(text) ==
  LET h == parse_cseq(text)
      word == Str(h.method.s, FirstIn(text, h.method, {",", "NUL"}) - h.method.s)
  IN h.ok => /\ h.id = (IF word.len = 1 /\ At(text, word.s) \in MethodWords
                        THEN Method(At(text, word.s)) ELSE "OTHER")
             /\ text[h.next - 1] = "LF"
             /\ \A i \in DOMAIN text : i > h.method.s /\ i < h.next - 1 /\ text[i] = "LF" => At(text, i + 1) = "SP"

(* Privacy and Supported are the sets of their words. *)
PrivacyRight(text) ==
  LET values == { <<v>> : v \in parse_privacy(text) }
  IN values # {} => /\ Split(text, {";", "NUL"}) \ {<<>>} \subseteq values
                    /\ values \subseteq Split(text, {";", "NUL"})

SupportedRight(text) ==
  parse_supported_body(text).ends =>
       \A o \in Options : o \in parse_supported_body(text).sup <=>
         \E i \in DOMAIN text : /\ text[i] = o
                                /\ i = 1 \/ At(text, i - 1) \in White \union {","}
                                /\ At(text, i + 1) \in White \union {","}

(* The refresher is the last that is named. *)
RefresherRight(text) ==
  LET h == parse_session_expires_body(text)
      named == { i \in DOMAIN text : text[i] \in {"refresher=uac", "refresher=uas"} /\ text[i - 1] = ";" }
  IN h.result = "success" =>
       h.refresher = (IF named = {} THEN "unspecified"
                      ELSE IF text[Max(named)] = "refresher=uac" THEN "uac" ELSE "uas")
=============================================================================
