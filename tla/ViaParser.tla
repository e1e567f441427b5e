------------------------------- MODULE ViaParser -------------------------------
(***************************************************************************)
(* src/core/parser/parse_via.c: parse_via and parse_via_param, the bodies  *)
(* of a Via header, separated by commas, folded over several lines, with   *)
(* parameters, quoted values and nested comments.                          *)
(*                                                                         *)
(* A character is itself where the code tells it apart and "x" otherwise;  *)
(* "5" is a digit, SP a blank or a tab, Q a quote.  "SIP", "2.0" and a     *)
(* transport are read as one, and the chains of states that spell a name   *)
(* are the letters w read so far, with as many letters as tell the names   *)
(* apart: re (received), rp (rport), i, m(addr), t(tl), a(lias); branch    *)
(* and hidden have two, br and hi, for the sake of the names that only     *)
(* begin like one.  A piece is <<from, to>>: the characters from .. to - 1.*)
(***************************************************************************)
EXTENDS Integers, Sequences, SequencesExt

Names == {<<"b", "r">>, <<"r", "e">>, <<"r", "p">>, <<"h", "i">>, <<"i">>, <<"m">>,
          <<"t">>, <<"a">>}
Gen   == <<"gen">>
Alone == {<<"h", "i">>, <<"a">>}    (* hidden and alias take no value *)
Rport == <<"r", "p">>               (* with or without a value *)
Transports == {"UDP", "TCP", "TLS", "SCTP"}

None   == <<0, 0>>
Param(start) == [type |-> Gen, name |-> None, value |-> None, start |-> start, size |-> 0]
NewVia(start) == [transport |-> None, host |-> None, port |-> None, comment |-> None,
                  list |-> <<>>, start |-> start]

(* in is the loop: "first" and "main" in parse_via, "name" and "value" in   *)
(* parse_via_param; "end" is the end of the header, which has to be in one  *)
(* of a few states, and "error" parse_error.                                *)
Start == [in |-> "first", state |-> "F_SIP", saved |-> "none", p |-> 1, w |-> <<>>,
          s |-> 0, num |-> TRUE, c_nest |-> 0, param_start |-> 0, param |-> Param(0),
          vb |-> NewVia(1), vias |-> <<>>]

-----------------------------------------------------------------------------
(* Lines *)

Error(m) == [m EXCEPT !.in = "error"]
Goto(m, st) == [m EXCEPT !.state = st]
Folded(m) == m.state \in {"F_CR", "F_LF", "F_CRLF"}
NewLine(c) == IF c = "CR" THEN "F_CR" ELSE "F_LF"

(* The states parse_via may end in (endofpacket); the port is a number.     *)
Complete == {"P_HOST", "L_PORT", "P_PORT", "L_PARAM", "P_PARAM", "L_VIA"}
Finish(m) ==
  IF m.state \in Complete /\ m.num
  THEN [m EXCEPT !.in = "end", !.vias = Append(@, m.vb)] ELSE Error(m)
endofheader(m) == Finish(Goto(m, m.saved))

(* A line that ends with both is two lines. *)
EndOfLine_bug(m, c, over) ==
  IF Folded(m) THEN over ELSE [m EXCEPT !.saved = m.state, !.state = NewLine(c)]

(* A line has ended, with c: in state st, unless it was already at an end.  *)
EndOfLine(m, c, over) ==
  CASE m.state = "F_CR" /\ c = "LF" -> Goto(m, "F_CRLF")
    [] Folded(m) /\ ~ (m.state = "F_CR" /\ c = "LF") -> over
    [] OTHER -> [m EXCEPT !.saved = m.state, !.state = NewLine(c)]

-----------------------------------------------------------------------------
(* SIP / 2.0 / transport *)

NoBreak(m) == m.state = "FIN" /\ m.w = <<"SCTP">>

ToHost(m) == [m EXCEPT !.in = "main", !.state = "F_HOST", !.vb.transport = <<m.s, m.p>>]

FirstBlank(m) ==
  CASE m.state \in {"L_VER", "L_PROTO", "F_SIP", "F_VER", "F_PROTO"} -> m
    [] m.state = "FIN" -> ToHost(m)
    [] m.state = "FIN_SIP" -> Goto(m, "L_VER")
    [] m.state = "FIN_VER" -> Goto(m, "L_PROTO")
    [] Folded(m) -> Goto(m, m.saved)
    [] OTHER -> Error(m)

FirstLine(m, c) ==
  CASE m.state = "FIN" -> IF NoBreak(m) THEN Error(m) ELSE EndOfLine(ToHost(m), c, m)
    [] m.state = "FIN_SIP" -> EndOfLine(Goto(m, "L_VER"), c, m)
    [] m.state = "FIN_VER" -> EndOfLine(Goto(m, "L_PROTO"), c, m)
    [] OTHER -> EndOfLine(m, c, Error(m))

Slash(m) ==
  CASE m.state \in {"FIN_SIP", "L_VER"} -> Goto(m, "F_VER")
    [] m.state \in {"FIN_VER", "L_PROTO"} -> Goto(m, "F_PROTO")
    [] OTHER -> Error(m)

Word(m, c) ==
  CASE c = "SIP" /\ m.state = "F_SIP" -> Goto(m, "FIN_SIP")
    [] c = "2.0" /\ m.state = "F_VER" -> Goto(m, "FIN_VER")
    [] c \in Transports /\ m.state = "F_PROTO" ->
         [m EXCEPT !.state = "FIN", !.w = <<c>>, !.s = m.p]
    [] OTHER -> Error(m)

First(m, c) ==
  CASE c = "SP" -> FirstBlank(m)
    [] c \in {"CR", "LF"} -> FirstLine(m, c)
    [] c = "/" -> Slash(m)
    [] OTHER -> Word(m, c)

-----------------------------------------------------------------------------
(* main_via: host : port ; parameters ( comment ) *)

(* What a blank, a line's end or a separator ends. *)
EndOfHost(m) ==
  CASE m.state = "P_HOST" -> [m EXCEPT !.state = "L_PORT", !.vb.host = <<m.s, m.p>>]
    [] m.state = "P_PORT" -> [m EXCEPT !.state = "L_PARAM", !.vb.port = <<m.s, m.p>>]
    [] OTHER -> m

InComment(m) == m.state \in {"F_COMMENT", "P_COMMENT"}
(* A comment that is empty has no start, or that of the one before it. *)
Comment(m) ==
  IF m.state = "F_COMMENT" THEN [m EXCEPT !.state = "P_COMMENT", !.vb.comment[1] = m.p] ELSE m

Blank(m) ==
  CASE Folded(m) -> Goto(m, m.saved)
    [] m.state \in {"F_IP6HOST", "P_IP6HOST"} -> Error(m)
    [] OTHER -> EndOfHost(m)

(* An address without '[' leaves the host without a start. *)
ColonInHost(m) ==
  CASE m.state = "F_HOST" -> [m EXCEPT !.state = "P_IP6HOST", !.s = 0]
    [] m.state = "F_IP6HOST" -> Goto(m, "P_IP6HOST")
    [] m.state = "P_IP6HOST" -> m
    [] m.state \in {"P_HOST", "L_PORT"} -> Goto(EndOfHost(m), "F_PORT")
    [] OTHER -> Error(m)

Semicolon(m) ==
  IF m.state \in {"P_HOST", "P_PORT", "L_PORT", "L_PARAM"}
  THEN [EndOfHost(m) EXCEPT !.state = "F_PARAM", !.param_start = m.p + 1] ELSE Error(m)

Comma(m) ==
  CASE m.state \in {"P_HOST", "P_PORT", "L_PORT", "L_PARAM", "L_VIA"} -> Goto(EndOfHost(m), "F_VIA")
    [] m.state = "F_VIA" -> m
    [] OTHER -> Error(m)

Opening(m) ==
  CASE m.state \in {"P_HOST", "P_PORT", "L_PORT", "L_PARAM", "L_VIA"} ->
         [EndOfHost(m) EXCEPT !.state = "F_COMMENT", !.c_nest = 1]
    [] InComment(m) -> [m EXCEPT !.c_nest = @ + 1]
    [] OTHER -> Error(m)

Closing(m) ==
  CASE InComment(m) /\ m.c_nest = 1 ->
         [m EXCEPT !.state = "L_VIA", !.c_nest = 0, !.vb.comment[2] = m.p]
    [] InComment(m) /\ m.c_nest > 1 -> [m EXCEPT !.c_nest = @ - 1]
    [] OTHER -> Error(m)

Brackets(m, c) ==
  CASE c = "[" /\ m.state = "F_HOST" -> [m EXCEPT !.state = "F_IP6HOST", !.s = m.p]
    [] c = "]" /\ m.state = "P_IP6HOST" ->
         [m EXCEPT !.state = "L_PORT", !.vb.host = <<m.s, m.p + 1>>]
    [] OTHER -> Error(m)

Spells(w) == \E n \in Names : IsPrefix(w, n)
Letter(w, c) == IF Spells(Append(w, c)) THEN Append(w, c) ELSE Gen

(* The first character of a name: parse_via_param begins. *)
FirstOfName(m, c) ==
  IF c = "=" THEN Error(m)
  ELSE [m EXCEPT !.in = "name", !.state = "NAME", !.w = Letter(<<>>, c),
                 !.param = [Param(m.param_start) EXCEPT !.name[1] = m.p]]

(* The new body is not cleared. *)
NextVia_bug(m, c) ==
  IF m.num THEN First([Start EXCEPT !.p = m.p, !.vb = m.vb, !.vias = Append(m.vias, m.vb)], c)
  ELSE Error(m)

(* Another body (nextvia), from its first character. *)
NextVia(m, c) ==
  IF m.num
  THEN First([Start EXCEPT !.p = m.p, !.vb = NewVia(m.p), !.vias = Append(m.vias, m.vb)], c)
  ELSE Error(m)

Other(m, c) ==
  CASE m.state = "F_HOST" -> [m EXCEPT !.state = "P_HOST", !.s = m.p]
    [] m.state = "F_PORT" -> [m EXCEPT !.state = "P_PORT", !.s = m.p, !.num = c = "5"]
    [] m.state = "P_PORT" -> [m EXCEPT !.num = @ /\ c = "5"]
    [] m.state = "F_IP6HOST" -> Goto(m, "P_IP6HOST")
    [] m.state \in {"P_HOST", "P_IP6HOST"} -> m
    [] m.state = "F_PARAM" -> FirstOfName(m, c)
    [] m.state = "F_VIA" -> NextVia(m, c)
    [] OTHER -> Error(m)

Main(m, c) ==
  CASE c = "SP" -> Blank(m)
    [] c \in {"CR", "LF"} -> EndOfLine(EndOfHost(m), c, endofheader(m))
    [] c \notin {"SP", "CR", "LF"} /\ Folded(m) -> endofheader(m)
    [] c \notin {"SP", "CR", "LF", "(", ")"} /\ InComment(m) -> Comment(m)
    [] c \in {"(", ")"} /\ ~ Folded(m) -> IF c = "(" THEN Opening(m) ELSE Closing(m)
    [] c = ":" /\ ~ Folded(m) /\ ~ InComment(m) -> ColonInHost(m)
    [] c = ";" /\ ~ Folded(m) /\ ~ InComment(m) -> Semicolon(m)
    [] c = "," /\ ~ Folded(m) /\ ~ InComment(m) -> Comma(m)
    [] c \in {"[", "]"} /\ ~ Folded(m) /\ ~ InComment(m) -> Brackets(m, c)
    [] OTHER -> Other(m, c)

-----------------------------------------------------------------------------
(* parse_via_param *)

(* The parameter is done: back in parse_via, which puts it in the list.     *)
EndOfParam(m, state, saved) ==
  LET q == [m.param EXCEPT !.size = m.p - m.param.start]
  IN [m EXCEPT !.in = "main", !.state = state, !.saved = saved, !.vb.list = Append(@, q),
               !.param_start = IF state = "F_PARAM" THEN m.p + 1 ELSE @]

Named(m) == [m EXCEPT !.param.type = m.w, !.param.name[2] = m.p]

(* A name that only begins like a known one is taken for it. *)
Known_bug(m) == m

(* The letters of a name cut short are those of a generic one. *)
Known(m) == IF m.w \in Names THEN m ELSE [m EXCEPT !.w = Gen]

ToValue(m, state, saved) ==
  [Named(m) EXCEPT !.in = "value", !.state = state, !.saved = saved]

NameBlank(m) ==
  IF m.w \in Alone THEN EndOfParam(Named(m), "L_PARAM", m.saved)
  ELSE ToValue(m, "L_VALUE", m.saved)

NameLine(m, c) ==
  IF m.w \in Alone THEN EndOfParam(Named(m), NewLine(c), "L_PARAM")
  ELSE ToValue(m, NewLine(c), "L_VALUE")

NameEquals(m) == IF m.w \in Alone THEN Error(m) ELSE ToValue(m, "F_VALUE", m.saved)

AfterSeparator(c) == IF c = ";" THEN "F_PARAM" ELSE "F_VIA"

NameSeparator(m, c) ==
  IF m.w \in Alone \union {Rport, Gen}
  THEN EndOfParam(Named(m), AfterSeparator(c), m.saved) ELSE Error(m)

Name(m, c) ==
  CASE c = "SP" -> NameBlank(Known(m))
    [] c \in {"CR", "LF"} -> NameLine(Known(m), c)
    [] c = "=" -> NameEquals(Known(m))
    [] c \in {";", ","} -> NameSeparator(Known(m), c)
    [] OTHER -> [m EXCEPT !.w = IF m.w = Gen THEN Gen ELSE Letter(m.w, c)]

(* end_via: the header has ended before a value was found. *)
EndWithoutValue(m) ==
  IF m.param.type \in {Gen, Rport}
  THEN Finish([m EXCEPT !.state = "L_PARAM", !.vb.list = Append(@, m.param)])
  ELSE Error(m)

Valued(m) == [m EXCEPT !.param.value[2] = m.p]

ValueBlank(m) ==
  CASE m.state \in {"L_VALUE", "F_VALUE", "P_STRING"} -> m
    [] m.state = "P_VALUE" -> EndOfParam(Valued(m), "L_PARAM", m.saved)
    [] OTHER -> Goto(m, m.saved)

ValueLine(m, c) ==
  IF m.state = "P_VALUE" THEN EndOfParam(Valued(m), NewLine(c), "L_PARAM")
  ELSE EndOfLine(m, c, EndWithoutValue(m))

ValueSeparator(m, c) ==
  CASE m.state = "P_VALUE" -> EndOfParam(Valued(m), AfterSeparator(c), m.saved)
    [] m.state = "F_VALUE" /\ c = ";" -> EndOfParam(m, "F_PARAM", m.saved)
    [] m.state = "L_VALUE" /\ m.param.type = Rport -> EndOfParam(m, AfterSeparator(c), m.saved)
    [] OTHER -> Error(m)

Quote(m) ==
  CASE m.state = "F_VALUE" -> [m EXCEPT !.state = "P_STRING", !.param.value[1] = m.p + 1]
    [] m.state = "P_STRING" -> EndOfParam(Valued(m), "L_PARAM", m.saved)
    [] OTHER -> Error(m)

ValueOther(m) ==
  CASE m.state = "F_VALUE" -> [m EXCEPT !.state = "P_VALUE", !.param.value[1] = m.p]
    [] m.state = "P_VALUE" -> m
    [] OTHER -> Error(m)

(* A comma in a string ends the header where it stands. *)
Value(m, c) ==
  CASE c = "SP" -> ValueBlank(m)
    [] c \in {"CR", "LF"} -> ValueLine(m, c)
    [] c \notin {"SP", "CR", "LF"} /\ Folded(m) -> EndWithoutValue(m)
    [] c = "," /\ m.state = "P_STRING" -> EndWithoutValue(m)
    [] c \notin {"SP", "CR", "LF", "Q", ","} /\ m.state = "P_STRING" -> m
    [] c = "Q" /\ ~ Folded(m) -> Quote(m)
    [] c = "=" /\ ~ Folded(m) /\ m.state # "P_STRING" ->
         IF m.state = "L_VALUE" THEN Goto(m, "F_VALUE") ELSE Error(m)
    [] c \in {";", ","} /\ ~ Folded(m) /\ m.state # "P_STRING" -> ValueSeparator(m, c)
    [] OTHER -> ValueOther(m)

Char(m, c) ==
  CASE m.in = "first" -> First(m, c)
    [] m.in = "main"  -> Main(m, c)
    [] m.in = "name"  -> Name(m, c)
    [] m.in = "value" -> Value(m, c)

Failed(m) == m.in \in {"error", "end"}
Step(m, c) == LET n == Char(m, c) IN IF Failed(n) THEN n ELSE [n EXCEPT !.p = m.p + 1]

-----------------------------------------------------------------------------
(* Properties *)

Text(input, piece) == SubSeq(input, piece[1], piece[2] - 1)
Squeeze(text) == SelectSeq(text, LAMBDA c : c \notin {"SP", "CR", "LF", "Q"})

ParamText(input, q) ==
  LET given == q.value[2] > 0
  IN <<";">> \o Text(input, q.name) \o (IF given THEN <<"=">> \o Text(input, q.value) ELSE <<>>)

ViaText(input, v) ==
  <<"SIP", "/", "2.0", "/">> \o Text(input, v.transport) \o Text(input, v.host)
    \o (IF v.port = None THEN <<>> ELSE <<":">> \o Text(input, v.port))
    \o FlattenSeq([i \in DOMAIN v.list |-> ParamText(input, v.list[i])])
    \o (IF v.comment[1] = 0 THEN <<>> ELSE <<"(">> \o Text(input, v.comment) \o <<")">>)

Together(input, vias) ==
  LET texts == [i \in DOMAIN vias |-> ViaText(input, vias[i])]
  IN FoldLeft(LAMBDA text, i : text \o (IF i = 1 THEN <<>> ELSE <<",">>) \o texts[i], <<>>,
              [i \in DOMAIN vias |-> i])

(* Folded lines, comments and strings included, a header that is accepted   *)
(* is the sum of the bodies and parameters found in it, blanks, quotes,     *)
(* repeated commas and empty values apart: none is lost, cut short or given *)
(* to another body.  (An address without '[' has no start, a string that no *)
(* quote ends is dropped, and so is a comment that is empty or that another *)
(* one follows.)                                                            *)
Odd(m, text) ==
  \/ \E v \in Range(m.vias) : v.host[1] = 0 \/ \E q \in Range(v.list) : q.value[1] > q.value[2]
  \/ \E i \in DOMAIN text : text[i] = "=" /\ (i = Len(text) \/ text[i + 1] \in {";", ","})
  \/ \E i \in 2 .. Len(text) : text[i] = "," /\ text[i - 1] = ","
  \/ \E i \in DOMAIN text : text[i] = "(" /\ i > 1 /\ text[i - 1] \in {"(", ")"}
  \/ \E i \in 2 .. Len(text) : text[i] = ")" /\ text[i - 1] = "("

Lossless(m, input) ==
  LET text == Squeeze(SubSeq(input, 1, m.p - 1))
  IN m.in = "end" /\ ~ Odd(m, text) => text = Squeeze(Together(input, m.vias))

(* A known parameter is told from the generic ones that begin like it, by   *)
(* all its letters and no more.                                             *)
TypesRight(m, input) ==
  \A v \in Range(m.vias) \union {m.vb} : \A q \in Range(v.list) :
    q.type = (IF Text(input, q.name) \in Names THEN Text(input, q.name) ELSE Gen)

(* The header ends with the first line that no blank continues, wherever    *)
(* that line breaks: in a comment or a string the next header is not read   *)
(* as part of this one.  A comma in a string is the exception (Value).      *)
LineEnds(input) ==
  { i \in 1 .. Len(input) - 1 :
      /\ input[i] \in {"CR", "LF"} /\ ~ (input[i] = "CR" /\ input[i + 1] = "LF")
      /\ input[i + 1] # "SP" }

OpenString(m) == m.param.value[1] > m.param.value[2]

EndsAtLine(m, input) ==
  m.in = "end" /\ ~ (OpenString(m) /\ input[m.p] = ",")
               => /\ m.p - 1 \in LineEnds(input)
                  /\ \A i \in LineEnds(input) : m.p - 1 <= i
=============================================================================
