------------------------------- MODULE ToParser -------------------------------
(***************************************************************************)
(* src/core/parser/parse_to.c: a name and an address in < >, or an address *)
(* alone, and parameters; the body of To and, through it, of From, Contact *)
(* like headers and the identities.                                        *)
(*                                                                         *)
(* A character is itself where the code tells it apart and "x" otherwise:  *)
(* SP is a blank or a tab, Q a quote, BS a backslash.  A piece is          *)
(* <<from, to>>: the characters from .. to - 1.                            *)
(***************************************************************************)
EXTENDS Integers, Sequences, SequencesExt

None == <<0, 0>>
NoParam == [type |-> "none", name |-> None, value |-> None]
General == [NoParam EXCEPT !.type = "GENERAL"]

(* in is the function: "to" parse_to, "param" parse_to_param; "end" and     *)
(* "error" are how they end.  mark is end_mark, skip an escape.             *)
Start == [in |-> "to", state |-> "START_TO", saved |-> "START_TO", p |-> 1, skip |-> FALSE,
          mark |-> 0, body |-> None, display |-> None, uri |-> None,
          param |-> NoParam, list |-> <<>>, tag |-> None]

Error(m) == [m EXCEPT !.in = "error"]
Goto(m, st) == [m EXCEPT !.state = st]
Folded(m) == m.state \in {"F_CR", "F_LF", "F_CRLF"}
NewLine(c) == IF c = "LF" THEN "F_LF" ELSE "F_CR"

(* What may be followed by a new line that goes on with the header. *)
Save(m, c, st) == [m EXCEPT !.saved = st, !.state = NewLine(c)]

add_param(m) ==
  [m EXCEPT !.list = Append(@, m.param), !.param = NoParam,
            !.tag = IF m.param.type = "TAG" THEN m.param.value ELSE @]

-----------------------------------------------------------------------------
(* endofheader *)

Accept(m) == [m EXCEPT !.in = "end", !.display = IF @[2] = 0 THEN None ELSE @]

Finish(m) ==
  CASE m.saved = "MAYBE_URI_END" ->
         Accept([m EXCEPT !.uri[2] = m.mark, !.body[2] = m.p])
    [] m.saved = "END" -> Accept([m EXCEPT !.body[2] = m.p])
    [] m.saved = "E_PARA_VALUE" -> Accept(m)
    [] OTHER -> Error(m)

(* Every parameter but the tag may do without a value. *)
EndOfParams(m) ==
  CASE m.param = NoParam \/ m.saved \notin {"S_EQUAL", "S_PARA_VALUE"} -> Finish(m)
    [] m.param.type = "TAG" /\ m.saved \in {"S_EQUAL", "S_PARA_VALUE"} -> Error(m)
    [] OTHER -> Finish([add_param([m EXCEPT !.param.value = None]) EXCEPT !.saved = "E_PARA_VALUE"])

EndOfHeader(m) == IF m.in = "to" THEN Finish(m) ELSE EndOfParams(m)

(* The second end of a line, or whatever follows one. *)
AfterLine(m, c) ==
  IF m.state = "F_CR" /\ c = "LF" THEN Goto(m, "F_CRLF")
  ELSE EndOfHeader(m)

-----------------------------------------------------------------------------
(* parse_to *)

Display == {"DISPLAY_TOKEN", "DISPLAY_TOKEN2", "E_DISPLAY_QUOTED", "MAYBE_URI_END"}

ToBlank(m) ==
  CASE Folded(m) -> Goto(m, m.saved)
    [] m.state = "URI_ENCLOSED" -> [m EXCEPT !.uri[2] = m.p, !.state = "E_URI_ENCLOSED"]
    [] m.state = "URI_OR_TOKEN" -> [m EXCEPT !.state = "MAYBE_URI_END", !.mark = m.p]
    [] m.state = "DISPLAY_TOKEN" -> [m EXCEPT !.state = "DISPLAY_TOKEN2", !.mark = m.p]
    [] OTHER -> m

ToLine(m, c) ==
  CASE m.state = "URI_OR_TOKEN" -> [Save(m, c, "MAYBE_URI_END") EXCEPT !.mark = m.p]
    [] m.state \in Display \union {"END"} -> Save(m, c, m.state)
    [] Folded(m) -> IF c = "CR" THEN EndOfHeader(m) ELSE AfterLine(m, c)
    [] OTHER -> Error(m)

ToNul(m) ==
  CASE m.state \in {"URI_OR_TOKEN", "MAYBE_URI_END"} ->
         Finish([m EXCEPT !.uri[2] = m.p, !.saved = "END"])
    [] m.state = "END" -> Finish([m EXCEPT !.saved = "END"])
    [] OTHER -> Error(m)

Escape(m) == IF m.state = "DISPLAY_QUOTED" THEN [m EXCEPT !.skip = TRUE] ELSE Error(m)

OpenUri(m) ==
  CASE m.state = "START_TO" -> [m EXCEPT !.body[1] = m.p, !.state = "S_URI_ENCLOSED"]
    [] m.state = "DISPLAY_QUOTED" -> m
    [] m.state = "E_DISPLAY_QUOTED" -> Goto(m, "S_URI_ENCLOSED")
    [] m.state \in {"URI_OR_TOKEN", "DISPLAY_TOKEN"} ->
         [m EXCEPT !.mark = m.p, !.display[2] = m.p, !.state = "S_URI_ENCLOSED"]
    [] m.state \in {"DISPLAY_TOKEN2", "MAYBE_URI_END"} ->
         [m EXCEPT !.display[2] = m.mark, !.state = "S_URI_ENCLOSED"]
    [] OTHER -> Error(m)

CloseUri(m) ==
  CASE m.state = "DISPLAY_QUOTED" -> m
    [] m.state = "URI_ENCLOSED" -> [m EXCEPT !.uri[2] = m.p, !.state = "END"]
    [] m.state = "E_URI_ENCLOSED" -> Goto(m, "END")
    [] OTHER -> Error(m)

ToQuote(m) ==
  CASE m.state = "START_TO" ->
         [m EXCEPT !.body[1] = m.p, !.display[1] = m.p, !.state = "DISPLAY_QUOTED"]
    [] m.state = "DISPLAY_QUOTED" ->
         [m EXCEPT !.state = "E_DISPLAY_QUOTED", !.display[2] = m.p + 1]
    [] OTHER -> Error(m)

(* parse_to_param begins with the ';' again. *)
ToSemicolon(m) ==
  LET params(n) == [n EXCEPT !.in = "param", !.state = "S_PARA_NAME", !.saved = "E_PARA_VALUE",
                             !.param = General, !.body[2] = n.p]
  IN CASE m.state \in {"DISPLAY_QUOTED", "DISPLAY_TOKEN", "URI_ENCLOSED"} -> m
       [] m.state = "URI_OR_TOKEN" -> params([m EXCEPT !.mark = m.p, !.uri[2] = m.p])
       [] m.state = "MAYBE_URI_END" -> params([m EXCEPT !.uri[2] = m.mark])
       [] m.state = "END" -> params(m)
       [] OTHER -> Error(m)

ToOther(m) ==
  CASE m.state = "START_TO" -> [m EXCEPT !.uri[1] = m.p, !.body[1] = m.p, !.display[1] = m.p,
                                         !.state = "URI_OR_TOKEN"]
    [] m.state = "S_URI_ENCLOSED" -> [m EXCEPT !.uri[1] = m.p, !.state = "URI_ENCLOSED"]
    [] m.state \in {"MAYBE_URI_END", "DISPLAY_TOKEN2"} -> Goto(m, "DISPLAY_TOKEN")
    [] m.state \in {"DISPLAY_QUOTED", "DISPLAY_TOKEN", "URI_ENCLOSED", "URI_OR_TOKEN"} -> m
    [] OTHER -> Error(m)

To(m, c) ==
  CASE c = "SP" -> ToBlank(m)
    [] c \in {"CR", "LF"} -> ToLine(m, c)
    [] c = "NUL" -> ToNul(m)
    [] c = "BS" -> Escape(m)
    [] c \notin {"SP", "CR", "LF", "NUL", "BS"} /\ Folded(m) -> Finish(m)
    [] c = "<" /\ ~ Folded(m) -> OpenUri(m)
    [] c = ">" /\ ~ Folded(m) -> CloseUri(m)
    [] c = "Q" /\ ~ Folded(m) -> ToQuote(m)
    [] c = ";" /\ ~ Folded(m) -> ToSemicolon(m)
    [] OTHER -> ToOther(m)

-----------------------------------------------------------------------------
(* parse_to_param *)

Tag == {"TAG1", "TAG2", "TAG3"}    (* so many letters of "tag" *)

Named(m) == [m EXCEPT !.param.name[2] = m.p,
                      !.param.type = IF m.state = "TAG3" THEN "TAG" ELSE @]
Valued(m) == add_param([m EXCEPT !.param.value[2] = m.p])

ParamBlank(m) ==
  CASE m.state \in Tag \union {"PARA_NAME"} -> Goto(Named(m), "S_EQUAL")
    [] m.state = "PARA_VALUE_TOKEN" -> Goto(Valued(m), "E_PARA_VALUE")
    [] Folded(m) -> Goto(m, m.saved)
    [] OTHER -> m

ParamLine(m, c) ==
  CASE m.state \in {"S_PARA_NAME", "S_EQUAL", "S_PARA_VALUE", "E_PARA_VALUE"} -> Save(m, c, m.state)
    [] m.state \in Tag \union {"PARA_NAME"} -> Save(Named(m), c, "S_EQUAL")
    [] m.state = "PARA_VALUE_TOKEN" -> Save(Valued(m), c, "E_PARA_VALUE")
    [] Folded(m) -> IF c = "CR" THEN EndOfParams(m) ELSE AfterLine(m, c)
    [] OTHER -> Error(m)

(* A parameter ends without a value, or with the one it has. *)
EndOfParam(m) ==
  CASE m.state = "PARA_NAME" ->
         IF m.param.type = "TAG" THEN Error(Named(m))
         ELSE Valued([Named(m) EXCEPT !.param.value[1] = m.p])
    [] m.state \in {"S_EQUAL", "S_PARA_VALUE"} ->
         IF m.param.type = "TAG" THEN Error(m) ELSE Valued([m EXCEPT !.param.value[1] = m.p])
    [] m.state = "PARA_VALUE_TOKEN" -> Valued(m)
    [] m.state = "E_PARA_VALUE" -> m
    [] OTHER -> Error(m)

ParamNul(m) == LET n == EndOfParam(m)
               IN IF n.in = "error" THEN n ELSE Finish([n EXCEPT !.saved = "E_PARA_VALUE"])

ParamSemicolon(m) ==
  IF m.state = "PARA_VALUE_QUOTED" THEN m
  ELSE LET n == EndOfParam(m)
       IN IF n.in = "error" THEN n ELSE [n EXCEPT !.param = General, !.state = "S_PARA_NAME"]

ParamQuote(m) ==
  CASE m.state = "S_PARA_VALUE" ->
         [m EXCEPT !.param.value[1] = m.p + 1, !.state = "PARA_VALUE_QUOTED"]
    [] m.state = "PARA_VALUE_QUOTED" -> Goto(Valued(m), "E_PARA_VALUE")
    [] OTHER -> Error(m)

ParamEquals(m) ==
  CASE m.state = "PARA_VALUE_QUOTED" -> m
    [] m.state \in Tag \union {"PARA_NAME"} -> Goto(Named(m), "S_PARA_VALUE")
    [] m.state = "S_EQUAL" -> Goto(m, "S_PARA_VALUE")
    [] OTHER -> Error(m)

(* A name that only begins with "tag" is one. *)
Spelling_bug(m, c) ==
  CASE m.state = "TAG1" /\ c = "a" -> "TAG2"
    [] m.state = "TAG2" /\ c = "g" -> "TAG3"
    [] m.state = "TAG3" -> "TAG3"
    [] OTHER -> "PARA_NAME"

Spelling(m, c) ==
  CASE m.state = "TAG1" /\ c = "a" -> "TAG2"
    [] m.state = "TAG2" /\ c = "g" -> "TAG3"
    [] OTHER -> "PARA_NAME"

ParamOther(m, c) ==
  CASE m.state \in {"PARA_VALUE_QUOTED", "PARA_VALUE_TOKEN", "PARA_NAME"} -> m
    [] m.state = "S_PARA_NAME" ->
         [m EXCEPT !.param.name[1] = m.p, !.state = IF c = "t" THEN "TAG1" ELSE "PARA_NAME"]
    [] m.state = "S_PARA_VALUE" -> [m EXCEPT !.param.value[1] = m.p, !.state = "PARA_VALUE_TOKEN"]
    [] m.state \in Tag -> Goto(m, Spelling(m, c))
    [] OTHER -> Error(m)

(* A backslash is an error in a quoted value too: its switch has no break. *)
Parameter(m, c) ==
  CASE c = "SP" -> ParamBlank(m)
    [] c \in {"CR", "LF"} -> ParamLine(m, c)
    [] c = "NUL" -> ParamNul(m)
    [] c = "BS" -> Error(m)
    [] c \notin {"SP", "CR", "LF", "NUL", "BS"} /\ Folded(m) -> EndOfParams(m)
    [] c = "Q" /\ ~ Folded(m) -> ParamQuote(m)
    [] c = ";" /\ ~ Folded(m) -> ParamSemicolon(m)
    [] c = "=" /\ ~ Folded(m) -> ParamEquals(m)
    [] OTHER -> ParamOther(m, c)

-----------------------------------------------------------------------------
Failed(m) == m.in \in {"error", "end"}

Char(m, c) == CASE m.skip -> [m EXCEPT !.skip = FALSE]
                [] ~ m.skip /\ m.in = "to" -> To(m, c)
                [] OTHER -> Parameter(m, c)

Step(m, c) == LET n == Char(m, c) IN IF Failed(n) THEN n ELSE [n EXCEPT !.p = m.p + 1]

(* The text ends here: the loop does, in whatever state it is. *)
parse_to(m) == IF Failed(m) THEN m ELSE EndOfHeader(m)

-----------------------------------------------------------------------------
(* Properties *)

Text(input, piece) == SubSeq(input, piece[1], piece[2] - 1)
Squeeze(text) == SelectSeq(text, LAMBDA c : c \notin {"SP", "CR", "LF", "Q"})

ParamText(input, q) ==
  <<";">> \o Text(input, q.name)
    \o (IF q.value[1] < q.value[2] THEN <<"=">> \o Text(input, q.value) ELSE <<>>)

ToText(input, m) ==
  Text(input, m.display)
    \o (IF \E i \in 1 .. m.uri[1] - 1 : input[i] = "<" /\ i >= m.display[2] /\ i >= m.body[1]
        THEN <<"<">> \o Text(input, m.uri) \o <<">">> ELSE Text(input, m.uri))
    \o FlattenSeq([i \in DOMAIN m.list |-> ParamText(input, m.list[i])])

(* What is accepted and ended by a line is the name, the address and the    *)
(* parameters found, blanks, quotes and "=" without a value apart.          *)
Odd(text) == \E i \in DOMAIN text : text[i] = "=" /\ (i = Len(text) \/ text[i + 1] = ";")

Lossless(m, input) ==
  LET text == Squeeze(SubSeq(input, 1, m.p - 1))
  IN m.in = "end" /\ ~ Odd(text) => text = Squeeze(ToText(input, m))

(* The tag is the value of the last parameter that is spelt tag. *)
TagRight(m, input) ==
  LET tags == SelectSeq(m.list, LAMBDA q : Text(input, q.name) = <<"t", "a", "g">>)
  IN m.in = "end" => m.tag = IF tags = <<>> THEN None ELSE Last(tags).value

(* A header ends before the first line that does not go on with it. *)
EndsAtLine(m, input) ==
  m.in = "end" /\ Last(input) # "NUL" =>
    /\ m.p = Len(input) /\ input[m.p] # "SP"
    /\ input[m.p - 1] \in {"CR", "LF"}
    /\ \A i \in m.body[1] .. m.p - 2 :
         input[i] \in {"CR", "LF"} =>
           \/ input[i + 1] = "SP"
           \/ input[i] = "CR" /\ input[i + 1] = "LF"
=============================================================================
