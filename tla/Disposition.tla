------------------------------ MODULE Disposition ------------------------------
(***************************************************************************)
(* src/core/parser/parse_disposition.c: the body of Content-Disposition, a *)
(* type and parameters, one character at a time.                           *)
(*                                                                         *)
(* SP is a blank or a tab, Q a quote, BS a backslash, / one of the marks    *)
(* only a quoted value may hold, x any other character.  A piece is         *)
(* <<from, to>>: the characters from .. to - 1.                             *)
(***************************************************************************)
EXTENDS Integers, Sequences, SequencesExt, FiniteSetsExt

None == <<0, 0>>
Param(p) == [name |-> <<p, 0>>, body |-> None, is_quoted |-> FALSE]

Start == [state |-> "FIND_TYPE", saved |-> "FIND_TYPE", p |-> 1, type |-> None, params |-> <<>>]

Failed(m) == m.state = "error"
Error(m) == [m EXCEPT !.state = "error"]
Goto(m, st) == [m EXCEPT !.state = st]

Folds == {"F_LF", "F_CR", "F_CRLF"}
(* The pieces, and the states behind them. *)
EndOf == [TYPE |-> "END_TYPE", PARAM |-> "END_PARAM", VAL |-> "END_VAL"]
Pieces == DOMAIN EndOf

(* The piece m is in ends here. *)
Close(m) ==
  CASE m.state = "TYPE" -> [m EXCEPT !.type[2] = m.p]
    [] m.state = "PARAM" -> [m EXCEPT !.params[Len(m.params)].name[2] = m.p]
    [] m.state \in {"VAL", "QUOTED_VAL"} -> [m EXCEPT !.params[Len(m.params)].body[2] = m.p]
    [] OTHER -> m

(* A piece begins here. *)
Open(m) ==
  CASE m.state = "FIND_TYPE" -> [m EXCEPT !.type[1] = m.p, !.state = "TYPE"]
    [] m.state = "FIND_PARAM" -> [m EXCEPT !.params = Append(@, Param(m.p)), !.state = "PARAM"]
    [] m.state = "FIND_VAL" -> [m EXCEPT !.params[Len(m.params)].body[1] = m.p, !.state = "VAL"]
    [] m.state = "FIND_QUOTED_VAL" ->
         [m EXCEPT !.params[Len(m.params)].body[1] = m.p, !.state = "QUOTED_VAL"]
    [] OTHER -> m

Quoted == {"FIND_QUOTED_VAL", "QUOTED_VAL", "SKIP_QUOTED_VAL"}
(* What a quoted value, or the escape in one, takes as it is. *)
InQuotes(m) == IF m.state = "FIND_QUOTED_VAL" THEN Open(m) ELSE Goto(m, "QUOTED_VAL")

Blank(m) ==
  CASE m.state \in Quoted -> InQuotes(m)
    [] m.state \in Pieces -> Goto(Close(m), EndOf[m.state])
    [] m.state \in Folds -> Goto(m, m.saved)
    [] OTHER -> m

(* A value's end of line counts as CR. *)
NewLine(m, c) ==
  CASE m.state \in Pieces ->
         [Close(m) EXCEPT !.saved = EndOf[m.state],
                          !.state = IF c = "LF" /\ m.state # "VAL" THEN "F_LF" ELSE "F_CR"]
    [] m.state \in {"FIND_TYPE", "FIND_PARAM"} ->
         [m EXCEPT !.saved = m.state, !.state = IF c = "LF" THEN "F_LF" ELSE "F_CR"]
    [] m.state = "F_CR" /\ c = "LF" -> Goto(m, "F_CRLF")
    [] OTHER -> Error(m)

Semicolon_bug(m) ==
  CASE m.state \in Quoted -> InQuotes(m)
    [] m.state \in Pieces \union {"END_TYPE", "END_VAL"} -> Goto(m, "FIND_PARAM")
    [] OTHER -> Error(m)

(* A name cannot be followed by a blank and then by ";". *)
Semicolon(m) ==
  CASE m.state \in Quoted -> InQuotes(m)
    [] m.state \in Pieces \union {"END_TYPE", "END_VAL"} -> Goto(Close(m), "FIND_PARAM")
    [] OTHER -> Error(m)

Equals(m) ==
  CASE m.state \in Quoted -> InQuotes(m)
    [] m.state \in {"PARAM", "END_PARAM"} -> Goto(Close(m), "FIND_VAL")
    [] OTHER -> Error(m)

(* A quoted value is not empty. *)
Quote(m) ==
  CASE m.state = "SKIP_QUOTED_VAL" -> Goto(m, "QUOTED_VAL")
    [] m.state = "FIND_VAL" -> Goto(m, "FIND_QUOTED_VAL")
    [] m.state = "QUOTED_VAL" ->
         [Close(m) EXCEPT !.params[Len(m.params)].is_quoted = TRUE, !.state = "END_VAL"]
    [] OTHER -> Error(m)

Backslash(m) ==
  CASE m.state = "FIND_QUOTED_VAL" -> Goto(Open(m), "SKIP_QUOTED_VAL")
    [] m.state = "SKIP_QUOTED_VAL" -> Goto(m, "QUOTED_VAL")
    [] m.state = "QUOTED_VAL" -> Goto(m, "SKIP_QUOTED_VAL")
    [] OTHER -> Error(m)

Mark(m) == IF m.state \in Quoted THEN InQuotes(m) ELSE Error(m)

(* Behind the end of a piece, and of a line, other characters are passed    *)
(* over.                                                                    *)
Other(m) == IF m.state = "SKIP_QUOTED_VAL" THEN Goto(m, "QUOTED_VAL") ELSE Open(m)

Char(m, c) ==
  CASE c = "SP" -> Blank(m)
    [] c \in {"LF", "CR"} -> NewLine(m, c)
    [] c = "NUL" -> Error(m)
    [] c = ";" -> Semicolon(m)
    [] c = "=" -> Equals(m)
    [] c = "Q" -> Quote(m)
    [] c = "BS" -> Backslash(m)
    [] c = "/" -> Mark(m)
    [] OTHER -> Other(m)

Step(m, c) == LET n == Char(m, c) IN IF Failed(n) THEN n ELSE [n EXCEPT !.p = @ + 1]

(* The end of the text. *)
Finish(m) ==
  IF m.state \in Pieces \union Range(EndOf) THEN Goto(Close(m), "end") ELSE Error(m)

-----------------------------------------------------------------------------
(* Properties *)

Piece(text, x) == SubSeq(text, x[1], x[2] - 1)
ParamText(text, q) ==
  <<";">> \o Piece(text, q.name)
    \o (IF q.body = None THEN <<>>
        ELSE IF q.is_quoted THEN <<"=", "Q">> \o Piece(text, q.body) \o <<"Q">>
        ELSE <<"=">> \o Piece(text, q.body))
Together(text, m) ==
  Piece(text, m.type) \o FlattenSeq([i \in DOMAIN m.params |-> ParamText(text, m.params[i])])

(* Quotes hold what is i. *)
Inside(m, i) == \E j \in DOMAIN m.params : LET q == m.params[j] IN q.is_quoted /\ q.body[1] <= i /\ i < q.body[2]

(* Where an accepted body stops being read to the letter: behind a blank,   *)
(* a new line or a closing quote the next characters are passed over.       *)
Loose(m, text) ==
  { i \in DOMAIN text : ~ Inside(m, i) /\ text[i] \in {"SP", "LF", "CR"} }
    \union { m.params[j].body[2] + 1 : j \in { k \in DOMAIN m.params : m.params[k].is_quoted } }
    \union { Len(text) + 1 }

(* Up to there, its pieces are the text; all of it when it is not loose.    *)
Lossless(m, text) ==
  LET end == Finish(m)
      upto == Min(Loose(end, text))
      whole == Together(text, end)
  IN end.state = "end" =>
       /\ IsPrefix(SubSeq(text, 1, upto - 1), whole)
       /\ upto = Len(text) + 1 => whole = text

(* There is a parameter for every ";" that is not in quotes. *)
AllParams(m, text) ==
  LET end == Finish(m)
  IN end.state = "end" =>
       Len(end.params) = Len(SelectSeq([i \in DOMAIN text |-> i], LAMBDA i : text[i] = ";" /\ ~ Inside(end, i)))
=============================================================================
