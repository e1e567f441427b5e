------------------------------ MODULE ParamList ------------------------------
(***************************************************************************)
(* src/core/parser/parse_param.c: ";name=body" lists, with trim.h, and     *)
(* parse_nameaddr.c: "name <uri>".                                         *)
(*                                                                         *)
(* A text is a sequence of characters, SP a blank or a tab, Q a quote, BS  *)
(* a backslash, and of whole names the code knows ("q", "expires" ..).  A  *)
(* str is [s, len]: len characters from s on.  A function that moves its   *)
(* str gives it back.  Behind the text is the end of the line and the next *)
(* header, which a length that is wrong gets to read.                      *)
(***************************************************************************)
EXTENDS Integers, Sequences, SequencesExt, FiniteSetsExt

Str(s, len) == [s |-> s, len |-> len]
NoStr == Str(0, 0)

At(text, i) ==
  CASE i \in DOMAIN text -> text[i]
    [] i = Len(text) + 1 -> "CR"
    [] i = Len(text) + 2 -> "LF"
    [] OTHER -> "x"

Places(str) == str.s .. str.s + str.len - 1
End(str) == str.s + str.len
Move(str, n) == Str(str.s + n, str.len - n)

(* The first place of str that holds one of set, or its end. *)
FirstIn(text, str, set) == Min({ i \in Places(str) : At(text, i) \in set } \union {End(str)})

White == {"SP", "CR", "LF"}
trim_leading(text, str) ==
  LET to == Min({ i \in Places(str) : At(text, i) \notin White } \union {End(str)})
  IN Move(str, to - str.s)
trim_trailing(text, str) ==
  LET last == Max({ i \in Places(str) : At(text, i) \notin White } \union {str.s - 1})
  IN Str(str.s, last + 1 - str.s)
trim(text, str) == trim_trailing(text, trim_leading(text, str))

-----------------------------------------------------------------------------
(* The type of a parameter, by its whole name; P_TTL compares the third of  *)
(* two letters, and no name has that type.                                  *)
TypesOf ==
  [ANY |-> {}, CONTACT |-> {"q", "expires", "methods", "received"},
   URI |-> {"transport", "lr", "r2", "maddr", "dstip", "dstport"}]

TypeOf(text, name, class) ==
  IF name.len = 1 /\ At(text, name.s) \in TypesOf[class] THEN At(text, name.s) ELSE "other"

(* hooks: the parameter of each type, as its number in the list. *)
NoHooks(class) == [t \in TypesOf[class] |-> 0]
Hook(hooks, type, n) == IF type \in DOMAIN hooks THEN [hooks EXCEPT ![type] = n] ELSE hooks

Param(type, name, body, len) == [type |-> type, name |-> name, body |-> body, len |-> len]

parse_param_name(text, str) == Str(str.s, FirstIn(text, str, White \union {";", ",", "="}) - str.s)

(* A body and what is left of str; a quoted one has no escapes. *)
NoBody == [body |-> NoStr, rest |-> NoStr]
parse_quoted_param(text, str) ==
  LET inside == Move(str, 1)
      quote == FirstIn(text, inside, {"Q"})
  IN IF str.len < 2 \/ quote = End(inside) THEN NoBody
     ELSE [body |-> Str(inside.s, quote - inside.s), rest |-> Move(str, quote + 1 - str.s)]

parse_token_param(text, str) ==
  LET n == FirstIn(text, str, White \union {",", ";"}) - str.s
  IN IF n = 0 THEN NoBody ELSE [body |-> Str(str.s, n), rest |-> Move(str, n)]

parse_param_body(text, str) ==
  IF At(text, str.s) = "Q" THEN parse_quoted_param(text, str) ELSE parse_token_param(text, str)

-----------------------------------------------------------------------------
(* parse_params: the list, the hooks and what is left of str.  An error     *)
(* frees the list and leaves the hooks.                                     *)

Failure(hooks) == [ok |-> FALSE, list |-> <<>>, hooks |-> hooks, rest |-> NoStr]
Success(list, hooks, rest) == [ok |-> TRUE, list |-> list, hooks |-> hooks, rest |-> rest]

(* The list goes on with the parameter at str. *)
RECURSIVE Params(_, _, _, _, _)

(* Behind a parameter: the end, or what ends the list, or ";". *)
Behind(text, str, class, list, hooks) ==
  LET c == At(text, str.s)
      next == trim_leading(text, Move(str, 1))
  IN CASE str.len = 0 \/ c \in {",", ">"} -> Success(list, hooks, str)
       [] str.len # 0 /\ c = ";" /\ next.len # 0 -> Params(text, next, class, list, hooks)
       [] OTHER -> Failure(hooks)

Params(text, str, class, list, hooks) ==
  LET name == parse_param_name(text, str)
      Valued(type, value, known) ==
        IF value = NoBody THEN Failure(known)
        ELSE Behind(text, trim_leading(text, value.rest), class,
                    Append(list, Param(type, name, value.body, value.rest.s - name.s)), known)
      After(type, after, known) ==
        LET equals == trim_leading(text, Move(after, 1))
        IN CASE after.len = 0 \/ At(text, after.s) # "=" ->
                  Behind(text, after, class, Append(list, Param(type, name, NoStr, name.len)), known)
             [] after.len # 0 /\ At(text, after.s) = "=" /\ equals.len = 0 -> Failure(known)
             [] OTHER -> Valued(type, parse_param_body(text, equals), known)
      Typed(type) ==
        After(type, trim_leading(text, Move(str, name.len)), Hook(hooks, type, Len(list) + 1))
  IN Typed(TypeOf(text, name, class))

parse_params(text, str, class) ==
  IF str.s = 0 THEN Success(<<>>, NoHooks(class), str)
  ELSE Params(text, str, class, <<>>, NoHooks(class))

-----------------------------------------------------------------------------
(* parser_f.h *)

(* Where c is, outside quotes, or 0; a quote behind a backslash ends none. *)
find_not_quoted(text, str, c) ==
  LET Quotes(q, i) == CASE At(text, i) # "Q" -> q
                        [] At(text, i) = "Q" /\ ~ q -> TRUE
                        [] OTHER -> At(text, i - 1) = "BS"
      quoted(i) == FoldLeft(Quotes, FALSE, [k \in 1 .. i - str.s |-> str.s + k - 1])
      found == { i \in Places(str) : At(text, i) = c /\ ~ quoted(i) }
  IN IF found = {} THEN 0 ELSE Min(found)

(* parse_nameaddr.c: name and uri, and the length with the ">". *)
NoAddr == [name |-> NoStr, uri |-> NoStr, len |-> 0]
parse_nameaddr(text, str) ==
  LET open == find_not_quoted(text, str, "<")
      rest == Move(str, open + 1 - str.s)
      close == find_not_quoted(text, rest, ">")
  IN IF open = 0 THEN NoAddr
     ELSE IF close = 0 THEN NoAddr
     ELSE [name |-> Str(str.s, open - str.s), uri |-> Str(open + 1, close - open - 1),
           len |-> close - str.s + 1]

-----------------------------------------------------------------------------
(* What a list says, for the properties of the modules that use it. *)
Chars(text, str) == [k \in 1 .. str.len |-> At(text, str.s + k - 1)]

ParamText(text, q) ==
  <<";">> \o Chars(text, q.name)
    \o (IF q.body = NoStr THEN <<>> ELSE <<"=">> \o Chars(text, q.body))
ListText(text, list) == FlattenSeq([i \in DOMAIN list |-> ParamText(text, list[i])])

(* Each hook leads to the last parameter of its name. *)
HooksRight(text, list, hooks) ==
  \A t \in DOMAIN hooks :
    hooks[t] = Max({0} \union { i \in DOMAIN list : Chars(text, list[i].name) = <<t>> })
=============================================================================
