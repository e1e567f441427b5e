------------------------------- MODULE Contacts -------------------------------
(***************************************************************************)
(* src/core/parser/contact: the body of a Contact header, a "*" or a list  *)
(* of names, addresses and parameters.                                     *)
(***************************************************************************)
EXTENDS ParamList

(* skip_uri: where the address ends, ST1 .. ST6 as in the code. *)
Quoted == [ST1 |-> "ST2", ST2 |-> "ST1", ST3 |-> "ST4", ST4 |-> "ST3", ST5 |-> "ST2", ST6 |-> "ST4"]
Opened == [ST1 |-> "ST3", ST2 |-> "ST2", ST3 |-> "error", ST4 |-> "ST4", ST5 |-> "ST2", ST6 |-> "ST4"]
Closed == [ST1 |-> "error", ST2 |-> "ST2", ST3 |-> "ST1", ST4 |-> "ST4", ST5 |-> "ST2", ST6 |-> "ST4"]
Escaped == [ST1 |-> "ST1", ST2 |-> "ST5", ST3 |-> "ST3", ST4 |-> "ST6", ST5 |-> "ST2", ST6 |-> "ST4"]

(* A comma in < > ends the address. *)
AtEnd_bug(c, st) == c \in {",", ";"} /\ st \in {"ST1", "ST3"}

AtEnd(c, st) == c \in {",", ";"} /\ st = "ST1"

RECURSIVE skip_uri(_, _, _)
skip_uri(text, str, st) ==
  LET c == At(text, str.s)
      next == CASE c = "Q" -> Quoted[st]
                [] c = "<" -> Opened[st]
                [] c = ">" -> Closed[st]
                [] c = "BS" -> Escaped[st]
                [] OTHER -> st
  IN CASE st = "error" -> NoStr
       [] st # "error" /\ str.len = 0 -> IF st = "ST1" THEN str ELSE NoStr
       [] st # "error" /\ str.len # 0 /\ AtEnd(c, st) -> str
       [] OTHER -> skip_uri(text, Move(str, 1), next)

(* skip_name: str at the "<", or at the blank before the address.  The      *)
(* difference that is taken off the length is one of the new s with itself: *)
(* what is left then reaches behind the text.                               *)
RECURSIVE SkipName(_, _, _, _, _)
SkipName(text, str, i, quoted, last_wsp) ==
  LET c == At(text, i)
  IN CASE i = End(str) -> NoStr
       [] i # End(str) /\ quoted ->
            SkipName(text, str, i + 1, ~ (c = "Q" /\ At(text, i - 1) # "BS"), last_wsp)
       [] i # End(str) /\ ~ quoted /\ c = "SP" -> SkipName(text, str, i + 1, FALSE, i)
       [] i # End(str) /\ ~ quoted /\ c = "<" -> Move(str, i - str.s)
       [] i # End(str) /\ ~ quoted /\ c = ":" ->
            IF last_wsp = 0 THEN str ELSE Str(last_wsp, str.len - 1)
       [] OTHER -> SkipName(text, str, i + 1, c = "Q", last_wsp)

skip_name(text, str) == SkipName(text, str, str.s, FALSE, 0)

Bare(text, uri) ==
  trim(text, IF uri.len >= 2 /\ At(text, uri.s) = "<" /\ At(text, End(uri) - 1) = ">"
             THEN Str(uri.s + 1, uri.len - 2) ELSE uri)

Contact(name, uri, params, hooks, len) ==
  [name |-> name, uri |-> uri, params |-> params, hooks |-> hooks, len |-> len]

-----------------------------------------------------------------------------
(* parse_contacts *)

Failed == [ok |-> FALSE, star |-> FALSE, contacts |-> <<>>]
Parsed(contacts) == [ok |-> TRUE, star |-> FALSE, contacts |-> contacts]

RECURSIVE parse_contacts(_, _, _)

(* Whatever ended the parameters is taken for the comma. *)
NextContact(text, str, contacts) ==
  LET next == trim_leading(text, Move(str, 1))
  IN CASE str.len = 0 -> Parsed(contacts)
       [] str.len # 0 /\ next.len = 0 -> Failed
       [] OTHER -> parse_contacts(text, next, contacts)

parse_contacts(text, str, contacts) ==
  LET at == skip_name(text, str)
      behind == skip_uri(text, at, "ST1")
      name == trim_trailing(text, Str(str.s, at.s - str.s))
      uri == Bare(text, trim_trailing(text, Str(at.s, behind.s - at.s)))
      with == trim_leading(text, Move(behind, 1))
      params == parse_params(text, with, "CONTACT")
      c == At(text, behind.s)
  IN CASE at = NoStr -> Failed
       [] at # NoStr /\ behind = NoStr -> Failed
       [] at # NoStr /\ behind # NoStr /\ (behind.len = 0 \/ c # ";") ->
            NextContact(text, behind,
                        Append(contacts, Contact(name, uri, <<>>, NoHooks("CONTACT"),
                                                 behind.s - str.s)))
       [] at # NoStr /\ behind # NoStr /\ behind.len # 0 /\ c = ";" /\ with.len # 0 /\ params.ok ->
            NextContact(text, params.rest,
                        Append(contacts, Contact(name, uri, params.list, params.hooks,
                                                 params.rest.s - str.s)))
       [] OTHER -> Failed

(* contact_parser *)
parse_contact(text) ==
  LET str == trim_leading(text, Str(1, Len(text)))
  IN CASE str.len = 0 -> Failed
       [] str.len # 0 /\ At(text, str.s) = "*" ->
            IF str.len = 1 THEN [Parsed(<<>>) EXCEPT !.star = TRUE] ELSE Failed
       [] OTHER -> parse_contacts(text, str, <<>>)

-----------------------------------------------------------------------------
(* Properties *)

Squeeze(text) == SelectSeq(text, LAMBDA c : c \notin {"SP", "CR", "LF", "Q", "<", ">"})

ContactText(text, c) == Chars(text, c.name) \o Chars(text, c.uri) \o ListText(text, c.params)
Together(text, contacts) ==
  FoldLeft(LAMBDA t, i : t \o (IF i = 1 THEN <<>> ELSE <<",">>) \o ContactText(text, contacts[i]),
           <<>>, [i \in DOMAIN contacts |-> i])

(* A name without < > shifts the end; ">" may stand for a comma. *)
Misread(text, contacts) ==
  \E i \in DOMAIN contacts :
    \/ contacts[i].name.len > 0 /\ At(text, End(contacts[i].name)) = "SP"
       /\ "<" \notin { At(text, k) : k \in End(contacts[i].name) .. contacts[i].uri.s }
    \/ contacts[i].params # <<>> /\ At(text, contacts[i].name.s + contacts[i].len) = ">"

(* The contacts of an accepted header are its text, blanks, quotes and      *)
(* < > apart.                                                               *)
Lossless(text) ==
  LET h == parse_contact(text)
  IN h.ok /\ ~ h.star /\ ~ Misread(text, h.contacts) =>
       Squeeze(text) = Squeeze(Together(text, h.contacts))

(* q, expires, methods and received of a contact are its own. *)
OwnHooks(text) ==
  \A i \in DOMAIN parse_contact(text).contacts :
    LET c == parse_contact(text).contacts[i] IN HooksRight(text, c.params, c.hooks)
=============================================================================
