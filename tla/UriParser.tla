------------------------------- MODULE UriParser -------------------------------
(***************************************************************************)
(* src/core/parser/parse_uri.c: parse_uri, one pass over what follows the  *)
(* scheme.  Until an '@' or the end is met it does not know whether it     *)
(* reads the user or the host, and it takes back what it had decided when  *)
(* it was wrong (still_at_user).                                           *)
(*                                                                         *)
(* A character is itself where the code tells it apart and "x" otherwise;  *)
(* "5" is any digit.  The chains of states that spell a name are kept as   *)
(* the letters w read so far; a name has the two letters that tell it from *)
(* the others: tr(ansport), tl (ttl), us(er), me(thod), ma(ddr), lr, r2,   *)
(* and the values ud(p), tc(p), tl(s), sc(tp).  "P" is the value phone.    *)
(* A piece of the URI is <<from, to>>: the characters from .. to - 1.      *)
(***************************************************************************)
EXTENDS Integers, Sequences, SequencesExt

Names == {<<"t", "r">>, <<"t", "l">>, <<"u", "s">>, <<"m", "e">>, <<"m", "a">>,
          <<"l", "r">>, <<"r", "2">>}
Flags == {<<"l", "r">>, <<"r", "2">>}       (* need no value *)
Maddr == <<"m", "a">>
Transports == {<<"u", "d">>, <<"t", "c">>, <<"t", "l">>, <<"s", "c">>}

None == <<0, 0>>

NoUri == [user |-> None, passwd |-> None, host |-> None, port |-> None, port_no |-> 0,
          params |-> None, headers |-> None, proto |-> <<>>, type |-> "SIP",
          name |-> [n \in Names |-> None], val |-> [n \in Names |-> None]]

Start == [state |-> "URI_INIT", p |-> 1, s |-> 1, b |-> 0, v |-> 0, pass |-> 0,
          found_user |-> FALSE, error_headers |-> FALSE, port_no |-> 0, w |-> <<>>,
          param |-> <<>>, uri |-> NoUri]

-----------------------------------------------------------------------------
(* Steps shared by several states *)

Error(m) == [m EXCEPT !.state = "ERROR"]
Goto(m, st) == [m EXCEPT !.state = st]
Skip(m, st) == [m EXCEPT !.state = st, !.s = m.p + 1]
Here(m) == <<m.s, m.p>>

(* A password read so far stays in the user as well. *)
still_at_user_bug(m) ==
  LET from == m.uri.host[1]
      pass == IF m.pass > 0 THEN <<m.pass + 1, m.p>> ELSE None
  IN IF m.found_user THEN Error(m)
     ELSE [Skip(m, "URI_HOST") EXCEPT !.found_user = TRUE, !.error_headers = FALSE,
             !.uri = [NoUri EXCEPT !.user = <<from, m.p>>, !.passwd = pass]]

(* Everything but the user and the password is forgotten; port_no is not. *)
still_at_user(m) ==
  LET from == m.uri.host[1]
      user == IF m.pass > 0 THEN <<from, m.pass>> ELSE <<from, m.p>>
      pass == IF m.pass > 0 THEN <<m.pass + 1, m.p>> ELSE None
  IN IF m.found_user THEN Error(m)
     ELSE [Skip(m, "URI_HOST") EXCEPT !.found_user = TRUE, !.error_headers = FALSE,
             !.uri = [NoUri EXCEPT !.user = user, !.passwd = pass]]

Host(m)   == [m EXCEPT !.uri.host = Here(m)]
Port(m)   == [m EXCEPT !.uri.port = Here(m), !.uri.port_no = m.port_no % 65536]
Params(m) == [m EXCEPT !.uri.params = Here(m)]

(* What was read as user and password is the host and the port. *)
UserIsHost(m) ==
  [Port(m) EXCEPT !.uri.host = m.uri.user, !.uri.user = None, !.found_user = TRUE]

(* A second '@' is part of the host. *)
check_host_end_bug(m, c) ==
  CASE c = ":" -> Skip(Host(m), "URI_PORT")
    [] c = ";" -> Skip(Host(m), "URI_PARAM")
    [] c = "?" -> Skip(Host(m), "URI_HEADERS")
    [] c \in {"&", "@"} -> m

check_host_end(m, c) ==
  CASE c = ":" -> Skip(Host(m), "URI_PORT")
    [] c = ";" -> Skip(Host(m), "URI_PARAM")
    [] c = "?" -> Skip(Host(m), "URI_HEADERS")
    [] c \in {"&", "@"} -> Error(m)

(* A ';' or '?' cannot follow a password: there is no user.                 *)
NoPassword(m) == IF m.pass > 0 THEN [m EXCEPT !.found_user = TRUE, !.pass = 0] ELSE m

semicolon_case(m) == Goto(NoPassword(m), "URI_PARAM")
question_case(m)  == Skip(NoPassword(Params(m)), "URI_HEADERS")

Colon(m) ==
  IF m.found_user THEN m
  ELSE IF m.pass > 0 THEN NoPassword(m) ELSE [m EXCEPT !.pass = m.p]
colon_case(m) == Goto(Colon(m), "URI_PARAM_P")

Common == {"@", ";", "?", ":"}
param_common_cases(m, c) ==
  CASE c = "@" -> still_at_user(m)
    [] c = ";" -> semicolon_case(m)
    [] c = "?" -> question_case(m)
    [] c = ":" -> colon_case(m)

(* Only the value is set. *)
param_set_bug(m) == [m EXCEPT !.uri.val[m.param] = <<m.v, m.p>>]

param_set(m) ==
  [m EXCEPT !.uri.name[m.param] = <<m.b, m.p>>, !.uri.val[m.param] = <<m.v, m.p>>]

value_common_cases(m, c) ==
  CASE c = "@" -> still_at_user(m)
    [] c = ";" -> param_set(semicolon_case(m))
    [] c = "?" -> LET q == param_set(m) IN question_case(q)
    [] c = ":" -> Goto(colon_case(m), "URI_VAL_P")

Spells(w, words) == \E n \in words : IsPrefix(w, n)

-----------------------------------------------------------------------------
(* The states *)

InUser(m, c) ==
  CASE m.state = "URI_INIT" ->
         CASE c = "[" -> [m EXCEPT !.state = "URI_HOST6_P", !.s = m.p]
           [] c \in {"]", ":", "@"} -> Error(m)
           [] OTHER -> Goto(m, "URI_USER")
    [] m.state = "URI_USER" ->
         LET user == [m EXCEPT !.uri.user = Here(m)]
         IN CASE c = "@" -> [Skip(user, "URI_HOST") EXCEPT !.found_user = TRUE]
              [] c = ":" -> Skip(user, "URI_PASSWORD")
              [] c = ";" -> Skip(Host(m), "URI_PARAM")
              [] c = "?" -> Skip(Host(m), "URI_HEADERS")
              [] c \in {"[", "]"} -> Error(m)
              [] OTHER -> m

InPassword(m, c) ==
  LET passwd == [Skip(m, "URI_HOST") EXCEPT !.uri.passwd = Here(m), !.found_user = TRUE]
  IN CASE m.state = "URI_PASSWORD" ->
            CASE c = "@" -> [passwd EXCEPT !.port_no = 0]
              [] c = ";" -> Skip(UserIsHost(m), "URI_PARAM")
              [] c = "?" -> Skip(UserIsHost(m), "URI_HEADERS")
              [] c = "5" -> [m EXCEPT !.port_no = @ * 10 + 5]
              [] c \in {"[", "]", ":"} -> Error(m)
              [] OTHER -> [m EXCEPT !.port_no = 0, !.state = "URI_PASSWORD_ALPHA"]
       [] m.state = "URI_PASSWORD_ALPHA" ->
            CASE c = "@" -> passwd
              [] c \in {";", "?", "[", "]", ":"} -> Error(m)
              [] OTHER -> m

InHost(m, c) ==
  CASE m.state = "URI_HOST" ->
         CASE c = "[" -> Goto(m, "URI_HOST6_P")
           [] c \in {":", ";", "?", "&", "@"} -> Error(m)
           [] OTHER -> Goto(m, "URI_HOST_P")
    [] m.state = "URI_HOST_P" ->
         IF c \in Common \union {"&"} THEN check_host_end(m, c) ELSE m
    [] m.state = "URI_HOST6_END" ->
         IF c \in Common \union {"&"} THEN check_host_end(m, c) ELSE Error(m)
    [] m.state = "URI_HOST6_P" ->
         CASE c = "]" -> Goto(m, "URI_HOST6_END")
           [] c \in {"[", "&", "@", ";", "?"} -> Error(m)
           [] OTHER -> m
    [] m.state = "URI_PORT" ->
         CASE c = ";" -> Skip(Port(m), "URI_PARAM")
           [] c = "?" -> Skip(Port(m), "URI_HEADERS")
           [] c = "5" -> [m EXCEPT !.port_no = @ * 10 + 5]
           [] OTHER -> Error(m)

(* The first letter of a parameter.  The case of 'r' has no break and goes  *)
(* on into default: r2 is never recognised, though the comment at 582-583   *)
(* lists it among the supported parameters.                                 *)
FirstLetter(m, c) ==
  CASE c \in Common -> param_common_cases(m, c)
    [] c \in {"t", "u", "m", "l"} -> [m EXCEPT !.b = m.p, !.state = "NAME", !.w = <<c>>]
    [] c = "r" -> [m EXCEPT !.b = m.p, !.state = "URI_PARAM_P"]
    [] OTHER -> Goto(m, "URI_PARAM_P")

(* param_switch, param_switch1 and param_switch_big; PLR_R_FIN, PR2_2_FIN.  *)
InName(m, c) ==
  LET flag == [m EXCEPT !.uri.name[m.w] = <<m.b, m.p>>]
  IN CASE m.w \in Flags /\ c = ";" -> semicolon_case(flag)
       [] m.w \in Flags /\ c = "?" -> question_case(flag)
       [] m.w \notin Flags /\ c \in {";", "?"} -> param_common_cases(m, c)
       [] c \in {"@", ":"} -> param_common_cases(m, c)
       [] c = "=" /\ m.w \in Names -> [m EXCEPT !.state = "EQ", !.param = m.w]
       [] c # "=" /\ c \notin Common /\ Spells(Append(m.w, c), Names) -> [m EXCEPT !.w = Append(@, c)]
       [] OTHER -> Goto(m, "URI_PARAM_P")

(* After the '='; the value of transport is spelled too. *)
AtValue(m, c) ==
  CASE c \in Common -> param_common_cases(m, c)
    [] c \notin Common /\ m.param = <<"t", "r">> /\ c \in {"u", "t", "s"} ->
         [m EXCEPT !.v = m.p, !.state = "VALUE", !.w = <<c>>]
    [] OTHER -> [m EXCEPT !.v = m.p, !.state = "URI_VAL_P"]

(* transport_fin: the whole value has been read.  The ':' goes on into      *)
(* default.                                                                 *)
Proto(m) == IF m.w \in Transports THEN [m EXCEPT !.uri.proto = m.w] ELSE m

InValue(m, c) ==
  CASE c \in {";", "?"} -> value_common_cases(Proto(m), c)
    [] c \in {"@", ":"} -> value_common_cases(m, c)
    [] c \notin Common /\ Spells(Append(m.w, c), Transports) -> [m EXCEPT !.w = Append(@, c)]
    [] OTHER -> Goto(m, "URI_VAL_P")

InHeaders(m, c) ==
  CASE c = "@" -> still_at_user(m)
    [] c = ";" -> IF m.found_user \/ m.pass > 0 THEN Error(m)
                  ELSE [m EXCEPT !.error_headers = TRUE]
    [] c = ":" -> Colon(m)
    [] c = "?" -> NoPassword(m)
    [] OTHER -> m

Char(m, c) ==
  CASE m.state \in {"URI_INIT", "URI_USER"} -> InUser(m, c)
    [] m.state \in {"URI_PASSWORD", "URI_PASSWORD_ALPHA"} -> InPassword(m, c)
    [] m.state \in {"URI_HOST", "URI_HOST_P", "URI_HOST6_P", "URI_HOST6_END", "URI_PORT"} -> InHost(m, c)
    [] m.state = "URI_PARAM" -> FirstLetter(m, c)
    [] m.state = "URI_PARAM_P" -> IF c \in Common THEN param_common_cases(m, c) ELSE m
    [] m.state = "NAME"  -> InName(m, c)
    [] m.state = "EQ"    -> AtValue(m, c)
    [] m.state = "VALUE" -> InValue(m, c)
    [] m.state = "URI_VAL_P" -> IF c \in Common THEN value_common_cases(m, c) ELSE m
    [] m.state = "URI_HEADERS" -> InHeaders(m, c)

Failed(m) == m.state = "ERROR"
Step(m, c) == LET n == Char(m, c) IN [n EXCEPT !.p = m.p + 1]

-----------------------------------------------------------------------------
(* The end of the URI *)

(* The states of maddr have no case and end in default. *)
EndState(m) ==
  CASE m.state = "URI_INIT" -> Error(m)
    [] m.state = "URI_USER" -> IF m.found_user THEN Error(m) ELSE Host(m)
    [] m.state = "URI_PASSWORD" ->
         IF m.found_user THEN Error(m)
         ELSE [Port(m) EXCEPT !.uri.host = m.uri.user, !.uri.user = None]
    [] m.state \in {"URI_PASSWORD_ALPHA", "URI_HOST", "URI_HOST6_P"} -> Error(m)
    [] m.state \in {"URI_HOST_P", "URI_HOST6_END"} -> Host(m)
    [] m.state = "URI_PORT" -> Port(m)
    [] m.state \in {"URI_PARAM", "URI_PARAM_P"} -> Params(m)
    [] m.state = "NAME" ->
         IF m.w = Maddr THEN Error(m)
         ELSE IF m.w \in Flags THEN [Params(m) EXCEPT !.uri.name[m.w] = <<m.b, m.p>>]
         ELSE Params(m)
    [] m.state = "EQ" ->
         IF m.param = Maddr THEN Error(m)
         ELSE IF m.param \in Flags THEN [Params(m) EXCEPT !.uri.name[m.param] = <<m.b, m.p>>]
         ELSE Params(m)
    [] m.state = "URI_VAL_P" -> param_set(Params(m))
    [] m.state = "VALUE" -> Proto(param_set(Params(m)))
    [] m.state = "URI_HEADERS" ->
         IF m.error_headers THEN Error(m) ELSE [m EXCEPT !.uri.headers = Here(m)]
    [] m.state = "ERROR" -> m

Text(input, piece) == SubSeq(input, piece[1], piece[2] - 1)

(* user=phone: the URI is a tel URI, the parameters are those in the user,  *)
(* if it has any.                                                           *)
EndType(m, input) ==
  LET user == Text(input, m.uri.user)
      at   == SelectInSeq(user, LAMBDA c : c = ";")
      cut  == m.uri.user[1] + at - 1
  IN IF Failed(m) \/ Text(input, m.uri.val[<<"u", "s">>]) # <<"P">> THEN m
     ELSE IF at = 0 THEN [m EXCEPT !.uri.type = "TEL"]
     ELSE [m EXCEPT !.uri.type = "TEL", !.uri.params = <<cut + 1, m.uri.user[2]>>,
                    !.uri.user[2] = cut]

End(m, input) == EndType(EndState(m), input)

-----------------------------------------------------------------------------
(* Properties *)

Has(piece) == piece # None
Before(input, c, piece) == IF Has(piece) THEN <<c>> \o Text(input, piece) ELSE <<>>

(* However often it changed its mind about what is the user, a URI that is  *)
(* accepted is the sum of its pieces: none is lost, cut short or read twice *)
(* (a tel URI takes its parameters from the user and drops the others).     *)
Lossless(m, input) ==
  LET e == End(m, input)
      u == e.uri
  IN ~ Failed(e) /\ u.type = "SIP" =>
       input = (IF Has(u.user)
                THEN Append(Text(input, u.user) \o Before(input, ":", u.passwd), "@")
                ELSE <<>>)
               \o Text(input, u.host) \o Before(input, ":", u.port)
               \o Before(input, ";", u.params) \o Before(input, "?", u.headers)

(* No user or host holds a character that ends it, unless the first of the  *)
(* URI, which is never looked at, or a user that began as an address.       *)
Pure(m, input) ==
  LET u == EndState(m).uri
      host == Text(input, u.host)
  IN ~ Failed(EndState(m)) =>
       /\ \A i \in 2 .. Len(host) : host[i] \in {";", "?", "@", "&"} => host[1] \in {"[", ";", "?", "&"}
       /\ u.port_no = FoldLeft(LAMBDA n, d : n * 10 + 5, 0, Text(input, u.port))
            \/ (u.user[1] = 1 /\ input[1] = "[")

(* The parameters, read afresh: params cut at every ';'. *)
Cuts(text) == {0} \union { i \in DOMAIN text : text[i] = ";" } \union {Len(text) + 1}
ParamSet(text) ==
  { SubSeq(text, i + 1, j - 1) : <<i, j>> \in
      { q \in Cuts(text) \X Cuts(text) : q[1] < q[2] /\ \A k \in Cuts(text) : k <= q[1] \/ k >= q[2] } }

(* A supported parameter is found wherever it stands among the others and   *)
(* whatever it begins like: its name is set if and only if params has it    *)
(* with a value or, for a flag, without.  A value that is empty or begins   *)
(* with ':' may be ignored; r2 is the exception (FirstLetter).              *)
ParamsFound(m, input) ==
  LET e == EndState(m)
      params == ParamSet(Text(input, e.uri.params))
      valued(n) == \E q \in params : Len(q) > Len(n) + 1 /\ IsPrefix(Append(n, "="), q)
      open(n)   == \E q \in params : q = Append(n, "=") \/ IsPrefix(n \o <<"=", ":">>, q)
  IN ~ Failed(e) =>
       \A n \in Names \ {<<"r", "2">>} :
         open(n) \/ ( Has(e.uri.name[n]) <=> valued(n) \/ (n \in Flags /\ n \in params) )

=============================================================================
