-------------------------------- MODULE Digest --------------------------------
(***************************************************************************)
(* src/core/parser/digest: the credentials in Authorization and            *)
(* Proxy-Authorization.                                                    *)
(*                                                                         *)
(* A text is a sequence of the names and values the code knows, in any     *)
(* case, and of single characters.                                         *)
(***************************************************************************)
EXTENDS ParamList

Fields == {"username", "realm", "nonce", "uri", "response", "cnonce", "opaque", "qop", "nc", "algorithm"}

(* Of a name in text: its type and the place behind it.  The cases of real  *)
(* and nonc have no end: four letters on, the next one is tried.            *)
Typed(type, p) == [type |-> type, p |-> p]

Nonc(text, p) ==
  CASE At(text, p) = "e" -> Typed("nonce", p + 1)
    [] At(text, p) # "e" /\ At(text, p + 4) = "onse" -> Typed("response", p + 5)
    [] OTHER -> Typed("other", p + 4)

TypeAt_bug(text, str) ==
  LET word == At(text, str.s)
  IN CASE str.len > 0 /\ word \in Fields -> Typed(word, str.s + 1)
       [] str.len > 0 /\ word = "real" -> Typed("realm", str.s + 5)
       [] str.len > 0 /\ word = "nonc" -> Nonc(text, str.s + 1)
       [] OTHER -> Typed("other", str.s)

TypeAt(text, str) ==
  LET word == At(text, str.s)
  IN CASE str.len > 0 /\ word \in Fields -> Typed(word, str.s + 1)
       [] str.len > 0 /\ word = "real" -> Nonc(text, str.s + 5)
       [] str.len > 0 /\ word = "nonc" -> Nonc(text, str.s + 1)
       [] OTHER -> Typed("other", str.s)

(* The type, and where the "=" is, 0 when there is none.  beyond: the name  *)
(* was looked for past the end, and so would be the "=".                    *)
parse_param_name_d(text, str) ==
  LET Named(is, after) ==
        LET equals == { i \in is.p .. End(str) - 1 : At(text, i) = "=" }
        IN CASE is.p <= End(str) /\ is.type # "other" /\ At(text, after.s) = "=" -> Typed(is.type, after.s)
             [] is.p > End(str) -> Typed("beyond", 0)
             [] OTHER -> Typed("other", IF equals = {} THEN 0 ELSE Min(equals))
      Spelt(is) == Named(is, trim_leading(text, Move(str, is.p - str.s)))
  IN Spelt(TypeAt(text, str))

(* A token ends at a blank or a comma. *)
parse_token(text, str) ==
  LET n == FirstIn(text, str, White \union {","}) - str.s
  IN IF n = 0 THEN NoBody ELSE [body |-> Str(str.s, n), rest |-> Move(str, n)]

Value(text, str) ==
  IF At(text, str.s) = "Q" THEN parse_quoted_param(text, str) ELSE parse_token(text, str)

NoCred == [f \in Fields |-> NoStr]
Result(ret, cred) == [ret |-> ret, cred |-> cred]

(* The parameters of str: what is between a value and the comma is passed   *)
(* over, and the last of a name is kept.                                    *)
RECURSIVE parse_digest_params(_, _, _)
parse_digest_params(text, str, cred) ==
  LET Next(rest, all) ==
        LET comma == FirstIn(text, rest, {","})
        IN IF comma = End(rest) THEN Result("ok", all)
           ELSE parse_digest_params(text, trim_leading(text, Move(rest, comma + 1 - rest.s)), all)
      Valued(type, value) ==
        IF value = NoBody THEN Result("error", cred)
        ELSE Next(value.rest, IF type \in Fields THEN [cred EXCEPT ![type] = value.body] ELSE cred)
      Named(name) ==
        LET with == trim_leading(text, Move(str, name.p + 1 - str.s))
        IN CASE name.type = "beyond" -> Result("beyond", cred)
             [] name.type # "beyond" /\ (name.p = 0 \/ with.len = 0) -> Result("error", cred)
             [] OTHER -> Valued(name.type, Value(text, with))
  IN Named(parse_param_name_d(text, str))

Width(c) == IF c \in {"SP", "CR", "LF", "BS"} THEN 1 ELSE Len(c)
Wide(text, str) == FoldLeft(LAMBDA n, c : n + Width(c), 0, Chars(text, str))

(* parse_username: the name and, behind an @, the domain. *)
parse_username(text, whole) ==
  LET at == FirstIn(text, whole, {"@"})
  IN IF Wide(text, whole) <= 2 \/ at = End(whole) THEN [user |-> whole, domain |-> NoStr]
     ELSE [user |-> Str(whole.s, at - whole.s), domain |-> Str(at + 1, End(whole) - at - 1)]

(* parse_qop, parse_algorithm *)
OneOf(text, str, known) ==
  LET t == trim(text, str)
  IN CASE str = NoStr -> "UNSPEC"
       [] str # NoStr /\ t.len = 1 /\ At(text, t.s) \in known -> At(text, t.s)
       [] OTHER -> "OTHER"
parse_qop(text, str) == OneOf(text, str, {"auth", "auth-int"})
parse_algorithm(text, str) == OneOf(text, str, {"MD5", "MD5-sess"})

(* parse_digest_cred: behind the scheme a letter n does, and LF does not.   *)
parse_digest_cred(text) ==
  LET str == trim_leading(text, Str(1, Len(text)))
  IN IF str.len < 2 \/ At(text, str.s) # "digest" THEN Result("unknown", NoCred)
     ELSE IF At(text, str.s + 1) \notin {"SP", "CR", "n", ","} THEN Result("unknown", NoCred)
     ELSE parse_digest_params(text, trim_leading(text, Move(str, 2)), NoCred)

(* check_dig_cred: what is missing or wrong. *)
Missing(cred, set) == { f \in set : cred[f] = NoStr }
check_dig_cred(text, cred) ==
  LET name == parse_username(text, cred["username"])
  IN Missing(cred, {"username", "realm", "nonce", "uri", "response"})
       \union (IF parse_qop(text, cred["qop"]) \in {"auth", "auth-int"}
               THEN Missing(cred, {"cnonce", "nc"}) ELSE {})
       \union (IF name.domain # NoStr /\ Chars(text, name.domain) # Chars(text, cred["realm"])
               THEN {"domain"} ELSE {})

-----------------------------------------------------------------------------
(* Properties *)

(* Going back from i, the first place that is not blank. *)
Back(text, i) == Max({ k \in 1 .. i : At(text, k) \notin White } \union {0})

(* The value of a field stands behind its name and "=", but for the names   *)
(* that only begin as realm or nonce do; and no comma ends its quotes.      *)
FieldsRight(text) ==
  LET Placed(f, open) ==
        LET equals == IF At(text, open) = "Q" THEN Back(text, open - 1) ELSE open
            name == Back(text, equals - 1)
        IN At(text, equals) = "=" /\ (At(text, name) = f \/ (name > 5 /\ At(text, name) \in {"e", "onse"}))
      Right(h) ==
        h.ret = "ok" => \A f \in Fields : h.cred[f] # NoStr => Placed(f, Back(text, h.cred[f].s - 1))
  IN Right(parse_digest_cred(text))

(* Credentials that pass the check are whole: the user's domain, too, is    *)
(* the realm.                                                               *)
CheckRight(text) ==
  LET Right(h, name) ==
        h.ret = "ok" /\ check_dig_cred(text, h.cred) = {} =>
          /\ \A f \in {"username", "realm", "nonce", "uri", "response"} : h.cred[f].s # 0
          /\ name.domain = NoStr \/ Chars(text, name.domain) = Chars(text, h.cred["realm"])
      Checked(h) == Right(h, parse_username(text, h.cred["username"]))
  IN Checked(parse_digest_cred(text))
=============================================================================
