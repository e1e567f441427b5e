-------------------------------- MODULE Routes --------------------------------
(***************************************************************************)
(* src/core/parser/parse_rr.c: the bodies of Route, Record-Route and Path, *)
(* a list of name-addresses with parameters; their copies, and the line    *)
(* they are printed to.                                                    *)
(***************************************************************************)
EXTENDS ParamList

Route(addr, params, len) == [addr |-> addr, params |-> params, len |-> len]

Failed == [ok |-> FALSE, routes |-> <<>>]
Parsed(routes) == [ok |-> TRUE, routes |-> routes]

RECURSIVE parse_rr_body(_, _, _)

(* What follows a route: nothing, or a comma and another. *)
NextRoute(text, str, routes) ==
  LET next == trim_leading(text, Move(str, 1))
  IN CASE str.len = 0 -> Parsed(routes)
       [] str.len # 0 /\ At(text, str.s) = "," /\ next.len # 0 -> parse_rr_body(text, next, routes)
       [] OTHER -> Failed

(* len ends where the first of the parameters does. *)
parse_rr_body(text, str, routes) ==
  LET With(addr, rest, params) ==
        LET first == params.list[1]
        IN IF rest.len = 0 \/ ~ params.ok THEN Failed
           ELSE NextRoute(text, trim_leading(text, params.rest),
                          Append(routes, Route(addr, params.list, first.name.s + first.len - addr.name.s)))
      After(addr, after) ==
        LET rest == trim_leading(text, Move(after, 1))
        IN IF after.len = 0 \/ At(text, after.s) # ";"
           THEN NextRoute(text, after, Append(routes, Route(addr, <<>>, addr.len)))
           ELSE With(addr, rest, parse_params(text, rest, "ANY"))
      Addr(addr) ==
        IF addr = NoAddr THEN Failed ELSE After(addr, trim_leading(text, Move(str, addr.len)))
  IN Addr(parse_nameaddr(text, str))

parse_rr(text) ==
  IF Len(text) = 0 THEN Failed
  ELSE parse_rr_body(text, trim_leading(text, Str(1, Len(text))), <<>>)

(* get_path_dst_uri: the address of the first route. *)
get_path_dst_uri(text) ==
  LET h == parse_rr(text) IN IF h.ok THEN h.routes[1].addr.uri ELSE NoStr

-----------------------------------------------------------------------------
(* duplicate_rr: len bytes are copied, and the pointers moved from the text *)
(* to the copy: a piece is now counted from the copy's first byte.          *)

translate_pointer(route, str) ==
  IF str = NoStr THEN NoStr ELSE Str(str.s + 1 - route.addr.name.s, str.len)
(* Up to the end of the first parameter. *)
CopyLen(route) ==
  IF route.params = <<>> THEN route.addr.len
  ELSE route.params[1].name.s + route.params[1].len - route.addr.name.s

duplicate_rr(text, route) ==
  [bytes |-> Chars(text, Str(route.addr.name.s, CopyLen(route))),
   uri |-> translate_pointer(route, route.addr.uri),
   params |-> [i \in DOMAIN route.params |->
                 [route.params[i] EXCEPT !.name = translate_pointer(route, @), !.body = translate_pointer(route, @)]]]

(* Everything the copy of a route points to is in the copy. *)
Copied(text, route) ==
  LET copy == duplicate_rr(text, route)
      inside(str) == str = NoStr \/ End(str) - 1 <= Len(copy.bytes)
  IN \A i \in DOMAIN copy.params : inside(copy.params[i].name) /\ inside(copy.params[i].body)

-----------------------------------------------------------------------------
(* print_rr_body: the routes from skip on, or, in reverse order, those      *)
(* before the last skip, joined by commas; Room is what was allocated.      *)

MAX_RR_HDRS == 64

Joined(text, routes) ==
  FoldLeft(LAMBDA t, i : t \o (IF i = 1 THEN <<>> ELSE <<",">>)
                           \o Chars(text, Str(routes[i].addr.name.s, routes[i].len)),
           <<>>, [i \in DOMAIN routes |-> i])

(* n - skip is unsigned. *)
Counted(routes, reverse, skip) ==
  { i \in DOMAIN routes : IF reverse THEN skip > Len(routes) \/ i - 1 <= Len(routes) - skip
                          ELSE i - 1 >= skip }
Room(routes, reverse, skip) ==
  MapThenSumSet(LAMBDA i : routes[i].len, Counted(routes, reverse, skip))
    + Cardinality(Counted(routes, reverse, skip)) - 1

print_rr_body(text, routes, reverse, skip) ==
  LET n == Len(routes)
  IN CASE n >= MAX_RR_HDRS \/ Room(routes, reverse, skip) < 0 -> <<"error">>
       [] OTHER -> IF reverse THEN Joined(text, Reverse(SubSeq(routes, 1, n - skip)))
                   ELSE Joined(text, SubSeq(routes, skip + 1, n))

-----------------------------------------------------------------------------
(* Properties *)

Squeeze(text) == SelectSeq(text, LAMBDA c : c \notin {"SP", "CR", "LF", "Q"})

RouteText(text, r) ==
  Chars(text, r.addr.name) \o <<"<">> \o Chars(text, r.addr.uri) \o <<">">> \o ListText(text, r.params)
Together(text, routes) ==
  FoldLeft(LAMBDA t, i : t \o (IF i = 1 THEN <<>> ELSE <<",">>) \o RouteText(text, routes[i]),
           <<>>, [i \in DOMAIN routes |-> i])

(* The routes of an accepted header are its text. *)
Lossless(text) ==
  LET Whole(h) == h.ok => Squeeze(text) = Squeeze(Together(text, h.routes))
  IN Whole(parse_rr(text))

(* What is printed fits in what was allocated for it. *)
Fits(text) ==
  LET Fit(h) ==
        \A reverse \in BOOLEAN, skip \in 0 .. Len(h.routes) + 1 :
          h.ok /\ Room(h.routes, reverse, skip) >= 0 =>
            Len(print_rr_body(text, h.routes, reverse, skip)) <= Room(h.routes, reverse, skip)
  IN Fit(parse_rr(text))

(* A route with no more than one parameter is copied and printed whole. *)
FirstCopied(text) ==
  LET few(routes) == \A i \in DOMAIN routes : Len(routes[i].params) <= 1
      Kept(h) ==
        h.ok /\ few(h.routes) =>
          /\ \A i \in DOMAIN h.routes : Copied(text, h.routes[i])
          /\ Squeeze(print_rr_body(text, h.routes, FALSE, 0)) = Squeeze(text)
  IN Kept(parse_rr(text))
=============================================================================
