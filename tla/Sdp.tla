---------------------------------- MODULE Sdp ----------------------------------
(***************************************************************************)
(* src/core/parser/sdp and parse_multipart.c: the bodies of a message.     *)
(*                                                                         *)
(* A text is a sequence of words: the letters of the lines, "=", names of  *)
(* attributes, "SP", "CR", "LF" ..; the byte before it ends a line.  A     *)
(* piece of it is <<p, q>>, from p up to q; NULL is no place.  Where the   *)
(* code computes with a null pointer, or reads behind the text, the result *)
(* is Wild; where it does not return it is Hangs.  Memory that is not to   *)
(* be had is left out.                                                     *)
(***************************************************************************)
EXTENDS Integers, Sequences, SequencesExt, FiniteSetsExt

NULL == 0
None == <<NULL, NULL>>
Failed == [error |-> "failed"]
Wild == [error |-> "wild"]
Hangs == [error |-> "hangs"]

(* The one element of S: what is computed of x is The({ f(y) : y \in {x} }). *)
The(S) == CHOOSE y \in S : TRUE

At(text, p) == IF p \in DOMAIN text THEN text[p] ELSE IF p = 0 THEN "LF" ELSE "NUL"
Words(text, piece) == SubSeq(text, piece[1], piece[2] - 1)
Newline == {"CR", "LF"}

FirstIn(text, p, limit, set) == Min({ i \in p .. limit - 1 : text[i] \in set } \union {limit})
FirstNotIn(text, p, limit, set) == Min({ i \in p .. limit - 1 : text[i] \notin set } \union {limit})
eat_token_end(text, p, limit) == FirstIn(text, p, limit, {"SP", "CR", "LF"})
eat_space_end(text, p, limit) == FirstNotIn(text, p, limit, {"SP"})

(* eat_line and trim_len: the line from p on without the blanks around it. *)
Line(text, p, limit) ==
  LET Trimmed(end) == <<eat_space_end(text, p, end), end>>
      Until(nl) == Trimmed(Max({p} \union { i + 1 : i \in { j \in p .. nl - 1 : text[j] \notin {"SP", "CR", "NUL"} } }))
  IN Until(FirstIn(text, p, limit, {"LF"}))

(* A token: where it begins, where it ends, and where the next begins. *)
Token(text, p, end) ==
  LET Ends(t) == <<p, t, eat_space_end(text, t, end)>> IN Ends(eat_token_end(text, p, end))
NoToken(t) == t[1] = t[2]
NoNext(t, end) == t[2] = t[3] \/ t[3] = end

FirstOr(set, default) == IF set = {} THEN default ELSE Min(set)

find_sdp_line(text, p, limit, char) ==
  FirstOr({ i \in p .. limit - 2 : text[i] = char /\ text[i + 1] = "=" /\ At(text, i - 1) \in Newline }, NULL)

(* The search goes on two bytes behind p: behind a CRLF, or a line's "x=". *)
find_next_sdp_line(text, p, limit, char, default) ==
  LET OrDefault(t) == IF limit - p < 3 \/ t = NULL THEN default ELSE t
  IN OrDefault(find_sdp_line(text, p + 2, limit, char))

find_sdp_line_delimiter(text, p, limit, delimiter) ==
  FirstOr({ i \in p .. limit - 1 : text[i] = "--" /\ At(text, i + 1) = delimiter /\ At(text, i - 1) \in Newline },
          NULL)

-----------------------------------------------------------------------------
(* The lines.  Each result is a record, Failed, Wild or Hangs. *)

IsRecord(x) == x \notin {Failed, Wild, Hangs}
Ok == [error |-> "none"]

(* Without a "/" the end of the encoding is a null pointer.  The second "/"*)
(* is looked for from the first on: the rate has all that follows.         *)
extract_rtpmap(text, a, limit) ==
  LET Slash(t, end, slash) ==
        CASE NoToken(t) \/ NoNext(t, end) -> Failed
          [] ~ (NoToken(t) \/ NoNext(t, end)) /\ slash = end -> Wild
          [] OTHER -> IF slash = t[3] THEN Failed
                      ELSE [payload |-> <<t[1], t[2]>>, enc |-> <<t[3], slash>>,
                            clock |-> <<slash + 1, end>>, end |-> end]
      Of(t, end) == The({ Slash(t, end, slash) : slash \in {FirstIn(text, t[3], end, {"/"})} })
      Value(v) == The({ Of(t, v[2]) : t \in {Token(text, v[1], v[2])} })
  IN The({ Value(line) : line \in {Line(text, a + 3, limit)} })

extract_fmtp(text, a, limit) ==
  LET Of(t, end) == IF NoToken(t) \/ NoNext(t, end) THEN Failed
                    ELSE [payload |-> <<t[1], t[2]>>, fmtp |-> <<t[3], end>>, end |-> end]
      Value(v) == The({ Of(t, v[2]) : t \in {Token(text, v[1], v[2])} })
  IN The({ Value(line) : line \in {Line(text, a + 3, limit)} })

extract_field(text, a, limit) == Line(text, a + 3, limit)
extract_sendrecv_mode(a) == <<a + 2, a + 3>>

extract_bwidth(text, b, limit) ==
  LET Colon(v, colon) == IF colon = v[2] THEN Wild
                         ELSE [type |-> <<v[1], colon>>, width |-> <<colon + 1, v[2]>>]
      Value(v) == Colon(v, FirstIn(text, v[1], v[2], {":"}))
  IN The({ Value(line) : line \in {Line(text, b + 2, limit)} })
NoBwidth == [type |-> None, width |-> None]

(* The token behind "IP4"; a CR inside the line is no token and no blank.  *)
RECURSIVE IpToken(_, _, _, _)
IpToken(text, p, end, ip) ==
  LET Of(t) ==
        IF ip THEN (IF NoToken(t) THEN Failed ELSE [ip |-> <<p, t[2]>>])
        ELSE IF t[3] = p THEN Hangs
        ELSE IpToken(text, t[3], end, Words(text, <<p, t[2]>>) = <<"IP4">>)
  IN IF p >= end THEN Failed ELSE The({ Of(t) : t \in {Token(text, p, end)} })

extract_mediaip(text, c, limit) ==
  LET Value(v) == IpToken(text, v[1], v[2], FALSE) IN The({ Value(line) : line \in {Line(text, c + 2, limit)} })

Supported == {<<"udp">>}    (* of the names of transports, one *)

extract_media_attr(text, m, limit) ==
  LET Attr(media, port, trans, end) ==
        IF \/ NoToken(media) \/ NoNext(media, end) \/ NoToken(port) \/ NoNext(port, end) \/ NoToken(trans)
           \/ Words(text, <<trans[1], trans[2]>>) \notin Supported
        THEN Failed
        ELSE [media |-> <<media[1], media[2]>>, port |-> <<port[1], port[2]>>,
              transport |-> <<trans[1], trans[2]>>, payloads |-> <<trans[3], end>>]
      Port(media, port, end) == The({ Attr(media, port, trans, end) : trans \in {Token(text, port[3], end)} })
      Media(media, end) == The({ Port(media, port, end) : port \in {Token(text, media[3], end)} })
      Value(v) == The({ Media(media, v[2]) : media \in {Token(text, v[1], v[2])} })
  IN The({ Value(line) : line \in {Line(text, m + 2, limit)} })

-----------------------------------------------------------------------------
(* A stream, its payloads in the order of p_payload_attr *)

add_sdp_payload(piece) ==
  [payload |-> piece, enc |-> None, clock |-> None, mode |-> None, ptime |-> None, fmtp |-> None]

RECURSIVE Payloads(_, _, _)
Payloads(text, p, end) ==
  LET Of(t) == <<add_sdp_payload(<<p, t[2]>>)>> \o (IF t[3] = t[2] THEN <<>> ELSE Payloads(text, t[3], end))
  IN The({ Of(t) : t \in {Token(text, p, end)} })

StreamAttributes == {"accept-types:", "accept-wrapped-types:", "max-size:", "path:"}

add_sdp_stream(num, m, ip) ==
  [num |-> num, media |-> m.media, port |-> m.port, transport |-> m.transport, payloads |-> m.payloads,
   ip |-> ip, bw |-> <<None, None>>, attr |-> [x \in StreamAttributes |-> None], p |-> <<>>]

(* Its place in p_payload_attr, or NULL. *)
get_sdp_payload4payload(text, stream, piece) ==
  SelectInSeq(stream.p, LAMBDA x : Words(text, x.payload) = Words(text, piece))
get_sdp_payload4index(stream, i) == IF i < Len(stream.p) THEN i + 1 ELSE NULL

set_sdp_payload_attr(s, i, r) == IF i = NULL THEN s ELSE [s EXCEPT !.p[i].enc = r.enc, !.p[i].clock = r.clock]
set_sdp_payload_fmtp(s, i, r) == IF i = NULL THEN s ELSE [s EXCEPT !.p[i].fmtp = r.fmtp]

(* Of the payload last named, or of all. *)
set_sdp_ptime_attr_bug(s, i, value) ==
  [s EXCEPT !.p = [k \in DOMAIN @ |-> IF k = i THEN [@[k] EXCEPT !.ptime = value] ELSE @[k]]]

set_sdp_ptime_attr(s, i, value) ==
  [s EXCEPT !.p = [k \in DOMAIN @ |-> IF i \in {NULL, k} THEN [@[k] EXCEPT !.ptime = value] ELSE @[k]]]

set_sdp_sendrecv_mode_attr(s, i, value) ==
  [s EXCEPT !.p = [k \in DOMAIN @ |-> IF i \in {NULL, k} THEN [@[k] EXCEPT !.mode = value] ELSE @[k]]]

(* One line a=: [stream, payload, end], where payload is the one that was  *)
(* named last, and end where the search for the next line goes on.         *)
After(stream, i, end) == [stream |-> stream, payload |-> i, end |-> end]

Encoding(text, acc, a, r) ==
  LET Set(i) == After(set_sdp_payload_attr(acc.stream, i, r), i, r.end)
  IN IF r = Failed THEN [acc EXCEPT !.end = a] ELSE IF r = Wild THEN Wild
     ELSE Set(get_sdp_payload4payload(text, acc.stream, r.payload))

Format(text, acc, a, r) ==
  LET Set(i) == After(set_sdp_payload_fmtp(acc.stream, i, r), i, r.end)
  IN IF r = Failed THEN [acc EXCEPT !.end = a] ELSE Set(get_sdp_payload4payload(text, acc.stream, r.payload))

Field(acc, name, value) ==
  After(CASE name = "ptime:" -> set_sdp_ptime_attr(acc.stream, acc.payload, value)
         [] name = "sendrecv" -> set_sdp_sendrecv_mode_attr(acc.stream, acc.payload, value)
         [] OTHER -> [acc.stream EXCEPT !.attr[name] = value],
       acc.payload, value[2])

Attribute(text, acc, a, limit) ==
  LET Of(name) ==
        CASE name = "sendrecv" -> Field(acc, name, extract_sendrecv_mode(a))
          [] name = "rtpmap:" -> The({ Encoding(text, acc, a, r) : r \in {extract_rtpmap(text, a, limit)} })
          [] name = "fmtp:" -> The({ Format(text, acc, a, r) : r \in {extract_fmtp(text, a, limit)} })
          [] name \in StreamAttributes \union {"ptime:"} ->
               The({ Field(acc, name, value) : value \in {extract_field(text, a, limit)} })
          [] OTHER -> [acc EXCEPT !.end = a]
      OfPayloads == {"ptime:", "sendrecv", "rtpmap:", "fmtp:"}
  IN CASE a + 2 >= limit -> Wild
       [] a + 2 < limit /\ acc.stream.p = <<>> /\ text[a + 2] \in OfPayloads -> [acc EXCEPT !.end = a]
       [] OTHER -> Of(text[a + 2])

RECURSIVE Attributes(_, _, _, _)
Attributes(text, acc, a, limit) ==
  LET Go(next) == IF IsRecord(next)
                  THEN The({ Attributes(text, next, b, limit) :
                             b \in {find_next_sdp_line(text, next.end, limit, "a", limit)} })
                  ELSE next
  IN IF a = NULL \/ a >= limit THEN acc ELSE The({ Go(next) : next \in {Attribute(text, acc, a, limit)} })

-----------------------------------------------------------------------------
NoBwidthOr(text, b, limit) == IF b = NULL THEN NoBwidth ELSE extract_bwidth(text, b, limit)

(* The payloads of the m= line, and the attributes of its section. *)
WithPayloads(text, stream) ==
  [stream EXCEPT !.p = IF NoToken(stream.payloads) THEN <<>>
                       ELSE Payloads(text, stream.payloads[1], stream.payloads[2])]
WithAttributes(text, stream, m1, m2) ==
  The({ IF IsRecord(end) THEN end.stream ELSE end :
        end \in {Attributes(text, After(stream, NULL, m1), find_sdp_line(text, m1, m2, "a"), m2)} })
Described(text, num, m1, m2, ip, media, bw) ==
  IF ~ IsRecord(media) THEN media ELSE IF ~ IsRecord(bw) THEN bw
  ELSE The({ WithAttributes(text, WithPayloads(text, stream), m1, m2) :
             stream \in {[add_sdp_stream(num, media, ip) EXCEPT !.bw = <<bw.type, bw.width>>]} })

(* The address is that of the stream, or of the session. *)
Stream(text, num, m1, m2, limit, c1) ==
  LET Address(c2) ==
        IF {c1, c2} = {NULL} THEN Failed ELSE extract_mediaip(text, IF c2 # NULL THEN c2 ELSE c1, limit)
  IN The({ IF ~ IsRecord(ip) THEN ip
           ELSE Described(text, num, m1, m2, ip.ip, extract_media_attr(text, m1, m2),
                          NoBwidthOr(text, find_sdp_line(text, m1, m2, "b"), m2)) :
           ip \in {Address(find_sdp_line(text, m1, m2, "c"))} })

(* The list, the last stream first; all is lost with one. *)
RECURSIVE Streams(_, _, _, _, _)
Streams(text, list, m1, limit, c1) ==
  IF m1 >= limit THEN [ret |-> Ok, streams |-> list]
  ELSE The({ The({ IF IsRecord(stream) THEN Streams(text, <<stream>> \o list, m2, limit, c1)
                   ELSE [ret |-> stream, streams |-> list] :
                   stream \in {Stream(text, Len(list), m1, m2, limit, c1)} }) :
             m2 \in {find_next_sdp_line(text, m1, limit, "m", limit)} })

(* [ret, session], where the lines are in the order v, o, m. *)
NoSession(ret) == [ret |-> ret, session |-> <<>>]
SessionOf(text, o, m, limit, num, disp, bw) ==
  LET Done(r) == [ret |-> r.ret, session |-> [num |-> num, disp |-> disp, bw |-> <<bw.type, bw.width>>,
                                              streams |-> r.streams]]
  IN IF ~ IsRecord(bw) THEN NoSession(bw)
     ELSE Done(Streams(text, <<>>, m, limit, find_sdp_line(text, o, m, "c")))

parse_sdp_session(text, p, limit, num, disp) ==
  LET Line1(q, char) == IF q = NULL THEN NULL ELSE find_sdp_line(text, q, limit, char)
  IN The({ The({ IF m = NULL THEN NoSession(Failed)
                 ELSE SessionOf(text, o, m, limit, num, disp, NoBwidthOr(text, find_sdp_line(text, o, m, "b"), m)) :
                 m \in {Line1(o, "m")} }) :
           o \in {Line1(Line1(p, "v"), "o")} })

-----------------------------------------------------------------------------
(* Several bodies.  A line of a part's head begins with the name of the    *)
(* header; "ctype:" and "cdisp:" are the two that are known.               *)

eat_lws_end(text, p, limit) ==
  LET SpaceAt(i) == i < limit /\ text[i] = "SP"
      Blank(i) == \/ SpaceAt(i)
                  \/ text[i] = "LF" /\ SpaceAt(i + 1)
                  \/ text[i] = "CR" /\ i + 1 < limit /\ text[i + 1] = "LF" /\ SpaceAt(i + 2)
  IN Min({ i \in p .. limit - 1 : ~ Blank(i) } \union {limit})

HeaderWords == {"ctype:", "cdisp:", "other:"}

(* A header goes on as long as the next line begins with a blank. *)
Header(text, p, limit, names) ==
  LET Body(b, nl) == <<b, Max({b} \union { i + 1 : i \in { j \in b .. nl : text[j] \notin {"CR", "LF", "NUL"} } })>>
      Of(b, nl) == IF nl = NULL THEN Failed ELSE [type |-> text[p], body |-> Body(b, nl), next |-> nl + 1]
      From(b) ==
        Of(b, FirstOr({ i \in b .. limit - 1 : text[i] = "LF" /\ (i + 1 < limit => text[i + 1] # "SP") }, NULL))
  IN CASE At(text, p) \in Newline -> [type |-> "eoh", body |-> None, next |-> p]
       [] p < limit /\ At(text, p) \in names -> From(eat_lws_end(text, p + 1, limit))
       [] OTHER -> Failed

(* Of sdp.c: all but the two is an error; of parse_multipart.c. *)
get_sdp_hdr_field(text, p, limit) == Header(text, p, limit, {"ctype:", "cdisp:"})
get_hdr_field_unparsed(text, p, limit) == Header(text, p, limit, HeaderWords)

MimeWords == {"sdp", "plain"}
Mime(text, piece) == IF Words(text, piece) \in { <<x>> : x \in MimeWords } THEN text[piece[1]] ELSE "bad"

(* Where the head begins: at a CR of an empty line, it is passed over. *)
AfterLine(text, p, limit) ==
  LET Next1(next) == IF next + 1 < limit /\ text[next] = "CR" THEN next + 1 ELSE next
      Of(nl) == IF nl = limit THEN nl ELSE Next1(IF nl + 1 < limit THEN nl + 1 ELSE nl)
  IN Of(FirstIn(text, p, limit, {"LF"}))

(* [rest, sdp, disp]: where the head ends, and what it has said. *)
RECURSIVE PartHead(_, _, _)
PartHead(text, acc, limit) ==
  LET Typed(h, mime) == IF mime = "bad" THEN Failed ELSE [acc EXCEPT !.sdp = @ \/ mime = "sdp", !.rest = h.next]
      Next1(h) == IF h.type = "cdisp:" THEN [acc EXCEPT !.disp = h.body, !.rest = h.next]
                  ELSE Typed(h, Mime(text, h.body))
      Go(next) == IF IsRecord(next) THEN PartHead(text, next, limit) ELSE next
      Took(h) == IF ~ IsRecord(h) THEN Failed ELSE IF h.type = "eoh" THEN acc
                 ELSE The({ Go(next) : next \in {Next1(h)} })
  IN IF acc.rest >= limit THEN acc ELSE The({ Took(h) : h \in {get_sdp_hdr_field(text, acc.rest, limit)} })

find_next_sdp_line_delimiter(text, p, limit, delimiter, default) ==
  LET OrDefault(t) == IF limit - p < 3 \/ t = NULL THEN default ELSE t
  IN OrDefault(find_sdp_line_delimiter(text, p + 2, limit, delimiter))

(* A disposition is that of the part before, if the part has none. *)
Unset == <<-1, -1>>

(* [error, sessions, frees], the last session first: when one cannot be    *)
(* parsed, sdp is freed here.                                              *)
RECURSIVE Mixed(_, _, _, _, _, _)
Mixed(text, d1, limit, delimiter, disp, list) ==
  LET Result(error, frees) == [error |-> error, sessions |-> list, frees |-> frees]
      Go(d2, head, r) == IF r.ret = Ok THEN Mixed(text, d2, limit, delimiter, head.disp, r.session \o list)
                         ELSE Result(r.ret, 1)
      Session(d2, head) ==
        LET One(r) == [r EXCEPT !.session = <<r.session>>]
        IN IF head.sdp
           THEN The({ One(r) : r \in {parse_sdp_session(text, head.rest, d2, Len(list), head.disp)} })
           ELSE [ret |-> Ok, session |-> <<>>]
      Body(d2, head) == IF head = Failed THEN Result(Failed, 0)
                        ELSE The({ Go(d2, head, r) : r \in {Session(d2, head)} })
      From(d2) == [rest |-> AfterLine(text, d1 + 2, d2), sdp |-> FALSE, disp |-> disp]
      Part(d2) == The({ Body(d2, head) : head \in {PartHead(text, From(d2), d2)} })
  IN IF d1 >= limit THEN Result(Ok, 0)
     ELSE The({ Part(d2) : d2 \in {find_next_sdp_line_delimiter(text, d1, limit, delimiter, limit)} })

parse_mixed_content(text, p, limit, delimiter) ==
  LET d1 == find_sdp_line_delimiter(text, p, limit, delimiter)
  IN IF d1 = NULL THEN [error |-> Failed, sessions |-> <<>>, frees |-> 0]
     ELSE Mixed(text, d1, limit, delimiter, Unset, <<>>)

(* The words behind "boundary=", if it is the first parameter. *)
get_mixed_part_delimiter(body) ==
  LET end == Len(body) + 1
      Value(equals) == IF equals + 1 >= end THEN equals + 1 ELSE FirstNotIn(body, equals + 1, end - 1, {"SP"})
      Equals(equals) == IF At(body, equals) # "=" THEN Failed ELSE [from |-> <<Value(equals), end>>]
      Name(name) == IF At(body, name) # "boundary" THEN Failed
                    ELSE Equals(FirstNotIn(body, name + 1, end, {"SP"}))
      Semicolon(p) == Name(FirstNotIn(body, p + 1, end, {"SP"}))
  IN Semicolon(FirstIn(body, 1, end, {";"}))

-----------------------------------------------------------------------------
(* The sdp of a message: [ret, at, sessions, frees]; at says what m.sdp    *)
(* points to.  free_sdp does not clear the pointer it is given.            *)

NoSdp == [ret |-> Ok, at |-> "nowhere", sessions |-> <<>>, frees |-> 0]

free_sdp(m) ==
  IF m.at = "nowhere" THEN m ELSE [m EXCEPT !.at = "freed", !.frees = @ + 1]

parse_sdp_of(error, sessions, frees) ==
  LET OrFreed(parsed) == IF error = Ok THEN parsed ELSE free_sdp(parsed)
  IN OrFreed([ret |-> error, at |-> "sdp", sessions |-> sessions, frees |-> frees])

parse_sdp(text, p, m, type, delimiter) ==
  LET Single(s) == parse_sdp_of(s.ret, <<s.session>>, 0)
      Several(r) == parse_sdp_of(r.error, r.sessions, r.frees)
  IN CASE m.at # "nowhere" -> [m EXCEPT !.ret = Ok]
       [] m.at = "nowhere" /\ p > Len(text) -> [m EXCEPT !.ret = Failed]
       [] OTHER -> IF type = "sdp"
                   THEN The({ Single(s) : s \in {parse_sdp_session(text, p, Len(text) + 1, 0, None)} })
                   ELSE The({ Several(r) : r \in {parse_mixed_content(text, p, Len(text) + 1, delimiter)} })

(* NULL or the place in the list.  get_sdp_stream_sdp does not go on to the *)
(* next session when this one has no such stream.                          *)
get_sdp_session_sdp(list, num) == SelectInSeq(list, LAMBDA x : x.num = num)

get_sdp_stream_sdp(list, session, stream) ==
  LET s == get_sdp_session_sdp(list, session)
      t == SelectInSeq(list[s].streams, LAMBDA x : x.num = stream)
  IN IF s = NULL \/ session > Len(list) THEN NULL
     ELSE IF t = NULL THEN Hangs ELSE t

-----------------------------------------------------------------------------
(* A copy in shared memory: the words themselves.  What has no room of its *)
(* own is not copied; of the bandwidth of a stream only the length is.     *)

clone_sdp_payload_attr(text, a) ==
  [payload |-> Words(text, a.payload), enc |-> Words(text, a.enc), clock |-> Words(text, a.clock),
   mode |-> Words(text, a.mode), ptime |-> Words(text, a.ptime), fmtp |-> <<>>]

Zeros(piece) == [i \in 1 .. piece[2] - piece[1] |-> "NUL"]

clone_sdp_stream_cell(text, s) ==
  [num |-> s.num, media |-> Words(text, s.media), port |-> Words(text, s.port),
   transport |-> Words(text, s.transport), payloads |-> Words(text, s.payloads), ip |-> Words(text, s.ip),
   bw |-> <<Zeros(s.bw[1]), Zeros(s.bw[2])>>, attr |-> [x \in StreamAttributes |-> <<>>],
   p |-> [i \in DOMAIN s.p |-> clone_sdp_payload_attr(text, s.p[i])]]

(* The list of the streams turned round. *)
clone_sdp_session_cell_bug(text, s) ==
  [num |-> s.num, disp |-> Words(text, s.disp), bw |-> <<Words(text, s.bw[1]), Words(text, s.bw[2])>>,
   streams |-> Reverse([i \in DOMAIN s.streams |-> clone_sdp_stream_cell(text, s.streams[i])])]

clone_sdp_session_cell(text, s) ==
  [num |-> s.num, disp |-> Words(text, s.disp), bw |-> <<Words(text, s.bw[1]), Words(text, s.bw[2])>>,
   streams |-> [i \in DOMAIN s.streams |-> clone_sdp_stream_cell(text, s.streams[i])]]

(* The disposition that was never set is copied like any other. *)
clone_sdp_info(text, list) ==
  IF list = <<>> THEN Failed
  ELSE IF \E i \in DOMAIN list : list[i].disp = Unset THEN Wild
  ELSE [sessions |-> [i \in DOMAIN list |-> clone_sdp_session_cell(text, list[i])]]

-----------------------------------------------------------------------------
(* parse_multipart.c *)

(* Two bytes on; "--" is one word. *)
TwoBytes(text, p) == IF At(text, p) = "--" THEN p + 1 ELSE p + 2

(* The type that was found, and where the blank line begins. *)
RECURSIVE PartHeaders(_, _, _, _)
PartHeaders(text, p, end, type) ==
  LET Go(h, found) == IF found = "bad" THEN Failed ELSE PartHeaders(text, h.next, end, found)
      Took(h) ==
        CASE ~ IsRecord(h) -> Failed
          [] IsRecord(h) /\ h.type = "eoh" -> [type |-> type, eoh |-> h.next]
          [] OTHER -> Go(h, IF h.type = "ctype:" THEN Mime(text, h.body) ELSE type)
  IN The({ Took(h) : h \in {get_hdr_field_unparsed(text, p, end)} })

(* The body has two bytes less than none when the blank line is the line   *)
(* before the delimiter.                                                   *)
parse_single_part(text, start, end) ==
  LET Of(h) == IF ~ IsRecord(h) THEN Failed
               ELSE [all |-> <<start, end>>, type |-> h.type, body |-> <<h.eoh + 2, end>>]
  IN Of(PartHeaders(text, start, end, "plain"))

(* The parts so far; each between two delimiters, up to the last but one.  *)
RECURSIVE Parts(_, _, _, _)
Parts(text, start, delimiter, list) ==
  LET Result(error) == [error |-> error, parts |-> list, part_count |-> 0]
      Go(end, part) == IF IsRecord(part) THEN Parts(text, end, delimiter, Append(list, part)) ELSE Result(part)
      To(end) == IF end = NULL THEN Result(Ok)
                 ELSE The({ Go(end, part) : part \in {parse_single_part(text, TwoBytes(text, start + 2), end - 2)} })
  IN The({ To(end) : end \in {find_sdp_line_delimiter(text, start + 1, Len(text) + 1, delimiter)} })

get_all_bodies(text, p, type, delimiter) ==
  LET Whole(piece) == [error |-> Ok, parts |-> <<[all |-> piece, type |-> type, body |-> piece]>>, part_count |-> 1]
      From(start) == IF start = NULL THEN [error |-> Wild, parts |-> <<>>, part_count |-> 0]
                     ELSE Parts(text, start, delimiter, <<>>)
  IN IF type # "mixed" THEN Whole(<<p, Len(text) + 1>>)
     ELSE From(find_sdp_line_delimiter(text, p, Len(text) + 1, delimiter))

-----------------------------------------------------------------------------
(* What is promised of texts whose lines all end in CR LF. *)

CrLf(text) == /\ \A i \in DOMAIN text : text[i] = "CR" <=> At(text, i + 1) = "LF"
              /\ text # <<>> /\ text[1] # "LF" /\ Last(text) = "LF"

(* The lines x= of text[p .. q - 1], by their places. *)
LinesOf(text, x, p, q) ==
  { i \in p .. q - 2 : At(text, i - 1) = "LF" /\ text[i] = x /\ text[i + 1] = "=" }

LineEnd(text, i) == FirstIn(text, i, Len(text), {"CR"})

(* The tokens of the value of line i, and the n-th of them. *)
TokensTo(text, from, end) ==
  { t \in (from .. end) \X (from .. end) :
      /\ t[1] < t[2] /\ \A k \in t[1] .. t[2] - 1 : text[k] # "SP"
      /\ t[1] = from \/ text[t[1] - 1] = "SP"
      /\ t[2] = end \/ text[t[2]] = "SP" }
Tokens(text, i) == TokensTo(text, i + 2, LineEnd(text, i))
Nth(tokens, n) == CHOOSE t \in tokens : Cardinality({ u \in tokens : u[1] <= t[1] }) = n

(* The tokens behind the first IP4. *)
Addresses(text, c) ==
  LET Behind(tokens) == { t \in tokens : \E u \in tokens : u[1] < t[1] /\ Words(text, u) = <<"IP4">> }
  IN Behind(Tokens(text, c))

Head1(text) ==
  LET all(x) == LinesOf(text, x, 1, Len(text) + 1)
      behind(x, set) == { i \in all(x) : \E j \in set : j < i }
      M(o, m) == [m |-> m, c |-> IF m = {} THEN {} ELSE LinesOf(text, "c", Min(o), Min(m))]
      O(o) == M(o, behind("m", o))
  IN O(behind("o", all("v")))

(* From an m= line to the next. *)
SectionEnd(text, m, i) == Min({ j \in m : j > i } \union {Len(text) + 1})
Connection(text, head, i) ==
  LET Of(own) == IF own # {} THEN {Min(own)} ELSE IF head.c # {} THEN {Min(head.c)} ELSE {}
  IN Of(LinesOf(text, "c", i, SectionEnd(text, head.m, i)))

(* The k-th stream of the list is that of the k-th last line. *)
LineOf(m, k) == CHOOSE i \in m : Cardinality({ j \in m : j > i }) = k - 1

(* sdp.c: a session has one stream for each m= line, the last one first,   *)
(* with the words of that line and the address of its own c= line, or else *)
(* of the session's; and there is one only if every stream has them.       *)
StreamsRight(text, m) ==
  LET has(i, tokens, addresses) ==
        Cardinality(tokens) >= 3 /\ Words(text, Nth(tokens, 3)) \in Supported /\ addresses # {}
      Same(s, tokens, addresses) ==
        /\ s.media = Nth(tokens, 1) /\ s.port = Nth(tokens, 2)
        /\ Len(s.p) = Cardinality(tokens) - 3
        /\ \A k \in DOMAIN s.p : s.p[k].payload = Nth(tokens, k + 3)
        /\ s.ip = Nth(addresses, 1)
      Of(head, i) == UNION { Addresses(text, c) : c \in Connection(text, head, i) }
      Right(head) ==
        /\ m.ret = Ok <=> head.m # {} /\ \A i \in head.m : has(i, Tokens(text, i), Of(head, i))
        /\ m.ret = Ok => /\ Len(m.sessions[1].streams) = Cardinality(head.m)
                         /\ \A k \in DOMAIN m.sessions[1].streams :
                              LET i == LineOf(head.m, k)
                              IN Same(m.sessions[1].streams[k], Tokens(text, i), Of(head, i))
  IN (CrLf(text) /\ m.at # "nowhere" /\ m.ret \in {Ok, Failed}) => Right(Head1(text))

(* sdp.c: the encoding of a payload is that of the last rtpmap line of its *)
(* stream that names it; a mode or a packet time is that of the last line  *)
(* that came after the payload was named, or while none of the stream's    *)
(* was.                                                                    *)
AttributesRight(text, m) ==
  LET Place(s, x) == IF IsRecord(x) THEN get_sdp_payload4payload(text, s, x.payload) ELSE -1
      Names(s, lines) ==    (* the payload each line names, or -1 *)
        [i \in lines |-> CASE At(text, i + 2) = "rtpmap:" -> Place(s, extract_rtpmap(text, i, Len(text)))
                           [] At(text, i + 2) = "fmtp:" -> Place(s, extract_fmtp(text, i, Len(text)))
                           [] OTHER -> -1]
      Last1(set) == { i \in set : \A j \in set : j <= i }
      ForMe(names, i, k) ==
        \A j \in Last1({ x \in DOMAIN names : x < i /\ names[x] # -1 }) : names[j] \in {k, NULL}
      Of(names, k, name) ==
        Last1({ i \in DOMAIN names : At(text, i + 2) = name
                                    /\ IF name = "rtpmap:" THEN names[i] = k ELSE ForMe(names, i, k) })
      OrNone(set) == IF set = {} THEN {None} ELSE set
      Right(p, k, names) ==
        /\ p.enc \in OrNone({ extract_rtpmap(text, i, Len(text)).enc : i \in Of(names, k, "rtpmap:") })
        /\ p.ptime \in OrNone({ Line(text, i + 3, Len(text)) : i \in Of(names, k, "ptime:") })
        /\ p.mode \in OrNone({ extract_sendrecv_mode(i) : i \in Of(names, k, "sendrecv") })
      AllRight(s, names) == \A k \in DOMAIN s.p : Right(s.p[k], k, names)
      Checked(streams, lines) ==
        \A n \in DOMAIN streams :
          LET i == LineOf(lines, n)
          IN AllRight(streams[n], Names(streams[n], LinesOf(text, "a", i, SectionEnd(text, lines, i))))
  IN (CrLf(text) /\ m.at # "nowhere" /\ m.ret = Ok) => Checked(m.sessions[1].streams, Head1(text).m)

(* sdp.c: what is looked up in a copy is what is looked up in the original:*)
(* the stream of that number, and its payload of that place.               *)
CloneRight(text, m) ==
  LET Found(list, n) == list[1].streams[get_sdp_stream_sdp(list, 0, n)]
      Payload(s, i) == s.p[get_sdp_payload4index(s, i)]
      Same(a, b) == /\ a.media = Words(text, b.media) /\ a.ip = Words(text, b.ip) /\ Len(a.p) = Len(b.p)
                    /\ \A i \in 0 .. Len(b.p) - 1 : Payload(a, i).enc = Words(text, Payload(b, i).enc)
      Compared(copy, list) ==
        /\ \A n \in 0 .. Len(list[1].streams) - 1 : Same(Found(copy, n), Found(list, n))
        /\ \A i \in DOMAIN list[1].streams : copy[1].streams[i].num = list[1].streams[i].num
  IN (m.at # "nowhere" /\ m.ret = Ok) => Compared(clone_sdp_info(text, m.sessions).sessions, m.sessions)

(* parse_multipart.c, sdp.c: there is a part between each two delimiters   *)
(* and its body is what follows its blank line; where both ways of reading *)
(* succeed the sessions are the parts that are sdp, and a session's        *)
(* disposition is that of the last part that had one.                      *)
PartsRight(text, m, delimiter) ==
  LET Once(part) == Cardinality({ i \in part.all[1] .. part.body[1] - 1 : text[i] = "ctype:" }) <= 1
      Apart(g, d) ==
        /\ Len(g.parts) = Cardinality(d) - 1
        /\ \A i \in DOMAIN g.parts :
             LET part == g.parts[i]
             IN /\ Words(text, <<part.body[1] - 4, part.body[1]>>) = <<"CR", "LF", "CR", "LF">>
                /\ At(text, part.all[2] + 2) = "--"
      LastDisp(p) == Max({0} \union { i \in 1 .. p - 1 : text[i] = "cdisp:" /\ At(text, i - 1) = "LF" })
      DispRight(disp, at) == IF at = 0 THEN disp = Unset ELSE disp[1] \in at + 1 .. at + 2
      Agree(sessions, parts) ==
        /\ Len(sessions) = Len(parts)
        /\ \A i \in DOMAIN parts : DispRight(sessions[Len(parts) + 1 - i].disp, LastDisp(parts[i].body[1]))
      Sdps(parts) == SelectSeq(parts, LAMBDA part : part.type = "sdp")
      Plain(d) == \A i \in d : text[i + 2] = "CR" \/ i = Max(d)
      Closed(d) == d # {} /\ At(text, Max(d) + 2) = "--"
      Checked(g, d) ==
        (g.error = Ok /\ Plain(d)) =>
          /\ Apart(g, d)
          /\ (m.ret = Ok /\ Closed(d) /\ \A i \in DOMAIN g.parts : Once(g.parts[i])) =>
               Agree(m.sessions, Sdps(g.parts))
  IN (CrLf(text) /\ m.at # "nowhere") =>
       Checked(get_all_bodies(text, 1, "mixed", delimiter),
               { i \in DOMAIN text : At(text, i - 1) = "LF" /\ text[i] = "--" /\ At(text, i + 1) = delimiter })

(* sdp.c: an sdp that was parsed is there, and is freed once.              *)
FreedOnce(m) == m.ret = Ok => m.at = "nowhere" \/ free_sdp(m).frees = 1

(* sdp_helpr_funcs.c: the delimiter is all that follows boundary=, whatever*)
(* blanks there are.                                                       *)
DelimiterRight(body) ==
  LET NoBlank(words) == SelectSeq(words, LAMBDA x : x # "SP")
      Checked(r, words) ==
        /\ IsRecord(r) <=> IsPrefix(<<"boundary", "=">>, words)
        /\ IsRecord(r) => NoBlank(Words(body, r.from)) = SubSeq(words, 3, Len(words))
  IN Checked(get_mixed_part_delimiter(body),
             NoBlank(SubSeq(body, FirstIn(body, 1, Len(body), {";"}) + 1, Len(body))))
=============================================================================
