------------------------------ MODULE MCParsers ------------------------------
(***************************************************************************)
(* The parsers, one instance of each, fed one character (or token) at a    *)
(* time.  A part fixes the parser, the text its input begins with, the     *)
(* characters that may follow and how many; TLC builds every such input.   *)
(***************************************************************************)
EXTENDS Integers, Sequences, SequencesExt

VARIABLES part,     (* the parser, and the texts it is given *)
          input,    (* the text so far *)
          m         (* what the parser has made of it *)

vars == <<part, input, m>>

Uri == INSTANCE UriParser
Via == INSTANCE ViaParser
Msg == INSTANCE MsgParser
Name == INSTANCE HeaderNames
To == INSTANCE ToParser
Contact == INSTANCE Contacts
Route == INSTANCE Routes
Mime == INSTANCE Mime
Disp == INSTANCE Disposition
Body == INSTANCE HeaderBodies
Auth == INSTANCE Digest
Io == INSTANCE IoWait
Map == INSTANCE AvlMap
Qm == INSTANCE QMalloc WITH FRAG_OVERHEAD <- 1, QM_MALLOC_OPTIMIZE_FACTOR <- 1
Fm == INSTANCE FMalloc WITH FRAG_OVERHEAD <- 1, F_MALLOC_OPTIMIZE_FACTOR <- 1,
                            F_MALLOC_LARGE_LIMIT <- 2, F_MALLOC_DEFRAG_LIMIT <- 4

Build == INSTANCE MsgBuilder
Sdp == INSTANCE Sdp
Dns == INSTANCE DnsRecords

Part(of, pre, with, max) == [of |-> of, pre |-> pre, with |-> with, max |-> max]

UriParts ==
  { Part("uri", <<>>, {":", ";", "?", "@", "[", "]", "=", "5", "x"}, 5),
    Part("uri", <<"x", ";">>, {"t", "l", "r", "m", "a", "2", "x", ";", "=", "?"}, 4),
    Part("uri", <<"x", ";", "t", "r", "=">>, {"t", "u", "c", "d", "x", ";", "@", ":", "?"}, 4),
    Part("uri", <<"[", "]", ":", "5", ";">>, {"@", "x", ":", "5", ";"}, 4),
    Part("uri", <<"x", ";", "x", "@", "x", ";", "u", "s", "=">>, {"P", ";", "x"}, 3) }

UDP == <<"SIP", "/", "2.0", "/", "UDP">>

ViaParts ==
  { Part("via", <<>>, {"SIP", "2.0", "/", "UDP", "SCTP", "SP", "CR", "LF", "x"}, 7),
    Part("via", UDP \o <<"SP", "x", ";", "x", ",">> \o UDP \o <<"SP">>,
         {"SP", "LF", ":", ";", ",", "x"}, 5),
    Part("via", UDP \o <<"SP">>,
         {"SP", "LF", "CR", ":", ";", ",", "(", ")", "[", "]", "x", "5"}, 5),
    Part("via", UDP \o <<"SP", "x">>, {"(", ")", "x", "SP", "LF", ","}, 6),
    Part("via", UDP \o <<"SP", "x", ";">>, {"b", "r", "e", "h", "i", "x", "=", ";", ",", "SP"}, 4),
    Part("via", UDP \o <<"SP", "x", ";", "r", "p">>, {"SP", "LF", "Q", "x", "=", ";", ",", "SP"}, 5) }

INVITE == <<"INVITE", "SP", "x", "SP", "SIP/2.0", "CR", "LF">>

MsgParts ==
  { Part("msg", <<"SIP/2.0">>, {"SP", "200", "CR", "LF", "x"}, 5),
    Part("msg", <<"LF", "INVITE">>, {"SP", "SIP/2.0", "CR", "LF", "x"}, 5),
    Part("msg", <<"x">>, {"SP", "SIP/2.0", "LF", "/"}, 5),
    Part("msg", INVITE \o <<"from", ":", "x">>, {"from", "CR", "LF", "SP", ":", "x"}, 5),
    Part("msg", INVITE \o <<"contact", ":", "x", "CR", "LF", "contact", ":">>, {"x", "CR", "LF", "SP"}, 6),
    Part("msg", INVITE \o <<"via", ":">>, {"body", ",", "SP", "CR", "LF"}, 6),
    Part("msg", INVITE \o <<"via", ":", "body", "CR", "LF", "via", ":", "body">>,
         {"body", ",", "CR", "LF"}, 6) }

ToParts ==
  { Part("to", <<>>, {"SP", "CR", "LF", "NUL", "BS", "<", ">", "Q", ";", "x"}, 5),
    Part("to", <<"x", "SP", "<", "x">>, {"SP", "CR", "LF", ">", ";", "=", "x"}, 6),
    Part("to", <<"x", ";">>, {"t", "=", ";", "x", "SP", "CR", "LF", "NUL"}, 5),
    Part("to", <<"x", ";", "t">>, {"a", "g", "=", ";", "x", "SP", "LF", "t"}, 5),
    Part("to", <<"x", ";", "t", "a", "g">>, {"=", "Q", "BS", "SP", "x", "LF", ";"}, 5) }

Cut(name) == SubSeq(name, 1, Len(name) - 1)

NameParts ==
  { Part("name", <<name>>, {":", " ", "\t", "\r", "o", "x"}, 3) :
      name \in Name!Names \union { Cut(x) : x \in Name!Names } }

After == "NUL"  (* behind the text of a message *)
ParseMsg(n, text) == Msg!parse_msg(n, text, {"eoh"}, After)

ContactParts ==
  { Part("contact", <<>>, {"SP", "<", ">", "Q", ":", ",", ";", "*"}, 5),
    Part("contact", <<"x", ":", ";">>, {"q", "expires", "=", ";", ",", ">", "SP", "Q", "x"}, 5),
    Part("contact", <<"x", ":", ";", "q", "=", "x", ",", "x", ":">>, {"q", "=", ";", ",", "SP", "x", ":"}, 5),
    Part("contact", <<"<", "x">>, {">", "Q", "BS", "<", ",", ";", "x"}, 5) }

RouteParts ==
  { Part("route", <<>>, {"SP", "<", ">", "Q", "BS", ",", "x"}, 5),
    Part("route", <<"<", "x", ">">>, {";", "=", "x", ",", "SP", "Q"}, 5),
    Part("route", <<"<", "x", ">", ";", "x", "=", "x">>, {"<", "x", ">", ",", ";", "SP"}, 5) }

MimeParts ==
  { Part("mime", <<>>, {"t", "e", "x", "/", "*", ";", "SP", "LF"}, 5),
    Part("mime", <<"t", "e", "x", "t", "/", "p", "l", "a", "i">>, {"n", "x", ";", ",", "SP", "="}, 5),
    Part("mime", <<"x", "/", "c", "p">>, {"i", "l", "m", "+", "x", "SP"}, 5),
    Part("mime", <<"x", "/", "x", ";">>, {"boundary", "start", "=", ";", "x", "Q", "SP", ">"}, 5),
    Part("accept", <<"x", "/", "s", "d">>, {"p", "x", ",", "*", "/", ";", "SP"}, 5) }

DispParts ==
  { Part("disp", <<>>, {"SP", "LF", "CR", "NUL", ";", "=", "Q", "BS", "/", "x"}, 4),
    Part("disp", <<"x", ";">>, {"SP", "LF", "CR", ";", "=", "x"}, 5),
    Part("disp", <<"x", ";", "x", "=">>, {"SP", "LF", "CR", ";", "=", "Q", "BS", "/", "x"}, 5) }

BodyParts ==
  { Part("methods", <<>>, {"INVITE", "IxFO", "ACK", "x", "?", ",", "SP", "NUL"}, 5),
    Part("cseq", <<"5", "SP">>, {"INVITE", "x", "?", ",", "SP", "CR", "LF"}, 5),
    Part("privacy", <<>>, {"id", "user", "none", "x", ";", "SP", "NUL"}, 5),
    Part("supported", <<>>, {"path", "100rel", "time", "eventlist", "x", ",", "SP"}, 5),
    Part("sst", <<>>, {"5", ";", "SP", "x", "refresher=uac", "refresher=uas", "refresher=", "refr"}, 4),
    Part("number", <<>>, {"5", "SP", "x", "CR", "LF"}, 5),
    Part("event", <<>>, {"dialog", "presence", "sla", ";", "=", "x", "SP"}, 5) }

AuthParts ==
  { Part("auth", <<>>, {"digest", "SP", "LF", ",", "n", "uri", "=", "x"}, 4),
    Part("auth", <<"digest", "SP">>, {"realm", "uri", "=", ",", "Q", "SP", "x"}, 5),
    Part("auth", <<"digest", "SP">> \o <<"real", "x", "x">>, {"x", "e", "=", ","}, 5),
    Part("auth", <<"digest", "SP", "realm", "=", "x", ",", "nonce", "=", "x", ",", "uri", "=", "x", ",",
                   "response", "=", "x", ",", "username", "=", "Q">>, {"x", "@", "Q", ",", "qop", "=", "auth", "nc"}, 4) }

(* Bodies; most of what they are built from is whole lines. *)
SdpLines ==
  [v |-> <<"v", "=", "0">>, o |-> <<"o", "=", "x">>,
   m |-> <<"m", "=", "a", "SP", "5", "SP", "udp">>,
   m0 |-> <<"m", "=", "a", "SP", "5", "SP", "udp", "SP", "0">>,
   m01 |-> <<"m", "=", "b", "SP", "5", "SP", "udp", "SP", "0", "SP", "1">>,
   c1 |-> <<"c", "=", "IN", "SP", "IP4", "SP", "h1">>, c2 |-> <<"c", "=", "IN", "SP", "IP4", "SP", "h2">>,
   c0 |-> <<"c", "=", "IN">>, b |-> <<"b", "=", "AS", ":", "5">>,
   rtpmap0 |-> <<"a", "=", "rtpmap:", "0", "SP", "x", "/", "5">>,
   rtpmap1 |-> <<"a", "=", "rtpmap:", "1", "SP", "x", "/", "6">>,
   fmtp1 |-> <<"a", "=", "fmtp:", "1", "SP", "x">>, fmtp9 |-> <<"a", "=", "fmtp:", "9", "SP", "x">>,
   ptime |-> <<"a", "=", "ptime:", "5">>, mode |-> <<"a", "=", "sendrecv">>,
   path |-> <<"a", "=", "path:", "x">>, other |-> <<"a", "=", "x">>,
   ctype |-> <<"ctype:", "SP", "sdp">>, plain |-> <<"ctype:", "SP", "plain">>,
   cdisp |-> <<"cdisp:", "SP", "x">>, empty |-> <<>>, delim |-> <<"--", "d">>, close |-> <<"--", "d", "--">>]
WordsOf(line) == IF line \in DOMAIN SdpLines THEN SdpLines[line] \o <<"CR", "LF">> ELSE <<line>>
SdpText(lines) == FlattenSeq([i \in DOMAIN lines |-> WordsOf(lines[i])])

SdpOf1 == <<"v", "o", "c1", "m0">>
SdpParts ==
  { Part("sdp", <<>>, {"v", "o", "c1", "m0", "m01", "b"}, 5),
    Part("sdp", <<"v", "o">>, {"c1", "c2", "c0", "m", "m0", "m01"}, 5),
    Part("sdp", <<"v", "o", "c1", "m01">>,
         {"rtpmap0", "rtpmap1", "fmtp1", "fmtp9", "ptime", "mode", "path", "other", "m0"}, 4),
    Part("sdp", <<"v", "o", "c1", "m", "=">>, {"a", "udp", "SP", "CR", "LF"}, 5),
    Part("sdp", <<"v", "o", "c1", "m01", "a", "=">>, {"rtpmap:", "0", "SP", "x", "/", "CR", "LF"}, 5),
    Part("sdp", <<"v", "o", "m0">>, {"c", "=", "IP4", "SP", "x", "LF", "CR"}, 5),
    Part("mixed", <<"delim">>, {"delim", "close", "ctype", "plain", "cdisp", "empty", "v", "m0"}, 4),
    Part("mixed", <<"delim", "ctype", "empty">> \o SdpOf1, {"delim", "close", "ctype", "plain", "cdisp", "empty"}, 5),
    Part("mixed", <<"delim", "ctype", "cdisp", "empty">> \o SdpOf1 \o <<"delim", "cdisp", "ctype", "empty">> \o SdpOf1,
         {"delim", "close", "ctype", "cdisp", "empty", "v"}, 4),
    Part("boundary", <<"x">>, {";", "boundary", "=", "SP", "d"}, 6) }

(* Not a text, but what the reactor is made of. *)
IoParts == { Part("iowait", <<sys>>, {}, 0) : sys \in Io!Systems }

(* Structures, and the calls that change them. *)
BuildParts == {"build", "build_static", "build_after"}
StructureParts == { Part(of, <<>>, {}, 0) : of \in {"map", "qm", "qm_join", "qm_shrink", "fm", "dns"} }
                  \union { Part(of, <<>>, {}, 5) : of \in BuildParts }
Keys == 1 .. 8
ItemsOf(key) == IF key = 1 THEN {5, 6} ELSE {5}
Sizes == {1, 2, 4}

(* Replies: whole ones, and some with every number of bytes fewer.          *)
SomeSrv == { Dns!Srv(p, w, h, 3) : p \in {1, 2}, w \in {0, 1, 2}, h \in {"h1"} }
           \union { Dns!Srv(1, 65535, "h1", 3), Dns!Srv(1, 1, "h2", 3) }
SomeNaptr == { Dns!Naptr(o, f, fl, s, 0, 3) : o \in {1, 2}, f \in {1, 40000}, fl \in {"s"}, s \in {"sip+d2u", "sip+d2t", "sips+d2t"} }
             \union { Dns!Naptr(1, 1, "u", "sip+d2u", 0, 3), Dns!Naptr(1, 1, "s", "sip+d2u", 2, 3),
                      Dns!Naptr(65535, 1, "s", "sip+d2s", 0, 3), Dns!Naptr(65535, 0, "s", "sips+d2t", 0, 3) }
Others == { Dns!Plain("A", 4), Dns!Plain("CNAME", 3), Dns!Plain("TXT", 2), Dns!Ebl(2, 1, 3), Dns!Plain("other", 1) }
AnswersOf == {<<>>} \union (SomeSrv \X SomeSrv \X SomeSrv)
             \union { <<a>> \o b : a \in {Dns!Srv(1, 1, "h1", 3), Dns!Srv(1, 2, "h1", 3)}, b \in (SomeSrv \X SomeSrv \X SomeSrv) }
             \union (SomeNaptr \X SomeNaptr \X SomeNaptr)
             \union { <<a>> : a \in Others \union SomeSrv }
             \union { <<a, b, c>> : a, b, c \in Others \union {Dns!Srv(1, 1, "h1", 3), Dns!Srv(2, 0, "h2", 3)} }
             \union (Others \X SomeNaptr)
CutOff == { <<Dns!Srv(1, 1, "h1", 3), Dns!Srv(1, 2, "h1", 5)>>, <<Dns!Naptr(1, 1, "s", "sip+d2u", 2, 3), Dns!Plain("A", 4)>> }
Asked == { Dns!Asked([questions |-> <<3>>, answers |-> a, size |-> Dns!Full(<<3>>, a)], s) : a \in AnswersOf, s \in BOOLEAN }
         \union UNION { { Dns!Asked([questions |-> q, answers |-> a, size |-> n], FALSE) : n \in 10 .. Dns!Full(q, a) } :
                        a \in CutOff, q \in {<<>>, <<3, 5>>} }

Spec1(type, name, body, vias) == [type |-> type, name |-> <<name>>, body |-> body, vias |-> vias]
LongVia == [i \in 1 .. 21 |-> IF i \in 11 .. 20 THEN "b3" ELSE "b4"]
Request1 == Build!Message(<<"INVITE", "uri", "SIP/2.0">>, 2,
                          << Spec1("via", "v", <<"b1">>, <<"plain">>), Spec1("to", "t", <<"b2">>, <<>>),
                             Spec1("via", "v", LongVia, <<"plain", "cookie">>) >>, <<"CR", "LF", "body">>)

Empty(of) == CASE of = "map" -> Map!map_create
               [] of = "dns" -> Dns!NoReply
               [] of \in {"qm", "qm_join"} -> Qm!qm_malloc_init(11, of = "qm_join")
               [] of = "qm_shrink" -> Qm!qm_malloc_init(9, FALSE)
               [] of = "fm" -> Fm!fm_malloc_init(11)
               [] of \in {"build", "build_static"} -> Build!ParseNext(Request1)
               [] of = "build_after" -> Build!ParseAll(Request1)

Calls(of, t) ==
  CASE of = "map" -> {Map!map_get(t, 1)}
                    \union UNION { {Map!map_remove(t, k).map} \union { Map!map_put(t, k, x).map : x \in ItemsOf(k) } :
                                   k \in Keys }
    [] of \in {"qm", "qm_join"} -> Qm!After(t, Sizes, FALSE, 0)
    [] of = "qm_shrink" -> Qm!After(t, Sizes, TRUE, 0)
    [] of = "fm" -> Fm!After(t, Sizes)
    [] of = "dns" -> IF t.do = "idle" THEN Asked ELSE Dns!After(t)
    [] of \in BuildParts ->
         Build!Calls(t, IF of = "build_after" THEN 1 .. 4 ELSE {0}, {"via", "to"}, {<<"c", "CR", "LF">>},
                     IF of = "build_static" THEN {} ELSE {"dup_body"}, 4, 4)

Text(words) == FoldLeft(LAMBDA a, b : a \o b, "", words)

(* Of these the properties parse the whole text each time. *)
Whole == {"name", "contact", "route", "mime", "accept", "methods", "cseq", "privacy", "supported", "sst",
          "number", "event", "auth", "iowait", "boundary"}

Start(p) == CASE p.of = "uri" -> FoldLeft(Uri!Step, Uri!Start, p.pre)
              [] p.of = "via" -> FoldLeft(Via!Step, Via!Start, p.pre)
              [] p.of = "to" -> FoldLeft(To!Step, To!Start, p.pre)
              [] p.of = "disp" -> FoldLeft(Disp!Step, Disp!Start, p.pre)
              [] p.of = "msg" -> Msg!NoMsg
              [] p.of \in {"sdp", "mixed"} -> Sdp!NoSdp
              [] p.of \in Whole -> 0
              [] p \in StructureParts -> Empty(p.of)

Step(n, c) == CASE part.of = "uri" -> Uri!Step(n, c)
                [] part.of = "via" -> Via!Step(n, c)
                [] part.of = "to" -> To!Step(n, c)
                [] part.of = "disp" -> Disp!Step(n, c)
                [] part.of = "msg" -> ParseMsg(n, Append(input, c))
                [] part.of \in {"sdp", "mixed"} -> Sdp!parse_sdp(SdpText(Append(input, c)), 1, Sdp!NoSdp, part.of, "d")
                [] part.of \in Whole -> 0

Failed(n) == CASE part.of = "uri" -> Uri!Failed(n)
               [] part.of = "via" -> Via!Failed(n)
               [] part.of = "to" -> To!Failed(n)
               [] part.of = "disp" -> Disp!Failed(n)
               [] part.of = "msg" -> n.ret = "error" \/ n.eoh # 0
               [] part.of \in Whole \union {"sdp", "mixed"} -> FALSE

Init == /\ part \in UriParts \union ViaParts \union MsgParts \union NameParts \union RouteParts \union ContactParts \union ToParts \union MimeParts \union DispParts
                 \union BodyParts \union AuthParts \union IoParts \union StructureParts \union SdpParts
        /\ input = part.pre
        /\ m = Start(part)

More == part \notin StructureParts /\ Len(input) < Len(part.pre) + part.max /\ ~ Failed(m)

(* One more character, and the parser sees it. *)
Char == /\ More
        /\ \E c \in part.with : input' = Append(input, c) /\ m' = Step(m, c)
        /\ UNCHANGED part

(* More of a message, that parse_msg will be given later. *)
Wait == /\ part.of = "msg" /\ More
        /\ \E c \in part.with : input' = Append(input, c)
        /\ UNCHANGED <<part, m>>

(* One more call. *)
Call == /\ part \in StructureParts
        /\ part.max = 0 \/ Len(input) < part.max
        /\ m' \in Calls(part.of, m)
        /\ input' = IF part.max = 0 THEN input ELSE Append(input, "call")
        /\ UNCHANGED part

Next == Char \/ Wait \/ Call

Spec == Init /\ [][Next]_vars

(* parse_uri.c, parse_via.c: an accepted text is the sum of the pieces it  *)
(* was split into, and what ends a piece is not in it.  sdp.c: there is a   *)
(* stream for each m= line, with its words and its address.                 *)
PiecesRight ==
  CASE part.of = "uri" -> Uri!Lossless(m, input) /\ Uri!Pure(m, input)
    [] part.of = "via" -> Via!Lossless(m, input)
    [] part.of = "to" -> To!Lossless(m, input)
    [] part.of = "contact" -> Contact!Lossless(input)
    [] part.of = "disp" -> Disp!Lossless(m, input) /\ Disp!AllParams(m, input)
    [] part.of = "accept" -> Mime!AcceptRight(input)
    [] part.of = "route" -> Route!Lossless(input) /\ Route!FirstCopied(input) /\ Route!Fits(input)
    [] part.of = "sdp" -> Sdp!StreamsRight(SdpText(input), m)
    [] part.of = "boundary" -> Sdp!DelimiterRight(input)
    [] OTHER -> TRUE

(* parse_uri.c, parse_via.c, parse_hname2.c: a parameter or a header has    *)
(* the type its name says, however it was come by.  sdp.c: an attribute is  *)
(* that of the payload its line, or the last line before it, names.         *)
NamesRight ==
  CASE part.of = "uri" -> Uri!ParamsFound(m, input)
    [] part.of = "via" -> Via!TypesRight(m, input)
    [] part.of = "to" -> To!TagRight(m, input)
    [] part.of = "contact" -> Contact!OwnHooks(input)
    [] part.of = "name" -> Name!NameRight(Text(input))
    [] part.of = "mime" -> Mime!TypeRight(input)
    [] part.of = "methods" -> Body!MethodsRight(input)
    [] part.of = "privacy" -> Body!PrivacyRight(input)
    [] part.of = "supported" -> Body!SupportedRight(input)
    [] part.of = "sst" -> Body!RefresherRight(input)
    [] part.of = "auth" -> Auth!FieldsRight(input) /\ Auth!CheckRight(input)
    [] part.of = "sdp" -> Sdp!AttributesRight(SdpText(input), m)
    [] OTHER -> TRUE

(* parse_via.c, parse_to.c, parse_cseq.c: a header ends where its last line *)
(* does.  parse_multipart.c: a part is what stands between two delimiters.  *)
EndsAtLine ==
  CASE part.of = "via" -> Via!EndsAtLine(m, input)
    [] part.of = "to" -> To!EndsAtLine(m, input)
    [] part.of = "cseq" -> Body!CSeqRight(input)
    [] part.of = "mixed" -> Sdp!PartsRight(SdpText(input), m, "d")
    [] OTHER -> TRUE

(* msg_parser.c: a message in pieces is the message at once; msg leads to  *)
(* the headers and bodies it has.  msg_builder.c, via_builder.c: so it does *)
(* when it has been changed, and what is written is what it was changed to; *)
(* the calls crash on headers that were added or changed and no other.      *)
MessageRight ==
  CASE part.of = "msg" -> Msg!Incremental(m, input, After) /\ Msg!HooksRight(m)
    [] part.of = "build" -> Build!ContentRight(m) /\ Build!Filled(m) /\ Build!HooksRight(m) /\ Build!BranchRight(m)
                            /\ Build!CrashRight(m)
    [] part.of = "build_static" -> Build!ContentRight(m) /\ Build!Fits(m) /\ Build!HooksRight(m) /\ Build!CrashRight(m)
    [] part.of = "build_after" -> Build!ContentRight(m) /\ Build!Filled(m) /\ Build!CrashRight(m)
    [] OTHER -> TRUE

(* io_wait.c: a reactor works with what there is, and gives it back.        *)
(* map.c: a balanced tree that maps keys to values.  q_malloc.c,            *)
(* f_malloc.c: no block overlaps another or is lost, and a heap whose       *)
(* blocks are never shrunk refuses nothing it has room for.  sdp.c: what is *)
(* found in a copy is what is found in the original, that is freed once.    *)
StructuresRight ==
  CASE part.of \in {"sdp", "mixed"} -> /\ part.of = "sdp" => Sdp!CloneRight(SdpText(input), m)
                                       /\ Sdp!FreedOnce(m)
    [] part.of = "iowait" -> Io!MethodRight(input[1]) /\ Io!NothingHeld(input[1])
    [] part.of = "map" -> /\ Map!Balanced(m) /\ Map!Walked(m)
                          /\ Map!IsMap(m, Keys, {5, 6})
    [] part.of = "dns" -> Dns!DnsRight(m)
    [] part.of = "fm" -> Fm!Tiled(m) /\ Fm!ListsRight(m) /\ Fm!CallsRight(m, Sizes)
    [] part.of = "qm_shrink" -> Qm!Tiled(m) /\ Qm!ListsRight(m) /\ Qm!CallsRight(m, Sizes)
    [] part.of \in {"qm", "qm_join"} -> /\ Qm!Tiled(m) /\ Qm!ListsRight(m) /\ Qm!CallsRight(m, Sizes)
                                        /\ Qm!Accounted(m) /\ Qm!NotRefused(m, Sizes)
    [] OTHER -> TRUE
=============================================================================
