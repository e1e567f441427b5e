------------------------------ MODULE MsgBuilder ------------------------------
(***************************************************************************)
(* src/core/builder: a message is changed by adding, removing, replacing   *)
(* and altering headers, and written to a new buffer; via_builder.c makes  *)
(* the Via of a request that is forwarded.                                 *)
(*                                                                         *)
(* A message m is [text, uri, first, unparsed, todo, hdr, headers, last,   *)
(* hook, new_len, new_uri, crashed]: the text it was parsed from, a sequence of     *)
(* bytes, with the URI at uri in a first line of first bytes; the headers  *)
(* not parsed yet; the fields of those that are, by number; the first of   *)
(* their list; last_header, which may be one that was removed; and, of     *)
(* each type, the headers msg leads to.  A message that crashed is left as *)
(* it was before the call.  Memory that is not to be had is left out.      *)
(***************************************************************************)
EXTENDS Integers, Sequences, SequencesExt, FiniteSetsExt

Msg == INSTANCE MsgParser

NULL == 0
CRLF == <<"CR", "LF">>
Colon == <<":", "SP">>

Bytes(text, from, len) == SubSeq(text, from, from + len - 1)

(* struct hdr_field; a header of the text is its name, body and line end.  *)
(* size is that of the buffer of a body of its own; vias are, of each body *)
(* of a parsed Via, what its branch is: "none", "plain" or "cookie".        *)
Field(type, from, name, body, flags) ==
  [type |-> type, from |-> from, len |-> -1, name |-> name, body |-> body,
   size |-> Len(body), flags |-> flags, vias |-> <<>>, next |-> NULL, prev |-> NULL, freed |-> FALSE]
Written(h) == h.name \o Colon \o h.body \o CRLF

(* A message of which nothing is parsed; new_len is set by handle_new_msg. *)
Message(line, uri, todo, end) ==
  LET text == line \o FlattenSeq([i \in DOMAIN todo |-> Written(todo[i])]) \o end
  IN [text |-> text, uri |-> uri, first |-> Len(line), unparsed |-> Len(line) + 1, todo |-> todo,
      hdr |-> <<>>, headers |-> NULL, last |-> NULL, hook |-> [t \in Msg!Known |-> <<>>],
      new_len |-> Len(text), new_uri |-> <<>>, crashed |-> FALSE]

Chained == Msg!ChainOf \union {"via"}

(* The first of a type, or one more of those of its type. *)
Link(hook, type, h) ==
  CASE type \in Chained -> [hook EXCEPT ![type] = Append(@, h)]
    [] type \in Msg!FirstOf -> [hook EXCEPT ![type] = IF @ = <<>> THEN <<h>> ELSE @]
    [] OTHER -> hook

Unlink(hook, type, h) == IF type \in Msg!Known THEN [hook EXCEPT ![type] = SelectSeq(@, LAMBDA x : x # h)]
                         ELSE hook

RECURSIVE ListFrom(_, _)
ListFrom(m, h) == IF h = NULL THEN <<>> ELSE <<h>> \o ListFrom(m, m.hdr[h].next)
List(m) == ListFrom(m, m.headers)

SetNext(m, h, x) == IF h = NULL THEN [m EXCEPT !.headers = x] ELSE [m EXCEPT !.hdr[h].next = x]
SetPrev(m, h, x) == IF h = NULL THEN m ELSE [m EXCEPT !.hdr[h].prev = x]

-----------------------------------------------------------------------------
(* parse_headers, by one header: it goes behind last_header. *)
ParseNext(m) ==
  LET h == Len(m.hdr) + 1
      spec == Head(m.todo)
      field == [Field(spec.type, m.unparsed, spec.name, spec.body, {})
                  EXCEPT !.len = Len(Written(spec)), !.size = 0, !.vias = spec.vias]
  IN SetNext([m EXCEPT !.hdr = Append(@, [field EXCEPT !.prev = m.last]), !.todo = Tail(@),
                       !.unparsed = @ + field.len, !.last = h, !.hook = Link(@, spec.type, h)],
             m.last, h)

RECURSIVE ParseAll(_)
ParseAll(m) == IF m.todo = <<>> THEN m ELSE ParseAll(ParseNext(m))

(* after = NULL: at the head of the list; an empty list's last_header is   *)
(* left as it is.  Behind another header, after->next is the new one when  *)
(* its prev is set, so that this is made to be itself, and last_header     *)
(* stays.  A header of the same type is found behind those there were,     *)
(* wherever the new one is put.                                            *)
add_hdr(m, name, body, type, after, flags) ==
  LET h == Len(m.hdr) + 1
      behind == IF after = NULL THEN m.headers ELSE m.hdr[after].next
      field == [Field(type, 0, name, body,
                      flags \union {"not_orig"} \union (IF "dup_body" \in flags THEN {"free_body"} ELSE {}))
                  EXCEPT !.next = behind, !.prev = IF after = NULL THEN NULL ELSE h]
      Linked(n) == SetNext(IF after = NULL THEN SetPrev(n, behind, h) ELSE n, after, h)
  IN Linked([m EXCEPT !.hdr = Append(@, field), !.hook = Link(@, type, h),
                      !.new_len = @ + Len(name) + Len(body) + 2])

(* A list that is now empty leaves last_header where it was. *)
rm_hdr_bug(m, h) ==
  LET f == m.hdr[h]
      prev == IF m.headers = h THEN NULL ELSE f.prev
  IN SetPrev(SetNext([m EXCEPT !.hdr[h].freed = TRUE,
                               !.new_len = @ - (IF "not_orig" \in f.flags THEN Len(f.name) + Len(f.body) + 2 ELSE f.len),
                               !.hook = Unlink(@, f.type, h)],
                     prev, f.next), f.next, prev)

rm_hdr(m, h) ==
  LET f == m.hdr[h]
      prev == IF m.headers = h THEN NULL ELSE f.prev
  IN SetPrev(SetNext([m EXCEPT !.hdr[h].freed = TRUE,
                               !.new_len = @ - (IF "not_orig" \in f.flags THEN Len(f.name) + Len(f.body) + 2 ELSE f.len),
                               !.last = IF prev # NULL /\ f.next = NULL THEN prev ELSE @,
                               !.hook = Unlink(@, f.type, h)],
                     prev, f.next), f.next, prev)

(* "explicitly added headers" whose body is in a buffer of its own. *)
Owned(f) == {"not_orig", "free_body"} \subseteq f.flags

(* "header from the initial message, or static buffer": its len is taken   *)
(* off what the message measured, and that of an added one is -1.          *)
Allocate(m, h, body, size) ==
  LET f == m.hdr[h]
  IN [m EXCEPT !.hdr[h] = [f EXCEPT !.body = body, !.size = size, !.len = -1, !.vias = <<>>,
                                    !.flags = @ \union {"free_body", "not_orig"}],
               !.new_len = @ - f.len + Len(f.name) + Len(body) + 2]

InPlace(m, h, body, grown) ==
  LET f == m.hdr[h]
  IN [m EXCEPT !.hdr[h] = [f EXCEPT !.body = body, !.len = -1, !.vias = <<>>, !.size = Max({@, grown})],
               !.new_len = @ + Len(body) - Len(f.body)]

(* The new body ends with CRLF. *)
replace_hdr_bug(m, h, body) ==
  IF Owned(m.hdr[h])
  THEN [InPlace(m, h, body, Len(body)) EXCEPT !.new_len = m.new_len]
  ELSE Allocate(m, h, body, Len(body))

replace_hdr(m, h, body) ==
  IF Owned(m.hdr[h]) THEN InPlace(m, h, body, Len(body)) ELSE Allocate(m, h, body, Len(body))

(* A null pointer is read. *)
Crash(m) == [m EXCEPT !.crashed = TRUE]

(* len bytes of the body from offset on become those of body, which is     *)
(* <<>> for NULL ("just remove"); those of a body that was allocated here  *)
(* already end in CRLF.  There body->len is read though body may be NULL.  *)
alter_hdr_bug(m, h, offset, len, body) ==
  LET f == m.hdr[h]
      new == SubSeq(f.body, 1, offset) \o FlattenSeq(body) \o SubSeq(f.body, offset + len + 1, Len(f.body))
  IN CASE offset + len > Len(f.body) -> m
       [] offset + len <= Len(f.body) /\ body = <<>> -> Crash(m)
       [] offset + len <= Len(f.body) /\ body # <<>> /\ Owned(f) -> InPlace(m, h, new, Len(new))
       [] OTHER -> Allocate(m, h, new \o CRLF, Len(new) + 2)

alter_hdr(m, h, offset, len, body) ==
  LET f == m.hdr[h]
      new == SubSeq(f.body, 1, offset) \o FlattenSeq(body) \o SubSeq(f.body, offset + len + 1, Len(f.body))
      fits == offset + len <= Len(f.body)
  IN CASE ~ fits -> m
       [] fits /\ Owned(f) /\ body = <<>> -> Crash(m)
       [] fits /\ Owned(f) /\ body # <<>> -> InPlace(m, h, new, Len(new))
       [] OTHER -> Allocate(m, h, new \o CRLF, Len(new) + 2)

-----------------------------------------------------------------------------
set_ruri(m, uri) == [m EXCEPT !.new_uri = uri]

(* The first line, with the new URI in place of the old one. *)
FirstLine(m) ==
  IF m.new_uri = <<>> THEN Bytes(m.text, 1, m.first)
  ELSE SubSeq(m.text, 1, m.uri - 1) \o m.new_uri \o SubSeq(m.text, m.uri + 1, m.first)

(* Headers as they were are copied together: as many bytes as they have,   *)
(* from where the first of them is.                                        *)
Copied(m, run) == Bytes(m.text, run.from, run.len)
NoRun == [from |-> 1, len |-> 0]

Header(m, acc, h) ==
  LET f == m.hdr[h]
  IN IF "not_orig" \in f.flags
     THEN [out |-> acc.out \o Copied(m, acc.run) \o f.name \o Colon \o f.body, run |-> NoRun]
     ELSE [acc EXCEPT !.run = [from |-> IF @.len = 0 THEN f.from ELSE @.from, len |-> @.len + f.len]]

construct_msg(m) ==
  LET done == FoldLeft(LAMBDA acc, h : Header(m, acc, h), [out |-> FirstLine(m), run |-> NoRun], List(m))
  IN [len |-> m.new_len + (IF m.new_uri = <<>> THEN 0 ELSE Len(m.new_uri) - 1),
      buf |-> done.out \o Copied(m, done.run) \o SubSeq(m.text, m.unparsed, Len(m.text))]

-----------------------------------------------------------------------------
(* via_builder: the branch, as <<header, number of the body>>, is that of  *)
(* the first Via that has the cookie, or of the last that has one.  The    *)
(* rest of the headers is parsed when the first Via has no such branch.    *)
BranchOf(m, headers) ==
  LET bodies == FlattenSeq([i \in DOMAIN headers |-> [k \in DOMAIN m.hdr[headers[i]].vias |-> <<headers[i], k>>]])
      Is(kinds) == SelectSeq(bodies, LAMBDA b : m.hdr[b[1]].vias[b[2]] \in kinds)
  IN CASE Is({"cookie"}) # <<>> -> Head(Is({"cookie"}))
       [] Is({"cookie"}) = <<>> /\ Is({"plain"}) # <<>> -> Last(Is({"plain"}))
       [] OTHER -> <<>>

(* [msg, branch] *)
get_sl_branch_bug(m) == [msg |-> m, branch |-> BranchOf(m, m.hook["via"])]

get_sl_branch(m) ==
  LET Vias(n) == [msg |-> n, branch |-> BranchOf(n, n.hook["via"])]
      first == BranchOf(m, SubSeq(m.hook["via"], 1, 1))
  IN IF m.hook["via"] = <<>> THEN Vias(m)
     ELSE IF first # <<>> /\ m.hdr[first[1]].vias[first[2]] = "cookie" THEN [msg |-> m, branch |-> first]
     ELSE Vias(ParseAll(m))

(* [msg, via]; of a protocol that is not known there is none. *)
via_builder(m, proto) ==
  LET found == get_sl_branch(m)
  IN [msg |-> found.msg,
      via |-> IF proto \notin {"UDP", "TCP", "TLS", "SCTP"} THEN <<>>
              ELSE <<"SIP/2.0/", proto, "address", ":", "port", ";branch=", found.branch>> \o CRLF]

(* handle_msg_continue: a request gets a Via more, a reply loses its first;*)
(* of a header with several, bytes 10 to 19 are taken for it.  A header    *)
(* that was added or changed has nothing parsed, and its parsed->next is   *)
(* read all the same.                                                      *)
forward(m, request, proto) ==
  LET top == Head(m.hook["via"])
      Request(built) == IF built.via = <<>> THEN built.msg
                        ELSE add_hdr(built.msg, <<"Via">>, built.via, "via", NULL, {"free_body"})
  IN IF request THEN Request(via_builder(m, proto))
     ELSE IF m.hdr[top].vias = <<>> THEN Crash(m)
     ELSE IF Len(m.hdr[top].vias) = 1 THEN rm_hdr(m, top)
     ELSE alter_hdr(m, top, 10, 10, <<>>)

-----------------------------------------------------------------------------
(* One call more.  A list is not emptied while there is more to parse (it  *)
(* would be put behind a header that is gone), and nothing is parsed or    *)
(* removed where headers are added behind others.                          *)
Calls(m, afters, types, bodies, flags, maxHeaders, maxBody) ==
  LET listed == ToSet(List(m))
      head == afters = {NULL}
      room == Len(m.hdr) < maxHeaders
      removable == head /\ (Cardinality(listed) > 1 \/ m.todo = <<>>)
      short == { h \in listed : Len(m.hdr[h].body) < maxBody }
  IN IF m.crashed THEN {} ELSE
     (IF m.todo # <<>> /\ head THEN {ParseNext(m)} ELSE {})
     \union (IF room /\ listed # {}
             THEN { add_hdr(m, <<"name">>, b, t, after, flags) :
                      b \in bodies, t \in types, after \in afters \intersect (listed \union {NULL}) }
             ELSE {})
     \union (IF removable THEN { rm_hdr(m, h) : h \in listed } ELSE {})
     \union { replace_hdr(m, h, b) : h \in listed, b \in bodies }
     \union { alter_hdr(m, h, 1, len, body) :
                h \in short, len \in {0, 1}, body \in {<<>>, <<<<>>>>, <<<<"x", "y">>>>} }
     \union (IF room /\ removable /\ m.hook["via"] # <<>>
             THEN { forward(m, request, "UDP") : request \in BOOLEAN } ELSE {})
     \union {set_ruri(m, <<"n", "u">>)}

-----------------------------------------------------------------------------
(* Unmodified headers that are neighbours in the list are neighbours in    *)
(* the text.                                                               *)
Contiguous(m) ==
  \A i \in 1 .. Len(List(m)) - 1 :
     LET f == m.hdr[List(m)[i]]
         g == m.hdr[List(m)[i + 1]]
     IN ("not_orig" \notin f.flags /\ "not_orig" \notin g.flags) => g.from = f.from + f.len

(* What the message is to be: the headers of the list, then what was not   *)
(* parsed.                                                                 *)
Meant(m) ==
  FirstLine(m) \o
  FlattenSeq([i \in DOMAIN List(m) |->
                LET f == m.hdr[List(m)[i]]
                IN IF "not_orig" \in f.flags THEN f.name \o Colon \o f.body ELSE Written(f)]) \o
  SubSeq(m.text, m.unparsed, Len(m.text))

(* construct_msg writes the message it is told to, as long as no header    *)
(* was removed from between two that are copied together.                  *)
ContentRight(m) == Contiguous(m) => construct_msg(m).buf = Meant(m)

(* The buffer allocated from new_len is filled exactly: nothing is written *)
(* behind it, and no byte is sent that was not written.                    *)
Filled(m) == Len(construct_msg(m).buf) = construct_msg(m).len

(* A body that is in nobody's buffer when it is replaced makes the buffer  *)
(* too long, never too short.                                              *)
Fits(m) == Len(construct_msg(m).buf) <= construct_msg(m).len

(* Whatever was added and removed, msg leads to the headers of each type   *)
(* there are, and to no other; the list can be walked both ways, ends at   *)
(* last_header and has no header that was freed.                           *)
HooksRight(m) ==
  /\ \A t \in Chained : /\ ToSet(m.hook[t]) = { h \in ToSet(List(m)) : m.hdr[h].type = t }
                        /\ IsInjective(m.hook[t])
  /\ \A t \in Msg!FirstOf : ToSet(m.hook[t]) \subseteq { h \in ToSet(List(m)) : m.hdr[h].type = t }
  /\ List(m) # <<>> => m.last = Last(List(m))
  /\ \A i \in DOMAIN List(m) : m.hdr[List(m)[i]].prev = (IF i = 1 THEN NULL ELSE List(m)[i - 1])
  /\ \A h \in ToSet(List(m)) : ~ m.hdr[h].freed

(* The calls crash on what was changed before and on nothing else: a       *)
(* message that crashed has a header whose body is in a buffer of its own, *)
(* or its first Via was added or changed.                                  *)
CrashRight(m) ==
  m.crashed => \/ \E h \in ToSet(List(m)) : Owned(m.hdr[h])
               \/ m.hook["via"] # <<>> /\ "not_orig" \in m.hdr[Head(m.hook["via"])].flags

(* The Via of a forwarded request has the branch all the Vias of the       *)
(* message determine, however many of them were parsed before (of the      *)
(* first it is assumed).                                                   *)
BranchRight(m) ==
  m.hook["via"] # <<>> => get_sl_branch(m).branch = BranchOf(ParseAll(m), ParseAll(m).hook["via"])
=============================================================================
