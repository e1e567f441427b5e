--------------------------------- MODULE Mime ---------------------------------
(***************************************************************************)
(* src/core/parser/parse_content.c: the bodies of Content-Type, a type     *)
(* with its parameters, and of Accept, a list of types.                    *)
(***************************************************************************)
EXTENDS ParamList

Types == <<"text", "message", "multipart", "application">>
Subtypes == <<"plain", "pidf+xml", "sdp", "simple-message-summary", "cpim", "cpl+xml", "rlmi+xml",
              "related", "lpidf+xml", "watcherinfo+xml", "xpidf+xml", "xml+msrtc.pidf",
              "external-body", "mixed">>

Letter(name, k) == SubSeq(name, k, k)
mime_char == { Letter("abcdefghijklmnopqrstuvwxyz-+.", k) : k \in 1 .. 29 }
submime_char == mime_char \union {"_"}

(* The tree of the names: its node [i, k] is the k-th letter of name i and  *)
(* of those that begin as it does.                                          *)
NoNode == [i |-> 0, k |-> 0]
Root == [i |-> 1, k |-> 1]
Siblings(names, node) ==
  { j \in node.i .. Len(names) :
      Len(names[j]) >= node.k /\ SubSeq(names[j], 1, node.k - 1) = SubSeq(names[node.i], 1, node.k - 1) }

Final_bug(names, node) ==
  IF node # NoNode /\ node.k >= Len(names[node.i]) - 1 THEN names[node.i] ELSE "unknown"

Final(names, node) ==
  IF node # NoNode /\ node.k = Len(names[node.i]) THEN names[node.i] ELSE "unknown"

(* The node behind c: the letter after it, or c's own when it is the last.  *)
Descend(names, node, c) ==
  LET same == { j \in Siblings(names, node) : Letter(names[j], node.k) = c }
  IN IF node = NoNode THEN NoNode
     ELSE IF same = {} THEN NoNode
     ELSE [i |-> Min(same), k |-> Min({node.k + 1, Len(names[Min(same)])})]

Decode(names, word) == Final(names, FoldLeft(LAMBDA n, c : Descend(names, n, c), Root, word))

-----------------------------------------------------------------------------
(* decode_mime_type: the type, the parameters and where it ended. *)

Skip(text, i, end) ==
  Min({ k \in i .. end - 1 :
          ~ (At(text, k) = "SP" \/ (At(text, k) = "LF" /\ At(text, k + 1) = "SP")) } \union {end})

(* A name from i on: where it ends, and what it is. *)
Name(text, i, end, chars, names) ==
  LET to == Min({ k \in i .. end - 1 : At(text, k) \notin chars } \union {end})
  IN IF At(text, i) = "*" THEN [to |-> i + 1, is |-> "all"]
     ELSE [to |-> to, is |-> Decode(names, Chars(text, Str(i, to - i)))]

NoMime == [ok |-> FALSE, type |-> "unknown", sub |-> "unknown", list |-> <<>>, to |-> 0]

(* Parameters are parsed, ";" and all, for a Content-Type, and skipped for  *)
(* an Accept.                                                               *)
Rest(text, p, end, con) ==
  CASE p < end /\ At(text, p) = ";" /\ con -> parse_params(text, Str(p, end - p), "ANY")
    [] p < end /\ At(text, p) = ";" /\ ~ con ->
         Success(<<>>, NoHooks("ANY"), Str(FirstIn(text, Str(p + 1, end - p - 1), {","}), 0))
    [] OTHER -> Success(<<>>, NoHooks("ANY"), Str(p, 0))

decode_mime_type(text, str, con) ==
  LET end == End(str)
      i == Skip(text, str.s, end)
      Whole(type, sub, rest) ==
        IF /\ rest.ok
           /\ rest.rest.s = end \/ At(text, rest.rest.s) = ","
           /\ type = "all" => sub = "all"
        THEN [ok |-> TRUE, type |-> type, sub |-> sub, list |-> rest.list, to |-> rest.rest.s]
        ELSE NoMime
      Sub(type, k, sub) ==
        IF k < end /\ sub.to > k
        THEN Whole(type, sub.is, Rest(text, Skip(text, sub.to, end), end, con)) ELSE NoMime
      Slash(type, p) ==
        LET k == Skip(text, p + 1, end)
        IN IF p < end /\ At(text, p) = "/"
           THEN Sub(type, k, Name(text, k, end, submime_char, Subtypes)) ELSE NoMime
      Type(type) ==
        IF i < end /\ type.to > i /\ (type.is = "all" \/ type.to < end)
        THEN Slash(type.is, Skip(text, type.to, end)) ELSE NoMime
  IN Type(Name(text, i, end, mime_char, Types))

-----------------------------------------------------------------------------
(* parse_content_type_hdr: one type, no wildcards; boundary and start are  *)
(* the last parameters of these names.                                     *)
LastNamed(text, list, name) ==
  LET named == { i \in DOMAIN list : Chars(text, list[i].name) = <<name>> }
  IN IF named = {} THEN NoStr ELSE list[Max(named)].body

ContentType(text, mime) ==
  [ok |-> mime.ok /\ mime.to = Len(text) + 1 /\ mime.type # "all" /\ mime.sub # "all",
   type |-> mime.type, sub |-> mime.sub,
   boundary |-> LastNamed(text, mime.list, "boundary"),
   start |-> LastNamed(text, mime.list, "start")]

parse_content_type(text) == ContentType(text, decode_mime_type(text, Str(1, Len(text)), TRUE))

(* parse_accept_hdr: up to MAX_MIMES_NR types. *)
MAX_MIMES_NR == 128
RECURSIVE Mimes(_, _, _)

MoreMimes(text, str, mimes, mime) ==
  CASE ~ mime.ok \/ Len(mimes) > MAX_MIMES_NR -> <<>>
    [] mime.ok /\ Len(mimes) <= MAX_MIMES_NR /\ mime.to = End(str) -> mimes
    [] OTHER -> IF mime.to + 1 = End(str) THEN <<>>
                ELSE Mimes(text, Move(str, mime.to + 1 - str.s), mimes)

Mimes(text, str, mimes) ==
  LET Next(mime) == MoreMimes(text, str, Append(mimes, <<mime.type, mime.sub>>), mime)
  IN Next(decode_mime_type(text, str, FALSE))

parse_accept(text) == Mimes(text, Str(1, Len(text)), <<>>)

-----------------------------------------------------------------------------
(* Properties *)

Squeeze(text) == SelectSeq(text, LAMBDA c : c \notin {"SP", "LF"})

Spelling(name) == [k \in 1 .. Len(name) |-> Letter(name, k)]

(* What is decoded as a name is that name, but for its last letter, which   *)
(* may be missing or there more than once.                                  *)
Like(word, name) ==
  LET s == Spelling(name)
  IN /\ IsPrefix(Front(s), word)
     /\ \A k \in DOMAIN word : k > Len(s) - 1 => word[k] = Last(s)

TypeWord(text) == SubSeq(text, 1, SelectInSeq(text, LAMBDA c : c = "/") - 1)
SubWord(text) ==
  SubSeq(text, Len(TypeWord(text)) + 2, FirstIn(text, Str(1, Len(text)), {";"}) - 1)

RightName(word, name, names) ==
  /\ name \in Range(names) => Like(word, name)
  /\ \A n \in Range(names) : word = Spelling(n) => name = n

(* The type of a Content-Type is what it says. *)
TypeRight(text) ==
  LET t == Squeeze(text)
      Right(h) == h.ok => RightName(TypeWord(t), h.type, Types) /\ RightName(SubWord(t), h.sub, Subtypes)
  IN Right(parse_content_type(text))

(* A list of types has every one of them. *)
AcceptRight(text) ==
  LET commas == { i \in DOMAIN text : text[i] = "," }
      ends == SetToSortSeq(commas \union {Len(text) + 1}, <)
      item(n) == SubSeq(text, IF n = 1 THEN 1 ELSE ends[n - 1] + 1, ends[n] - 1)
      Right(h) == h # <<>> => h = [n \in DOMAIN ends |-> parse_accept(item(n))[1]]
  IN Right(parse_accept(text))
=============================================================================
