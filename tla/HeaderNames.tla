----------------------------- MODULE HeaderNames -----------------------------
(***************************************************************************)
(* src/core/parser/parse_hname2.c with keys.h and the case_*.h files: the  *)
(* name of a header is recognised four characters at a time.               *)
(*                                                                         *)
(* A text is a string in lower case.  Characters are compared after | 0x20,*)
(* which makes a letter small, a CR a "-" and the NUL behind the text " ". *)
(***************************************************************************)
EXTENDS Integers, Sequences, TLC, FiniteSetsExt

LOWER_BYTE(c) == IF c = "\r" THEN "-" ELSE c

RawByte(text, p) == IF p \in 1 .. Len(text) THEN SubSeq(text, p, p) ELSE "NUL"
Byte(text, p) == IF p \in 1 .. Len(text) THEN LOWER_BYTE(SubSeq(text, p, p)) ELSE " "

(* READ(p), folded. *)
Chunk(text, p) == Byte(text, p) \o Byte(text, p + 1) \o Byte(text, p + 2) \o Byte(text, p + 3)

-----------------------------------------------------------------------------
(* What is done after a chunk: the name has ended in ":"; the name is       *)
(* known, ":" is still to come; or the next chunk is read, and if none of   *)
(* arms is it, the single letters of tail may come.                         *)

Colon(type, len) == [does |-> "colon", type |-> type, len |-> len]
Open(type) == [does |-> "open", type |-> type]
Node(arms, tail, type) == [does |-> "read", arms |-> arms, tail |-> tail, type |-> type]
Read(arms) == Node(arms, "", "other")
Tail1(tail, type) == Node(<<>>, tail, type)

(* The blank in the place of the ":" forgotten. *)
Ends_bug(xyz, type, len) == (xyz \o ":") :> Colon(type, len)

(* "xyz:" or "xyz ". *)
Ends(xyz, type, len) == (xyz \o ":") :> Colon(type, len) @@ (xyz \o " ") :> Open(type)

via == Ends("via", "via", 3)
from == "from" :> Open("from")
to == "to: " :> Colon("to", 2)
cseq == "cseq" :> Open("cseq")
call == "call" :> Read(Ends("-id", "callid", 7))

DISPOSITION == "disp" :> Read("osit" :> Read(Ends("ion", "content_disposition", 19)))
TH == Node("th: " :> Colon("content_length", 14), "th", "content_length")
CONTENT == "leng" :> TH @@ "type" :> Open("content_type") @@ DISPOSITION
cont == "cont" :> Read(Ends("act", "contact", 7) @@ "ent-" :> Read(CONTENT))

rout == "rout" :> Tail1("e", "route")
max == "max-" :> Read("forw" :> Read("ards" :> Open("maxforwards")))
reco == "reco" :> Read("rd-r" :> Read("oute" :> Open("record_route")))
auth == "auth" :> Read("oriz" :> Read("atio" :> Tail1("n", "authorization")))
expi == "expi" :> Read(Ends("res", "expires", 7))

THOR == "thor" :> Read("izat" :> Read(Ends("ion", "proxy_auth", 19)))
prox == "prox" :> Read("y-au" :> Read(THOR)
                       @@ "y-re" :> Read("quir" :> Tail1("e", "proxy_require")))

allo == "allo" :> Tail1("w", "allow")
path == "path" :> Tail1(":", "path")
unsu == "unsu" :> Read("ppor" :> Read(Ends("ted", "unsupported", 11)))
even == "even" :> Tail1("t", "event")

(* _pt_d_ of keys.h:115 is the number of "ptad", not of "pt-d". *)
_pt_d_ == "ptad"
ISPO == "ispo" :> Read("siti" :> Tail1("on", "accept_disposition"))
acce == "acce" :> Node("pt-l" :> Read("angu" :> Read(Ends("age", "accept_language", 15)))
                       @@ _pt_d_ :> Read(ISPO),
                       "pt", "accept")

orga == "orga" :> Read("niza" :> Read("tion" :> Open("organization")))
prio == "prio" :> Read("rity" :> Open("priority"))
subj == "subj" :> Read(Ends("ect", "subject", 7))
user == "user" :> Read("-age" :> Tail1("nt", "user_agent"))
supp == "supp" :> Read("orte" :> Tail1("d", "supported"))
dive == "dive" :> Read("rsio" :> Tail1("n", "diversion"))
remo == "remo" :> Read("te-p" :> Read("arty" :> Read(Ends("-id", "rpid", 15))))
refe == "refe" :> Read("r-to" :> Open("refer_to"))
sess == "sess" :> Read("ion-" :> Read("expi" :> Read(Ends("res", "session_expires", 15))))
min == "min-" :> Tail1("se", "min_se")

IDEN == "iden" :> Read("tity" :> Open("ppi"))
p_pr == "p-pr" :> Read("efer" :> Read("red-" :> Read(IDEN)))
DENT == "dent" :> Read(Ends("ity", "pai", 19))
p_as == "p-as" :> Read("sert" :> Read("ed-i" :> Read(DENT)))

priv == "priv" :> Read(Ends("acy", "privacy", 7))
retr == "retr" :> Read("y-af" :> Read(Ends("ter", "retry_after", 11)))

FIRST_QUATERNIONS ==
  via @@ from @@ to @@ cseq @@ call @@ cont @@ rout @@ max @@ reco @@ auth @@ supp @@ expi
  @@ prox @@ allo @@ path @@ unsu @@ even @@ acce @@ orga @@ prio @@ subj @@ user @@ dive
  @@ remo @@ refe @@ sess @@ min @@ p_pr @@ p_as @@ priv @@ retr

Compact == "t" :> "to" @@ "v" :> "via" @@ "f" :> "from" @@ "i" :> "callid" @@ "m" :> "contact"
           @@ "l" :> "content_length" @@ "k" :> "supported" @@ "c" :> "content_type"
           @@ "o" :> "event" @@ "x" :> "session_expires"

-----------------------------------------------------------------------------
(* The header: its type, the length of its name, and where the body begins; *)
(* "beyond" is a search that began behind the end of the text, where        *)
(* end - p is a huge unsigned number.                                       *)
Hdr(type, len, p) == [type |-> type, len |-> len, p |-> p]
NoColon == Hdr("error", 0, 0)

other(text, p) ==
  IF p > Len(text) + 1 THEN Hdr("beyond", 0, p)
  ELSE LET colons == { i \in p .. Len(text) : SubSeq(text, i, i) = ":" }
       IN IF colons = {} THEN NoColon
          ELSE Hdr("other", Min(colons) - 1, Min(colons) + 1)

skip_ws(text, p) ==
  Min({ i \in p .. Len(text) : SubSeq(text, i, i) \notin {" ", "\t"} } \union {Len(text) + 1})

dc_end(text, p, type) ==
  LET q == skip_ws(text, p)
  IN CASE p > Len(text) + 1 -> Hdr("beyond", 0, p)
       [] p <= Len(text) + 1 /\ RawByte(text, q) = ":" -> Hdr(type, q - 1, q + 1)
       [] OTHER -> other(text, q)

(* The letters of a tail, one at a time. *)
Letters(text, p, node) ==
  LET same == { k \in 1 .. Len(node.tail) : Byte(text, p + k - 1) = SubSeq(node.tail, k, k) }
      n == Max({ k \in 0 .. Len(node.tail) : 1 .. k \subseteq same })
  IN CASE node.type = "path" /\ n = 1 -> dc_end(text, p, "path")   (* ":" is only looked at *)
       [] node.type # "path" /\ node.tail # "" /\ n = Len(node.tail) ->
            dc_end(text, p + n, node.type)
       [] OTHER -> other(text, IF node.type \in {"path", "min_se"} THEN p ELSE p + n)

RECURSIVE Walk(_, _, _)
Walk(text, p, node) ==
  LET val == Chunk(text, p)
  IN IF val \notin DOMAIN node.arms THEN Letters(text, p, node)
     ELSE LET arm == node.arms[val]
          IN CASE arm.does = "colon" -> Hdr(arm.type, arm.len, p + 4)
               [] arm.does = "open" -> dc_end(text, p + 4, arm.type)
               [] arm.does = "read" -> Walk(text, p + 4, arm)

PARSE_COMPACT(text) ==
  LET letter == Byte(text, 1)
      next == IF letter = "t" THEN Byte(text, 2) ELSE RawByte(text, 2)
  IN CASE letter \in DOMAIN Compact /\ next = ":" -> Hdr(Compact[letter], 1, 3)
       [] letter \in DOMAIN Compact /\ next = " " -> dc_end(text, 3, Compact[letter])
       [] letter = "t" /\ next = "o" -> dc_end(text, 3, "to")
       [] OTHER -> other(text, 1)

parse_hname2(text) ==
  CASE Len(text) < 4 -> Hdr("error", 0, 1)
    [] Len(text) >= 4 /\ Chunk(text, 1) \in DOMAIN FIRST_QUATERNIONS ->
         Walk(text, 1, Read(FIRST_QUATERNIONS))
    [] OTHER -> PARSE_COMPACT(text)

-----------------------------------------------------------------------------
(* The names of the headers and their types, hf.h and the file comments. *)
TypeOfName ==
  "via" :> "via" @@ "from" :> "from" @@ "to" :> "to" @@ "cseq" :> "cseq"
  @@ "call-id" :> "callid" @@ "contact" :> "contact" @@ "content-type" :> "content_type"
  @@ "content-length" :> "content_length" @@ "content-disposition" :> "content_disposition"
  @@ "route" :> "route" @@ "max-forwards" :> "maxforwards" @@ "record-route" :> "record_route"
  @@ "path" :> "path" @@ "authorization" :> "authorization" @@ "expires" :> "expires"
  @@ "proxy-authorization" :> "proxy_auth" @@ "proxy-require" :> "proxy_require"
  @@ "allow" :> "allow" @@ "unsupported" :> "unsupported" @@ "event" :> "event"
  @@ "accept" :> "accept" @@ "accept-language" :> "accept_language"
  @@ "accept-disposition" :> "accept_disposition" @@ "organization" :> "organization"
  @@ "priority" :> "priority" @@ "subject" :> "subject" @@ "user-agent" :> "user_agent"
  @@ "supported" :> "supported" @@ "diversion" :> "diversion" @@ "remote-party-id" :> "rpid"
  @@ "refer-to" :> "refer_to" @@ "session-expires" :> "session_expires" @@ "min-se" :> "min_se"
  @@ "p-preferred-identity" :> "ppi" @@ "p-asserted-identity" :> "pai"
  @@ "privacy" :> "privacy" @@ "retry-after" :> "retry_after" @@ Compact

Names == DOMAIN TypeOfName

(* Names whose arms hold a blank: a tab in its place is not taken for one,  *)
(* and Path is only known with its ":" right behind it.                     *)
NeedBlank == {"via", "call-id", "contact", "content-disposition", "expires",
              "proxy-authorization", "unsupported", "accept-language", "subject",
              "remote-party-id", "session-expires", "p-asserted-identity", "privacy",
              "retry-after"} \union DOMAIN Compact

(* The name before the first ":" with the blanks behind it left out has the *)
(* type the table says, its length is what stands before the ":", and the   *)
(* body begins behind it.                                                   *)
NameHasType(text, Exempt(_, _)) ==
  LET h == parse_hname2(text)
      colons == { i \in 1 .. Len(text) : SubSeq(text, i, i) = ":" }
      colon == Min(colons)
      upto == Max({0} \union { i \in 1 .. colon - 1 : SubSeq(text, i, i) \notin {" ", "\t"} })
      name == SubSeq(text, 1, upto)
      behind == SubSeq(text, upto + 1, upto + 1)
  IN CASE Len(text) < 4 -> h.type = "error"
       [] Len(text) >= 4 /\ colons = {} -> h.type \in {"error", "beyond"}
       [] OTHER -> /\ h.len = colon - 1
                   /\ h.p \in {colon + 1, colon + 2}
                   /\ h.type = IF name \in Names /\ ~ Exempt(name, behind) THEN TypeOfName[name] ELSE "other"

(* The texts the code is known not to recognise. *)
Quirk(name, behind) == \/ name \in NeedBlank /\ behind = "\t"
                       \/ name = "path" /\ behind # ":"
                       \/ name = "accept-disposition"

NameRight(text) == NameHasType(text, Quirk)

(* Every header of hf.h is known by its name. *)
Spelt(text) == NameHasType(text, LAMBDA name, behind : behind # ":")

=============================================================================
