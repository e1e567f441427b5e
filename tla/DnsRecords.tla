----------------------------- MODULE DnsRecords -----------------------------
(***************************************************************************)
(* src/core/resolve/parsers.c: the records of a DNS reply are read into a  *)
(* list (parse_record), and of those SRV records are put in an order drawn *)
(* by their weights (sort_srvs), NAPTR records are filtered and sorted     *)
(* (filter_and_sort_naptr).                                                *)
(*                                                                         *)
(* reply is [questions, answers, size]: how long the name of each question *)
(* is, the records, and how many bytes there are, maybe fewer than the     *)
(* records take.  A record has a type, the length of its own name and the  *)
(* size of what follows its 10 bytes of type, class, ttl and length.  The  *)
(* text of a name is its length, or the target it stands for.              *)
(*                                                                         *)
(* t is a reply being worked on: do says by what.  It is "wild" when the   *)
(* data of a record that is not SRV is taken for that of a SRV record, and *)
(* memory it has not is read: anything may follow.                         *)
(***************************************************************************)
EXTENDS Integers, Sequences, SequencesExt, FiniteSetsExt

DNS_HDR_SIZE == 12
Fixed == 10

(* Records of each type: name is the length of the last name in them, the   *)
(* others, where it matters, the lengths of strings.                        *)
Srv(priority, weight, target, name) ==
  [type |-> "SRV", own |-> 2, size |-> 6 + name, priority |-> priority, weight |-> weight, target |-> target, name |-> name]
Naptr(order, pref, flags, services, regexp, name) ==
  [type |-> "NAPTR", own |-> 2, size |-> 7 + 1 + (IF services = "sips+d2t" THEN 8 ELSE 7) + regexp + name, order |-> order, pref |-> pref,
   flags |-> flags, services |-> services, regexp |-> regexp, name |-> name]
Ebl(position, separator, name) ==
  [type |-> "EBL", own |-> 2, size |-> 2 + separator + name, position |-> position, separator |-> separator, name |-> name]
Plain(type, size) == [type |-> type, own |-> 2, size |-> size]

Full(questions, answers) ==
  DNS_HDR_SIZE + FoldLeft(LAMBDA n, q : n + q + 4, 0, questions)
               + FoldLeft(LAMBDA n, r : n + r.own + Fixed + r.size, 0, answers)

(* dns_skipname: behind the name, or behind the reply. *)
dns_skipname(p, name, end) == IF p + name >= end THEN 0 ELSE p + name

dns_srv_parser(r, p, end) == p + 6 < end /\ p + r.size <= end
dns_naptr_parser(r, p, end) == p + 7 < end /\ p + r.size - r.name < end /\ p + r.size <= end
dns_cname_parser(r, p, end) == p + r.size <= end
(* Of these the last byte must not be the reply's last. *)
dns_a_parser(r, p, end) == p + r.size < end
dns_txt_parser(r, p, end) == p + r.size < end
(* The position is taken for a length too. *)
dns_ebl_parser(r, p, end) == /\ p + 1 + r.position < end /\ r.position <= 15
                             /\ p + 3 + r.separator < end /\ p + r.size <= end

Parsed(r, p, end) == CASE r.type = "SRV" -> dns_srv_parser(r, p, end)
                       [] r.type = "NAPTR" -> dns_naptr_parser(r, p, end)
                       [] r.type = "CNAME" -> dns_cname_parser(r, p, end)
                       [] r.type \in {"A", "AAAA"} -> dns_a_parser(r, p, end)
                       [] r.type = "TXT" -> dns_txt_parser(r, p, end)
                       [] r.type = "EBL" -> dns_ebl_parser(r, p, end)
                       [] OTHER -> TRUE  (* kept without data *)

NoReply == [do |-> "idle", reply |-> [questions |-> <<>>, answers |-> <<>>, size |-> 0], sips |-> FALSE, p |-> 0, read |-> 0,
            list |-> <<>>, group |-> <<>>, weight_sum |-> 0, out |-> <<>>]

Questions(reply) ==
  FoldLeft(LAMBDA p, q : LET n == dns_skipname(p, q, reply.size)
                         IN  IF p = 0 \/ n = 0 \/ n + 4 >= reply.size THEN 0 ELSE n + 4,
           IF DNS_HDR_SIZE >= reply.size THEN 0 ELSE DNS_HDR_SIZE, reply.questions)

Asked(reply, sips) == LET p == Questions(reply)
                      IN  [NoReply EXCEPT !.do = IF p = 0 THEN "null" ELSE "parse", !.reply = reply, !.sips = sips, !.p = p]

(* A SRV record is put where this holds of the next one.  What another      *)
(* record has for a priority and a weight is anything.                      *)
Before(r, s) == \/ r.priority < s.priority
                \/ r.priority = s.priority /\ (r.weight = 0 \/ s.weight # 0)
Data(type) == type \in {"SRV", "NAPTR", "CNAME", "A", "AAAA", "TXT", "EBL"}
MayStop(r, s) == IF s.type = "SRV" THEN Before(r, s) ELSE Data(s.type)
MayPass(r, s) == IF s.type = "SRV" THEN ~ Before(r, s) ELSE Data(s.type)
Reached(list, r) == { i \in 1 .. Len(list) + 1 : \A j \in 1 .. i - 1 : MayPass(r, list[j]) }
Inserted(t, r) ==
  { CASE i > Len(t.list) -> [t EXCEPT !.list = Append(@, r)]
      [] i <= Len(t.list) /\ Data(t.list[i].type) -> [t EXCEPT !.list = InsertAt(@, i, r)]
      [] OTHER -> [t EXCEPT !.do = "wild"] :
    i \in { j \in Reached(t.list, r) : j > Len(t.list) \/ ~ MayPass(r, t.list[j]) \/ MayStop(r, t.list[j]) } }

Failed(t) == {[t EXCEPT !.do = "null", !.list = <<>>]}

(* parse_record: one more answer, if there is one. *)
Record(t) ==
  LET r == t.reply.answers[t.read + 1]
      p == dns_skipname(t.p, r.own, t.reply.size)
      next == [t EXCEPT !.p = p + Fixed + r.size, !.read = @ + 1]
  IN  IF t.read = Len(t.reply.answers) \/ t.p >= t.reply.size THEN {[t EXCEPT !.do = "read"]}
      ELSE IF p = 0 \/ p + Fixed >= t.reply.size \/ ~ Parsed(r, p + Fixed, t.reply.size) THEN Failed(t)
      ELSE IF r.type = "SRV" THEN Inserted(next, r)
      ELSE {[next EXCEPT !.list = Append(@, r)]}

(* filter_and_sort_naptr.  The other protocols are not compiled in.         *)
Supported(n, sips) ==
  /\ n.type = "NAPTR" /\ n.flags = "s" /\ n.name # 0 /\ n.regexp = 0
  /\ n.services \in IF sips THEN {"sips+d2t"} ELSE {"sip+d2u", "sip+d2t"}
get_naptr_proto(n) == CASE n.services = "sips+d2t" -> "TLS"
                        [] n.services = "sip+d2u" -> "UDP"
                        [] n.services = "sip+d2t" -> "TCP"

(* naptr_prio(m) <= naptr_prio(n): order and pref are the two halves of it. *)
naptr_prio(m, n) == m.order < n.order \/ (m.order = n.order /\ m.pref <= n.pref)
PlaceOf_bug(kept, n) == IF kept = <<>> \/ naptr_prio(n, kept[1]) THEN 1 ELSE Len(kept) + 1
PlaceOf(kept, n) ==
  CASE kept = <<>> -> 1
    [] kept # <<>> /\ naptr_prio(n, kept[1]) -> 1
    [] kept # <<>> /\ ~ naptr_prio(n, kept[1]) /\ naptr_prio(Last(kept), n) -> Len(kept) + 1
    [] OTHER -> Min({ i \in 2 .. Len(kept) : i = Len(kept) \/ naptr_prio(n, kept[i]) })

filter_and_sort_naptr(t) ==
  [t EXCEPT !.do = "naptr", !.list = <<>>,
            !.out = FoldLeft(LAMBDA kept, n : IF Supported(n, t.sips) THEN InsertAt(kept, PlaceOf(kept, n), n)
                                              ELSE kept, <<>>, t.list)]

(* sort_srvs.  A record of a group has the sum of the weights up to its own, *)
(* in 16 bits.                                                              *)
Group(list) ==
  LET other == { i \in 2 .. Len(list) : list[i].type # "SRV" \/ list[i].priority # list[1].priority }
  IN  IF other = {} THEN Len(list) ELSE Min(other) - 1
Weight(group) == FoldLeft(LAMBDA n, r : n + r.weight, 0, group)
Sums(group) == [i \in DOMAIN group |-> [r |-> group[i], sum |-> Weight(SubSeq(group, 1, i)) % 65536]]

NextGroup(t) ==
  LET n == Group(t.list)
      rest == [t EXCEPT !.list = SubSeq(@, n + 1, Len(@))]
      group == SubSeq(t.list, 1, n)
      next == IF n < Len(t.list) THEN t.list[n + 1].type ELSE "SRV"
  IN  IF t.list[1].type # "SRV" THEN {[t EXCEPT !.list = Tail(@)]}
      ELSE (IF ~ Data(next) THEN {}
            ELSE IF n = 1 THEN {[rest EXCEPT !.out = Append(@, group[1])]}
            ELSE {[rest EXCEPT !.group = Sums(group), !.weight_sum = Weight(group)]})
           \union (IF next = "SRV" THEN {} ELSE {[t EXCEPT !.do = "wild"]})

(* The record a random number falls to: the first, should it fall to none.  *)
Chosen(group, rand_no) == LET those == { i \in DOMAIN group : group[i].sum >= rand_no }
                          IN  IF those = {} THEN 1 ELSE Min(those)
(* Numbers between which Chosen may differ. *)
Draws(t) == {0, t.weight_sum} \union { d \in UNION { {x.sum, x.sum + 1} : x \in ToSet(t.group) } : d <= t.weight_sum }

(* The sums behind the record are without it, those before it never had it. *)
WithoutChosen_bug(t, i) == [t EXCEPT !.group = RemoveAt(@, i), !.weight_sum = @ - t.group[i].r.weight, !.out = Append(@, t.group[i].r)]
WithoutChosen(t, i) ==
  LET w == t.group[i].r.weight
      less == [j \in DOMAIN t.group |-> IF j > i THEN [t.group[j] EXCEPT !.sum = (@ - w) % 65536] ELSE t.group[j]]
  IN  [t EXCEPT !.group = RemoveAt(less, i), !.weight_sum = @ - w, !.out = Append(@, t.group[i].r)]
Draw(t) == IF Len(t.group) = 1 THEN {[t EXCEPT !.group = <<>>, !.out = Append(@, t.group[1].r)]}
           ELSE { WithoutChosen(t, Chosen(t.group, d)) : d \in Draws(t) }

sort_srvs(t) == IF t.group # <<>> THEN Draw(t)
                ELSE IF t.list = <<>> THEN {[t EXCEPT !.do = "sorted"]}
                ELSE NextGroup(t)

(* What is done with t next; a DNS reply for a user (get_record) is read    *)
(* only.                                                                    *)
After(t) == CASE t.do = "parse" -> Record(t)
              [] t.do = "read" -> {[t EXCEPT !.do = "srv"], filter_and_sort_naptr(t)}
              [] t.do = "srv" -> sort_srvs(t)
              [] OTHER -> {}

Types(t) == { r.type : r \in ToSet(t.reply.answers) }
Count(s, r) == Cardinality({ i \in DOMAIN s : s[i] = r })
Sorted(s, Leq(_, _)) == \A i, j \in DOMAIN s : i < j => Leq(s[i], s[j])

(* A reply that is whole is read to its end, one that is cut off within a   *)
(* record is not read at all, and what is read is what it holds.            *)
ReadRight(t) ==
  LET all == t.reply.answers
      whole == t.reply.size = Full(t.reply.questions, all)
  IN  /\ t.do = "null" => ~ whole \/ all = <<>> \/ Last(all).type \in {"A", "AAAA", "TXT", "EBL"}
      /\ t.do = "read" => /\ whole => t.read = Len(all)
                          /\ t.p <= t.reply.size
                          /\ \A r \in ToSet(all) : Count(t.list, r) = Count(SubSeq(all, 1, t.read), r)

(* SRV records are read by priority, those without a weight first; others   *)
(* keep their order.                                                        *)
ReadInOrder(t) ==
  t.do = "read" =>
    /\ Types(t) = {"SRV"} =>
         Sorted(t.list, LAMBDA r, s : r.priority < s.priority \/ (r.priority = s.priority /\ (s.weight = 0 => r.weight = 0)))
    /\ LET Others(s) == SelectSeq(s, LAMBDA r : r.type # "SRV")
       IN  Others(t.list) = Others(SubSeq(t.reply.answers, 1, t.read))

(* Every SRV record is in the list, after those of a smaller priority.      *)
SrvRight(t) ==
  /\ t.do = "sorted" => \A r \in ToSet(t.reply.answers) :
       r.type = "SRV" => Count(t.out, r) = Count(SubSeq(t.reply.answers, 1, t.read), r)
  /\ t.do = "sorted" => \A r \in ToSet(t.out) : r.type = "SRV"
  /\ t.do \in {"srv", "sorted"} /\ Types(t) = {"SRV"} => Sorted(t.out, LAMBDA r, s : r.priority <= s.priority)

(* Of the numbers that may be drawn as many fall to a record as it weighs,  *)
(* and 0 to the first, however many were taken before: for weights that     *)
(* 16 bits can sum.                                                         *)
DrawnByWeight(t) ==
  t.group # <<>> /\ t.weight_sum < 10 =>
    /\ t.weight_sum = Weight([i \in DOMAIN t.group |-> t.group[i].r])
    /\ \A i \in DOMAIN t.group :
         Cardinality({ d \in 0 .. t.weight_sum : Chosen(t.group, d) = i }) = t.group[i].r.weight + IF i = 1 THEN 1 ELSE 0

(* Exactly the services that can be used are left, the preferred ones first. *)
NaptrRight(t) ==
  t.do = "naptr" =>
    /\ Sorted(t.out, naptr_prio)
    /\ \A n \in ToSet(t.reply.answers) :
         Count(t.out, n) = IF Supported(n, t.sips) THEN Count(SubSeq(t.reply.answers, 1, t.read), n) ELSE 0
    /\ \A n \in ToSet(t.out) : get_naptr_proto(n) = "TLS" <=> t.sips

(* No SRV record is compared with anything but a SRV record, if there is     *)
(* nothing else.                                                            *)
OnlySrvCompared(t) == t.do = "wild" => "SRV" \in Types(t) /\ Types(t) # {"SRV"}

DnsRight(t) == /\ ReadRight(t) /\ ReadInOrder(t) /\ SrvRight(t) /\ DrawnByWeight(t)
               /\ NaptrRight(t) /\ OnlySrvCompared(t)
=============================================================================
