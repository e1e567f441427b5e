-------------------------------- MODULE AvlMap --------------------------------
(***************************************************************************)
(* src/core/map.c: the ordered map, an AVL tree whose nodes know their     *)
(* parents.                                                                *)
(*                                                                         *)
(* A node is named by its key; no two have the same.  The code's mirrored  *)
(* branches for the left and the right side are written once, for a side:  *)
(* link[Left] is avl_link[0].  The copy of the key, and memory that is not *)
(* to be had (the map is then unchanged, or the copy goes through a null   *)
(* pointer), are left out.                                                 *)
(***************************************************************************)
EXTENDS Integers, Sequences, SequencesExt, FiniteSetsExt

NULL == 0       \* no node; keys are positive
Left == 1
Right == 2
Other(d) == 3 - d
Sign(d) == 2 * d - 3    \* of a balance that leans to d
Dir(key, p) == IF key > p THEN Right ELSE Left

map_create == [root |-> NULL, count |-> 0, node |-> <<>>]

Link(t, p, d) == t.node[p].link[d]
Side(t, q, p) == IF q = NULL \/ Link(t, q, Left) = p THEN Left ELSE Right

SetLink(t, q, d, x) == IF q = NULL THEN [t EXCEPT !.root = x] ELSE [t EXCEPT !.node[q].link[d] = x]
SetParent(t, x, p) == IF x = NULL THEN t ELSE [t EXCEPT !.node[x].parent = p]
SetBalance(t, x, b) == [t EXCEPT !.node[x].bal = b]

-----------------------------------------------------------------------------
(* Rotations of y, whose side d is two levels higher *)

Rotate(t, y, d) ==
  LET x == Link(t, y, d)
      inner == Link(t, x, Other(d))
  IN SetParent([t EXCEPT !.node[y].link[d] = inner, !.node[x].link[Other(d)] = y,
                         !.node[x].parent = t.node[y].parent, !.node[y].parent = x],
               inner, y)

RotateTwice_bug(t, y, d) ==
  LET x == Link(t, y, d)
      w == Link(t, x, Other(d))
      Turn(lean, a, b) ==
        SetParent(SetParent(
          [t EXCEPT !.node[x].link[Other(d)] = a, !.node[w].link[d] = x,
                    !.node[y].link[d] = b, !.node[w].link[Other(d)] = y,
                    !.node[x].bal = IF lean = - Sign(d) THEN Sign(d) ELSE 0,
                    !.node[y].bal = 0,
                    !.node[w].bal = 0,
                    !.node[w].parent = t.node[y].parent,
                    !.node[x].parent = w, !.node[y].parent = w],
          a, x), b, y)
  IN Turn(t.node[w].bal, Link(t, w, d), Link(t, w, Other(d)))

RotateTwice(t, y, d) ==
  LET x == Link(t, y, d)
      w == Link(t, x, Other(d))
      Turn(lean, a, b) ==
        SetParent(SetParent(
          [t EXCEPT !.node[x].link[Other(d)] = a, !.node[w].link[d] = x,
                    !.node[y].link[d] = b, !.node[w].link[Other(d)] = y,
                    !.node[x].bal = IF lean = - Sign(d) THEN Sign(d) ELSE 0,
                    !.node[y].bal = IF lean = Sign(d) THEN - Sign(d) ELSE 0,
                    !.node[w].bal = 0,
                    !.node[w].parent = t.node[y].parent,
                    !.node[x].parent = w, !.node[y].parent = w],
          a, x), b, y)
  IN Turn(t.node[w].bal, Link(t, w, d), Link(t, w, Other(d)))

(* w, the new root of the subtree that y was the root of. *)
Attach(t, y, w) == LET q == t.node[w].parent IN SetLink(t, q, Side(t, q, y), w)

-----------------------------------------------------------------------------
RECURSIVE Path(_, _, _)
Path(t, p, key) ==
  CASE p = NULL -> <<>>
    [] p = key -> <<p>>
    [] OTHER -> <<p>> \o Path(t, Link(t, p, Dir(key, p)), key)

map_find(t, key) == IF Contains(Path(t, t.root, key), key) THEN key ELSE NULL

(* The nodes from the last one that leans on get deeper on the side of the  *)
(* new one.                                                                 *)
Deepen(t, key, low) ==
  [t EXCEPT !.node = [p \in DOMAIN t.node |->
                        IF p \in low THEN [t.node[p] EXCEPT !.bal = @ + Sign(Dir(key, p))] ELSE t.node[p]]]

Insert(t, key, q) ==
  SetLink([t EXCEPT !.count = @ + 1,
                    !.node = [p \in DOMAIN t.node \union {key} |->
                                IF p = key THEN [link |-> <<NULL, NULL>>, parent |-> q, bal |-> 0, val |-> NULL]
                                ELSE t.node[p]]],
          q, IF q = NULL THEN Left ELSE Dir(key, q), key)

Restore(t, y) ==
  LET Heavy(d, x) == IF t.node[x].bal = Sign(d)
                     THEN Attach(SetBalance(SetBalance(Rotate(t, y, d), x, 0), y, 0), y, x)
                     ELSE Attach(RotateTwice(t, y, d), y, Link(t, x, Other(d)))
  IN CASE t.node[y].bal = -2 -> Heavy(Left, Link(t, y, Left))
       [] t.node[y].bal = 2 -> Heavy(Right, Link(t, y, Right))
       [] OTHER -> t

(* The node of the key, made when there is none. *)
map_get(t, key) ==
  LET New(path) ==
        LET leaning == SelectLastInSeq(path, LAMBDA p : t.node[p].bal # 0)
            from == IF leaning = 0 THEN 1 ELSE leaning
        IN IF path = <<>> THEN Insert(t, key, NULL)
           ELSE Restore(Deepen(Insert(t, key, Last(path)), key, ToSet(SubSeq(path, from, Len(path)))), path[from])
  IN IF map_find(t, key) # NULL THEN t ELSE New(Path(t, t.root, key))

(* ret: the value that was there, if it is another. *)
map_put(t, key, item) ==
  LET Put(u) == [map |-> [u EXCEPT !.node[key].val = item],
                 ret |-> IF u.node[key].val = item THEN NULL ELSE u.node[key].val]
  IN Put(map_get(t, key))

-----------------------------------------------------------------------------
RECURSIVE Leftmost(_, _, _)
Leftmost(t, p, d) == IF Link(t, p, d) = NULL THEN p ELSE Leftmost(t, Link(t, p, d), d)

(* p's place is taken by its left child, its right child or its successor;  *)
(* dir is the side of q that has become lower.                              *)
Unlink(t, p) ==
  LET q == t.node[p].parent
      dir == Side(t, q, p)
      below == t.node[p].link
      r == below[Right]
      Takes(u, s) == SetParent([SetLink(u, q, dir, s) EXCEPT !.node[s].link[Left] = below[Left],
                                  !.node[s].parent = q, !.node[s].bal = t.node[p].bal], below[Left], s)
      Successor(s, up) ==
        [map |-> SetParent(Takes([t EXCEPT !.node[up].link[Left] = Link(t, s, Right),
                                           !.node[s].link[Right] = r, !.node[r].parent = s], s),
                           Link(t, s, Right), up),
         q |-> up, dir |-> Left]
  IN CASE r = NULL -> [map |-> SetParent(SetLink(t, q, dir, below[Left]), below[Left], q), q |-> q, dir |-> dir]
       [] r # NULL /\ Link(t, r, Left) = NULL -> [map |-> Takes(t, r), q |-> r, dir |-> Right]
       [] OTHER -> LET s == Leftmost(t, r, Left) IN Successor(s, t.node[s].parent)

(* Up from y, whose side dir has become lower, until a subtree keeps its    *)
(* height.                                                                  *)
RECURSIVE Rebalance(_, _, _)
Rebalance(t, y, dir) ==
  LET q == t.node[y].parent
      h == Other(dir)
      Up(u) == Rebalance(u, q, Side(t, q, y))
      Single(u, x) == IF t.node[x].bal = 0 THEN SetBalance(SetBalance(u, x, - Sign(h)), y, Sign(h))
                      ELSE Up(SetBalance(SetBalance(u, x, 0), y, 0))
      Heavy(x) == IF t.node[x].bal = - Sign(h)
                  THEN Up(Attach(RotateTwice(t, y, h), y, Link(t, x, dir)))
                  ELSE Single(Attach(Rotate(t, y, h), y, x), x)
  IN IF y = NULL THEN t
     ELSE CASE t.node[y].bal = 0 -> SetBalance(t, y, Sign(h))
            [] t.node[y].bal = Sign(h) -> Heavy(Link(t, y, h))
            [] OTHER -> Up(SetBalance(t, y, 0))

Drop(t, p) == [t EXCEPT !.count = @ - 1,
                        !.node = [x \in DOMAIN t.node \ {p} |-> t.node[x]]]

delete_node(t, p) ==
  LET u == Unlink(t, p)
  IN [map |-> Rebalance(Drop(u.map, p), u.q, u.dir), ret |-> t.node[p].val]

map_remove(t, key) ==
  IF map_find(t, key) = NULL THEN [map |-> t, ret |-> NULL] ELSE delete_node(t, key)

-----------------------------------------------------------------------------
(* Iterators: a node, or NULL behind the last *)

map_first(t) == IF t.root = NULL THEN NULL ELSE Leftmost(t, t.root, Left)
map_last(t) == IF t.root = NULL THEN NULL ELSE Leftmost(t, t.root, Right)

(* The nearest ancestor that p is not on side d of. *)
RECURSIVE Above(_, _, _)
Above(t, p, d) ==
  LET q == t.node[p].parent IN IF q = NULL \/ p = Link(t, q, Other(d)) THEN q ELSE Above(t, q, d)

iterator_next(t, p) == IF Link(t, p, Right) # NULL THEN Leftmost(t, Link(t, p, Right), Left) ELSE Above(t, p, Right)
iterator_prev(t, p) == IF Link(t, p, Left) # NULL THEN Leftmost(t, Link(t, p, Left), Right) ELSE Above(t, p, Left)

(* Once f has returned something other than 0 no subtree is entered, but it *)
(* is still called for the nodes whose left subtrees the walk is in.        *)
RECURSIVE process_all(_, _, _, _)
process_all(t, p, f, seen) ==
  LET stopped(s) == \E i \in DOMAIN s : f[s[i]] # 0
      side(s, d) == IF Link(t, p, d) = NULL THEN s ELSE process_all(t, Link(t, p, d), f, s)
      here(s) == Append(s, p)
  IN IF stopped(seen) THEN seen ELSE side(here(side(seen, Left)), Right)
map_for_each(t, f) == IF t.root = NULL THEN <<>> ELSE process_all(t, t.root, f, <<>>)

(* The nodes in the order they are freed. *)
RECURSIVE DestroyFrom(_, _)
DestroyFrom(t, p) ==
  IF p = NULL THEN <<>>
  ELSE LET q == Link(t, p, Left)
       IN IF q = NULL THEN <<p>> \o DestroyFrom(t, Link(t, p, Right))
          ELSE DestroyFrom([t EXCEPT !.node[p].link[Left] = Link(t, q, Right), !.node[q].link[Right] = p], q)
map_destroy(t) == DestroyFrom(t, t.root)

-----------------------------------------------------------------------------
(* Properties *)

RECURSIVE Height(_, _)
Height(t, p) ==
  LET Higher(l, r) == 1 + (IF l > r THEN l ELSE r)
  IN IF p = NULL THEN 0 ELSE Higher(Height(t, Link(t, p, Left)), Height(t, Link(t, p, Right)))

(* The tree is one: every node's parent has it as a child, and the two      *)
(* sides of a node differ by its balance, at most one level.                *)
Balanced(t) ==
  /\ t.count = Len(map_destroy(t))
  /\ t.root # NULL => t.node[t.root].parent = NULL
  /\ \A p \in DOMAIN t.node :
       LET n == t.node[p]
       IN /\ n.bal \in -1 .. 1
          /\ n.bal = Height(t, n.link[Right]) - Height(t, n.link[Left])
          /\ \A d \in {Left, Right} : n.link[d] # NULL => t.node[n.link[d]].parent = p
          /\ n.parent # NULL => p \in ToSet(t.node[n.parent].link)

(* It maps keys to values as a function would. *)
Contents(t) == [p \in DOMAIN t.node |-> t.node[p].val]
IsMap(t, Keys, Items) ==
  \A key \in Keys :
    LET held == key \in DOMAIN t.node
        old == IF held THEN t.node[key].val ELSE NULL
        Removed(r) == r.ret = old /\ Contents(r.map) = [p \in DOMAIN t.node \ {key} |-> t.node[p].val]
        Put(r, item) == /\ r.ret = (IF old = item THEN NULL ELSE old)
                        /\ Contents(r.map) = [p \in DOMAIN t.node \union {key} |->
                                                IF p = key THEN item ELSE t.node[p].val]
    IN /\ map_find(t, key) = (IF held THEN key ELSE NULL)
       /\ Removed(map_remove(t, key))
       /\ \A item \in Items : Put(map_put(t, key, item), item)

(* Iterators and map_for_each see every key once, in order; map_destroy     *)
(* frees every node once.  Told to stop, map_for_each sees no further than  *)
(* the nodes above.                                                         *)
Walked(t) ==
  LET keys == SelectSeq([p \in 1 .. Max(DOMAIN t.node \union {0}) |-> p], LAMBDA p : p \in DOMAIN t.node)
      At(i) == IF i \in DOMAIN keys THEN keys[i] ELSE NULL
  IN /\ map_first(t) = At(1) /\ map_last(t) = At(Len(keys))
     /\ \A i \in DOMAIN keys : iterator_next(t, keys[i]) = At(i + 1) /\ iterator_prev(t, keys[i]) = At(i - 1)
     /\ map_destroy(t) = keys
     /\ map_for_each(t, [p \in DOMAIN t.node |-> 0]) = keys
     /\ \A i \in DOMAIN keys :
          LET seen == map_for_each(t, [p \in DOMAIN t.node |-> IF p = keys[i] THEN 1 ELSE 0])
          IN IsPrefix(SubSeq(keys, 1, i), seen)
             /\ ToSet(SubSeq(seen, i + 1, Len(seen))) \subseteq ToSet(Path(t, t.root, keys[i]))
=============================================================================
