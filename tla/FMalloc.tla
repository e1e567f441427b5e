-------------------------------- MODULE FMalloc --------------------------------
(***************************************************************************)
(* src/core/mem/f_malloc.c: the faster allocator, each call of it under    *)
(* mem_lock.                                                               *)
(*                                                                         *)
(* As in QMalloc fragments are named by where they begin and sizes are in  *)
(* units of ROUNDTO.  A fragment is free when its prev is set.  The        *)
(* counters of memory in use are only kept in builds with statistics or    *)
(* debugging and are left out.                                             *)
(***************************************************************************)
EXTENDS Integers, Sequences, SequencesExt, FiniteSets, FiniteSetsExt

CONSTANTS FRAG_OVERHEAD, F_MALLOC_OPTIMIZE_FACTOR,
          F_MALLOC_LARGE_LIMIT, F_MALLOC_DEFRAG_LIMIT

F_MALLOC_OPTIMIZE == 2 ^ F_MALLOC_OPTIMIZE_FACTOR
F_MALLOC_DEFRAG_PERCENT == 10
NULL == -1

big_hash_idx(s) == CHOOSE i \in 0 .. s : 2 ^ i <= s /\ s < 2 ^ (i + 1)
GET_HASH(s) == IF s <= F_MALLOC_OPTIMIZE THEN s
               ELSE F_MALLOC_OPTIMIZE + big_hash_idx(s) - F_MALLOC_OPTIMIZE_FACTOR + 1

FRAG_NEXT(qm, f) == f + qm.frag[f].size + FRAG_OVERHEAD
Exists(qm, f) == f \in DOMAIN qm.frag       \* before last_frag
IsFree(qm, f) == qm.frag[f].prev

(* The part of free_plus and free_minus that is always compiled. *)
Large(size) == IF size > F_MALLOC_LARGE_LIMIT THEN size ELSE 0
Counted(qm, h, n) == [qm EXCEPT !.free_hash[h].no = @ + n]
Gone(qm, f) == [qm EXCEPT !.frag = [x \in DOMAIN qm.frag \ {f} |-> qm.frag[x]]]

(* Small buckets hold one size and are stacks; the others are in order. *)
fm_insert_free(qm, f) ==
  LET size == qm.frag[f].size
      h == GET_HASH(size)
      In(list) == LET i == IF size <= F_MALLOC_OPTIMIZE THEN 1
                           ELSE SelectInSeq(list, LAMBDA x : size <= qm.frag[x].size)
                  IN IF i = 0 THEN Append(list, f) ELSE InsertAt(list, i, f)
  IN Counted([qm EXCEPT !.free_hash[h].list = In(@), !.frag[f].prev = TRUE,
                        !.large_space = @ + Large(size)], h, 1)

fm_remove_free(qm, n) ==
  LET h == GET_HASH(qm.frag[n].size)
  IN Counted([qm EXCEPT !.free_hash[h].list = Remove(@, n), !.frag[n].prev = FALSE,
                        !.large_space = @ - Large(qm.frag[n].size)], h, -1)

Splits(rest, size) == rest > FRAG_OVERHEAD + F_MALLOC_OPTIMIZE \/ rest >= FRAG_OVERHEAD + size

fm_split_frag(qm, f, size) ==
  LET rest == qm.frag[f].size - size
      n == f + size + FRAG_OVERHEAD
  IN IF ~ Splits(rest, size) THEN qm
     ELSE fm_insert_free(
            [qm EXCEPT !.frag = [x \in DOMAIN @ \union {n} |->
                                   CASE x = n -> [size |-> rest - FRAG_OVERHEAD, prev |-> FALSE]
                                     [] x = f -> [@[f] EXCEPT !.size = size]
                                     [] OTHER -> @[x]]], n)

fm_malloc_init(size) ==
  LET tenth == (size \div 100) * F_MALLOC_DEFRAG_PERCENT
  IN fm_insert_free(
       [size |-> size, large_space |-> 0,
        large_limit |-> IF tenth < F_MALLOC_DEFRAG_LIMIT THEN F_MALLOC_DEFRAG_LIMIT ELSE tenth,
        frag |-> [f \in {0} |-> [size |-> size - FRAG_OVERHEAD, prev |-> FALSE]],
        free_hash |-> [h \in 0 .. GET_HASH(size) |-> [list |-> <<>>, no |-> 0]]], 0)

-----------------------------------------------------------------------------
Answer(qm, p) == [qm |-> qm, p |-> p]

(* f takes the fragment behind it, that is free. *)
Absorb(qm, f, n) ==
  Gone([fm_remove_free(qm, n) EXCEPT !.frag[f].size = @ + qm.frag[n].size + FRAG_OVERHEAD], n)

(* A fragment that is in no list takes the free ones behind it until it is  *)
(* larger than size; one that does not become that large goes back into its *)
(* list.                                                                    *)
RECURSIVE Collect(_, _, _)
Collect(qm, f, size) ==
  LET n == FRAG_NEXT(qm, f)
  IN CASE qm.frag[f].size > size -> Answer(qm, f)
       [] qm.frag[f].size <= size /\ Exists(qm, n) /\ IsFree(qm, n) -> Collect(Absorb(qm, f, n), f, size)
       [] OTHER -> Answer(fm_insert_free(qm, f), NULL)

RECURSIVE Defragment(_, _, _)
Defragment(qm, f, size) ==
  LET n == FRAG_NEXT(qm, f)
      Go(a) == IF a.p # NULL THEN a ELSE Defragment(a.qm, FRAG_NEXT(a.qm, f), size)
  IN CASE ~ Exists(qm, f) -> Answer(qm, NULL)
       [] Exists(qm, f) /\ Exists(qm, n) /\ IsFree(qm, n) /\ IsFree(qm, f) ->
            Go(Collect(Absorb(fm_remove_free(qm, f), f, n), f, size))
       [] OTHER -> Defragment(qm, n, size)

fm_find(qm, size) ==
  LET Fits(h) == SelectInSeq(qm.free_hash[h].list, LAMBDA f : qm.frag[f].size >= size)
      hs == { h \in DOMAIN qm.free_hash : h >= GET_HASH(size) /\ Fits(h) # 0 }
      First(h) == qm.free_hash[h].list[Fits(h)]
  IN IF hs = {} THEN NULL ELSE First(Min(hs))

fm_malloc(qm, size) ==
  LET Take(f) == IF f = NULL THEN Defragment(qm, 0, size)
                 ELSE Answer(fm_split_frag(fm_remove_free(qm, f), f, size), f)
  IN Take(fm_find(qm, size))

(* The free fragments behind are taken as long as not too much is free in   *)
(* large ones.                                                              *)
RECURSIVE Joined(_, _)
Joined(qm, f) ==
  LET n == FRAG_NEXT(qm, f)
  IN IF qm.large_limit < qm.large_space \/ ~ Exists(qm, n) THEN qm
     ELSE IF IsFree(qm, n) THEN Joined(Absorb(qm, f, n), f) ELSE qm

(* The one behind keeps its place in the list. *)
fm_free_bug(qm, f) ==
  LET n == FRAG_NEXT(qm, f)
  IN IF Exists(qm, n) /\ IsFree(qm, n) /\ qm.large_limit >= qm.large_space
     THEN fm_insert_free(Gone([qm EXCEPT !.frag[f].size = @ + qm.frag[n].size + FRAG_OVERHEAD], n), f)
     ELSE fm_insert_free(qm, f)

fm_free(qm, f) == fm_insert_free(Joined(qm, f), f)

Move(qm, f, size) ==
  LET Moved(a) == IF a.p = NULL THEN a ELSE Answer(fm_free(a.qm, f), a.p) IN Moved(fm_malloc(qm, size))

fm_realloc(qm, f, size) ==
  LET n == FRAG_NEXT(qm, f)
      Cut(q) == IF q.frag[f].size > size THEN fm_split_frag(q, f, size) ELSE q
  IN CASE size = 0 -> Answer(fm_free(qm, f), NULL)
       [] size > 0 /\ qm.frag[f].size >= size -> Answer(Cut(qm), f)
       [] size > 0 /\ qm.frag[f].size < size ->
            IF Exists(qm, n) /\ IsFree(qm, n) /\ qm.frag[n].size + FRAG_OVERHEAD >= size - qm.frag[f].size
            THEN Answer(Cut(Absorb(qm, f, n)), f) ELSE Move(qm, f, size)

(* What any caller may make of a heap. *)
Used(qm) == { f \in DOMAIN qm.frag : ~ IsFree(qm, f) }
After(qm, Sizes) ==
  { fm_malloc(qm, s).qm : s \in Sizes }
    \union { fm_free(qm, f) : f \in Used(qm) }
    \union { fm_realloc(qm, f, s).qm : f \in Used(qm), s \in Sizes }

-----------------------------------------------------------------------------
(* Properties *)

Total(qm, fs) == MapThenSumSet(LAMBDA f : qm.frag[f].size, fs)
Free(qm) == DOMAIN qm.frag \ Used(qm)

(* The fragments lie side by side and fill the heap. *)
Tiled(qm) == /\ 0 \in DOMAIN qm.frag
             /\ \A f \in DOMAIN qm.frag : Exists(qm, FRAG_NEXT(qm, f)) \/ FRAG_NEXT(qm, f) = qm.size
             /\ Total(qm, DOMAIN qm.frag) + FRAG_OVERHEAD * Cardinality(DOMAIN qm.frag) = qm.size

(* The free ones are in the list of their size, once, and counted; so is    *)
(* what is free in large ones.                                              *)
ListsRight(qm) ==
  /\ \A h \in DOMAIN qm.free_hash :
       LET list == qm.free_hash[h].list
       IN /\ qm.free_hash[h].no = Len(list) /\ IsInjective(list)
          /\ \A i \in DOMAIN list : /\ list[i] \in DOMAIN qm.frag /\ IsFree(qm, list[i])
                                    /\ GET_HASH(qm.frag[list[i]].size) = h
                                    /\ i > 1 => qm.frag[list[i - 1]].size <= qm.frag[list[i]].size
  /\ Cardinality(Free(qm)) = MapThenSumSet(LAMBDA h : qm.free_hash[h].no, DOMAIN qm.free_hash)
  /\ qm.large_space = MapThenSumSet(LAMBDA f : Large(qm.frag[f].size), Free(qm))

(* A call gives a fragment that is large enough and was nobody's, and keeps *)
(* the others'.  A request is only refused when all that is free side by    *)
(* side has been joined and is not larger.                                  *)
Kept(before, after, fs) == \A f \in fs : f \in Used(after) /\ after.frag[f] = before.frag[f]
Refused(qm, size) == \A f \in Free(qm) : /\ qm.frag[f].size <= size
                                         /\ FRAG_NEXT(qm, f) \notin Free(qm)
CallsRight(qm, Sizes) ==
  \A size \in Sizes :
    /\ LET a == fm_malloc(qm, size)
       IN /\ Kept(qm, a.qm, Used(qm))
          /\ a.p # NULL => a.qm.frag[a.p].size >= size /\ Used(a.qm) = Used(qm) \union {a.p} /\ a.p \notin Used(qm)
          /\ a.p = NULL => Used(a.qm) = Used(qm) /\ Refused(a.qm, size)
    /\ \A f \in Used(qm) :
         LET a == fm_realloc(qm, f, size)
         IN /\ Kept(qm, a.qm, Used(qm) \ {f})
            /\ a.p # NULL => a.qm.frag[a.p].size >= size /\ Used(a.qm) = (Used(qm) \ {f}) \union {a.p}
            /\ a.p = NULL /\ size > 0 => Kept(qm, a.qm, Used(qm))
=============================================================================
