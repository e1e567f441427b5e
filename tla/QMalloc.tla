-------------------------------- MODULE QMalloc --------------------------------
(***************************************************************************)
(* src/core/mem/q_malloc.c: the allocator of shared memory, as built by    *)
(* default, each call of it under mem_lock.                                *)
(*                                                                         *)
(* A heap is cut into fragments, named by where they begin; sizes are in   *)
(* units of ROUNDTO, so that rounding a size up is left to the caller.  A  *)
(* fragment is free when its nxt_free is set.  Its end repeats its size    *)
(* and is written with it.  join is QM_JOIN_FREE, not set by default.      *)
(***************************************************************************)
EXTENDS Integers, Sequences, SequencesExt, FiniteSets, FiniteSetsExt

CONSTANTS FRAG_OVERHEAD, QM_MALLOC_OPTIMIZE_FACTOR

QM_MALLOC_OPTIMIZE == 2 ^ QM_MALLOC_OPTIMIZE_FACTOR

big_hash_idx(s) == CHOOSE i \in 0 .. s : 2 ^ i <= s /\ s < 2 ^ (i + 1)
GET_HASH(s) == IF s <= QM_MALLOC_OPTIMIZE THEN s
               ELSE QM_MALLOC_OPTIMIZE + big_hash_idx(s) - QM_MALLOC_OPTIMIZE_FACTOR + 1

FRAG_NEXT(qm, f) == f + qm.frag[f].size + FRAG_OVERHEAD
Exists(qm, f) == f \in DOMAIN qm.frag      \* before last_frag_end
PrevOf(qm, f) == { p \in DOMAIN qm.frag : FRAG_NEXT(qm, p) = f }
IsFree(qm, f) == qm.frag[f].free

Uses(qm, n) == [qm EXCEPT !.real_used = @ + n]
Takes(qm, n) == [Uses(qm, n) EXCEPT !.used = @ + n]
Counted(qm, h, n) == [qm EXCEPT !.free_hash[h].no = @ + n]
Marked(qm, f, free) == [qm EXCEPT !.frag[f].free = free]
Resized(qm, f, n) == [qm EXCEPT !.frag[f].size = n]
Gone(qm, f) == [qm EXCEPT !.frag = [x \in DOMAIN qm.frag \ {f} |-> qm.frag[x]]]

qm_insert_free(qm, f) ==
  LET h == GET_HASH(qm.frag[f].size)
      list == qm.free_hash[h].list
      i == SelectInSeq(list, LAMBDA x : qm.frag[f].size <= qm.frag[x].size)
      In(q) == [q EXCEPT !.free_hash[h].list = IF i = 0 THEN Append(list, f) ELSE InsertAt(list, i, f)]
  IN Marked(Counted(In(qm), h, 1), f, TRUE)

(* nxt_free is left as it was. *)
qm_detach_free(qm, f) ==
  LET Without(bucket) == [bucket EXCEPT !.list = RemoveFirst(@, f)]
  IN [qm EXCEPT !.free_hash = [h \in DOMAIN @ |-> Without(@[h])]]

qm_malloc_init(size, join) ==
  qm_insert_free(
    [size |-> size, used |-> 0, real_used |-> FRAG_OVERHEAD, join |-> join,
     frag |-> [f \in {0} |-> [size |-> size - FRAG_OVERHEAD, free |-> FALSE]],
     free_hash |-> [h \in 0 .. GET_HASH(size) |-> [list |-> <<>>, no |-> 0]]], 0)

(* The first that fits, of the smallest bucket that has one. *)
qm_find_free(qm, size) ==
  LET Fits(h) == SelectInSeq(qm.free_hash[h].list, LAMBDA f : qm.frag[f].size >= size)
      hs == { h \in DOMAIN qm.free_hash : h >= GET_HASH(size) /\ Fits(h) # 0 }
      First(h) == [hash |-> h, f |-> qm.free_hash[h].list[Fits(h)]]
  IN IF hs = {} THEN <<>> ELSE <<First(Min(hs))>>

Splits(rest, new_size) == \/ rest > FRAG_OVERHEAD + QM_MALLOC_OPTIMIZE
                          \/ rest >= FRAG_OVERHEAD + new_size

(* What is left is one unit more than there is. *)
split_frag_bug(qm, f, new_size) ==
  LET rest == qm.frag[f].size - new_size
      n == f + new_size + FRAG_OVERHEAD
      New(q) == [q EXCEPT !.frag = [x \in DOMAIN q.frag \union {n} |->
                                     IF x = n THEN [size |-> rest - FRAG_OVERHEAD + 1, free |-> FALSE] ELSE q.frag[x]]]
  IN IF ~ Splits(rest, new_size) THEN qm
     ELSE qm_insert_free(Uses(New(Resized(qm, f, new_size)), FRAG_OVERHEAD), n)

split_frag(qm, f, new_size) ==
  LET rest == qm.frag[f].size - new_size
      n == f + new_size + FRAG_OVERHEAD
      New(q) == [q EXCEPT !.frag = [x \in DOMAIN q.frag \union {n} |->
                                     IF x = n THEN [size |-> rest - FRAG_OVERHEAD, free |-> FALSE] ELSE q.frag[x]]]
  IN IF ~ Splits(rest, new_size) THEN qm
     ELSE qm_insert_free(Uses(New(Resized(qm, f, new_size)), FRAG_OVERHEAD), n)

Answer(qm, p) == [qm |-> qm, p |-> p]
NULL == -1

(* What is not used is compared as an unsigned number. *)
qm_malloc(qm, size) ==
  LET Count(q, f) == Answer(Takes(q, q.frag[f].size), f)
      Take(found) ==
        Count(split_frag(Marked(Counted(qm_detach_free(qm, found.f), found.hash, -1), found.f, FALSE),
                         found.f, size), found.f)
      Try(found) == IF found = <<>> THEN Answer(qm, NULL) ELSE Take(found[1])
  IN IF qm.real_used <= qm.size /\ size > qm.size - qm.real_used THEN Answer(qm, NULL)
     ELSE Try(qm_find_free(qm, size))

(* f takes the fragment behind it, that is free. *)
Absorb(qm, f, n) ==
  Gone(Uses(Counted(Resized(qm_detach_free(qm, n), f, qm.frag[f].size + qm.frag[n].size + FRAG_OVERHEAD),
                    GET_HASH(qm.frag[n].size), -1), - FRAG_OVERHEAD), n)

JoinNext(qm, f, n) == IF Exists(qm, n) /\ IsFree(qm, n) THEN Absorb(qm, f, n) ELSE qm
(* The one before is taken out of its list before it grows. *)
JoinPrev(qm, f) ==
  LET Grow(p) == Gone(Uses(Counted(Resized(qm_detach_free(qm, p), p, qm.frag[p].size + qm.frag[f].size + FRAG_OVERHEAD),
                                   GET_HASH(qm.frag[p].size), -1), - FRAG_OVERHEAD), f)
      free == { p \in PrevOf(qm, f) : IsFree(qm, p) }
  IN IF free = {} THEN Answer(qm, f) ELSE Answer(Grow(CHOOSE p \in free : TRUE), CHOOSE p \in free : TRUE)

qm_free(qm, f) ==
  LET freed == Takes(qm, - qm.frag[f].size)
      Put(a) == qm_insert_free(a.qm, a.p)
  IN IF qm.join THEN Put(JoinPrev(JoinNext(freed, f, FRAG_NEXT(qm, f)), f)) ELSE qm_insert_free(freed, f)

(* When nothing could be cut off the sizes are updated all the same, when   *)
(* something was they are not.                                              *)
Shrink(qm, f, size) ==
  LET orig == qm.frag[f].size
      s == split_frag(qm, f, size)
  IN IF Splits(orig - size, size) THEN s ELSE Uses(s, FRAG_OVERHEAD)

(* Into the next fragment when that is free and makes it large enough, else *)
(* elsewhere.                                                               *)
GrowInPlace(qm, f, size) ==
  LET orig == qm.frag[f].size
      Cut(q) == IF q.frag[f].size > size THEN split_frag(q, f, size) ELSE q
      Count(q) == Takes(q, q.frag[f].size - orig)
  IN Count(Cut(Absorb(qm, f, FRAG_NEXT(qm, f))))

Move(qm, f, size) ==
  LET Moved(a) == IF a.p = NULL THEN a ELSE Answer(qm_free(a.qm, f), a.p) IN Moved(qm_malloc(qm, size))

qm_realloc(qm, f, size) ==
  LET n == FRAG_NEXT(qm, f)
  IN CASE size = 0 -> Answer(qm_free(qm, f), NULL)
       [] size > 0 /\ qm.frag[f].size > size -> Answer(Shrink(qm, f, size), f)
       [] size > 0 /\ qm.frag[f].size = size -> Answer(qm, f)
       [] size > 0 /\ qm.frag[f].size < size ->
            IF Exists(qm, n) /\ IsFree(qm, n) /\ qm.frag[n].size + FRAG_OVERHEAD >= size - qm.frag[f].size
            THEN Answer(GrowInPlace(qm, f, size), f) ELSE Move(qm, f, size)

(* sh_realloc: freed and allocated anew. *)
shm_resize(qm, f, size) == qm_malloc(qm_free(qm, f), size)

(* What any caller may make of a heap.  Sizes are asked for in any order;   *)
(* MaxDrift bounds how far real_used may leave what is really used.         *)
Used(qm) == { f \in DOMAIN qm.frag : ~ IsFree(qm, f) }
After(qm, Sizes, Shrinks, MaxDrift) ==
  IF qm.real_used > qm.size + MaxDrift THEN {}
  ELSE { qm_malloc(qm, s).qm : s \in Sizes }
         \union { qm_free(qm, f) : f \in Used(qm) }
         \union (UNION { { qm_realloc(qm, f, s).qm : s \in { t \in Sizes : Shrinks \/ t >= qm.frag[f].size } } : f \in Used(qm) })
         \union (UNION { { shm_resize(qm, f, s).qm : s \in Sizes } : f \in Used(qm) })

-----------------------------------------------------------------------------
(* Properties *)

Total(qm, fs) == MapThenSumSet(LAMBDA f : qm.frag[f].size, fs)

(* The fragments lie side by side and fill the heap. *)
SideBySide(qm) == /\ 0 \in DOMAIN qm.frag
                  /\ \A f \in DOMAIN qm.frag : /\ qm.frag[f].size >= 0
                                               /\ Exists(qm, FRAG_NEXT(qm, f)) \/ FRAG_NEXT(qm, f) = qm.size
Tiled(qm) == /\ SideBySide(qm)
             /\ Total(qm, DOMAIN qm.frag) + FRAG_OVERHEAD * Cardinality(DOMAIN qm.frag) = qm.size

(* The free ones are in the list of their size, once, in order, and         *)
(* counted.                                                                 *)
ListsRight(qm) ==
  /\ \A h \in DOMAIN qm.free_hash :
       LET list == qm.free_hash[h].list
       IN /\ qm.free_hash[h].no = Len(list) /\ IsInjective(list)
          /\ \A i \in DOMAIN list : /\ list[i] \in DOMAIN qm.frag /\ IsFree(qm, list[i])
                                    /\ GET_HASH(qm.frag[list[i]].size) = h
                                    /\ i > 1 => qm.frag[list[i - 1]].size <= qm.frag[list[i]].size
  /\ Cardinality(DOMAIN qm.frag \ Used(qm)) = MapThenSumSet(LAMBDA h : qm.free_hash[h].no, DOMAIN qm.free_hash)

(* A call gives a fragment that is large enough and was nobody's, and keeps *)
(* the others'; a block that could not be grown stays its owner's.          *)
Kept(before, after, fs) == \A f \in fs : f \in Used(after) /\ after.frag[f] = before.frag[f]
CallsRight(qm, Sizes) ==
  \A size \in Sizes :
    /\ LET a == qm_malloc(qm, size)
       IN /\ Kept(qm, a.qm, Used(qm))
          /\ a.p # NULL => a.qm.frag[a.p].size >= size /\ Used(a.qm) = Used(qm) \union {a.p} /\ a.p \notin Used(qm)
          /\ a.p = NULL => a.qm = qm
    /\ \A f \in Used(qm) :
         LET a == qm_realloc(qm, f, size)
         IN /\ Kept(qm, a.qm, Used(qm) \ {f})
            /\ a.p # NULL => a.qm.frag[a.p].size >= size /\ Used(a.qm) = (Used(qm) \ {f}) \union {a.p}
            /\ a.p = NULL /\ size > 0 => a.qm = qm

(* used and real_used are what is used, with and without the overhead: no   *)
(* request is refused that a free fragment is large enough for.             *)
Accounted(qm) ==
  /\ qm.used = Total(qm, Used(qm))
  /\ qm.real_used = qm.used + FRAG_OVERHEAD * Cardinality(DOMAIN qm.frag)
NotRefused(qm, Sizes) ==
  \A size \in Sizes : qm_malloc(qm, size).p = NULL => \A f \in DOMAIN qm.frag \ Used(qm) : qm.frag[f].size < size
=============================================================================
