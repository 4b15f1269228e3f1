----------------------------- MODULE RootCache -----------------------------
(***************************************************************************)
(* The relay's RootCache: the roots it has seen lately, in order of arrival  *)
(* and as a set, with a maximal size and cleared as a whole when a day has   *)
(* passed since the last clearing.                                           *)
(***************************************************************************)
EXTENDS Sequences, Naturals

CONSTANT max_size

ASSUME RootCacheAssumption == max_size \in Nat

new == [order |-> <<>>, set |-> {}]

\* elapsed: has the clear interval passed?
maybe_clear(cache, elapsed) == IF elapsed THEN new ELSE cache

\* Mutant: the lookup misses the root that was inserted last.
contains_misses_newest(cache, root) ==
  root \in cache.set /\ root # cache.order[Len(cache.order)]

\* contains and insert are applied to a cache that maybe_clear has seen to.
contains(cache, root) == root \in cache.set

\* Mutant: the evicted root stays in the set.
insert_leaks_evicted(cache, root) ==
  IF root \in cache.set THEN cache
  ELSE LET order == Append(cache.order, root)
       IN  [order |-> IF Len(order) > max_size THEN Tail(order) ELSE order,
            set |-> cache.set \cup {root}]

insert(cache, root) ==
  IF root \in cache.set THEN cache
  ELSE LET order == Append(cache.order, root)
       IN  IF Len(order) > max_size
           THEN [order |-> Tail(order), set |-> (cache.set \cup {root}) \ {Head(order)}]
           ELSE [order |-> order, set |-> cache.set \cup {root}]

-----------------------------------------------------------------------------
\* The queue and the set hold the same roots, each once, at most max_size.
Consistent(cache) ==
  /\ cache.set = {cache.order[i] : i \in DOMAIN cache.order}
  /\ \A i, j \in DOMAIN cache.order : cache.order[i] = cache.order[j] => i = j
  /\ Len(cache.order) <= max_size

\* The queue holds the last max_size of the roots inserted.
Window(cache, inserted) ==
  cache.order = SubSeq(inserted,
                       IF Len(inserted) > max_size THEN Len(inserted) - max_size + 1 ELSE 1,
                       Len(inserted))
=============================================================================
