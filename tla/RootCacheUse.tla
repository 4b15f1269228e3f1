---------------------------- MODULE RootCacheUse ----------------------------
(***************************************************************************)
(* A RootCache as listener and poller use it, any root at any time, a day    *)
(* having passed or not.                                                     *)
(***************************************************************************)
EXTENDS RootCache

CONSTANTS CacheRoot, MaxInserts

ASSUME RootCacheUseAssumption == MaxInserts \in Nat

VARIABLES
  cache,
  inserted   \* history: the roots the cache took in since it was cleared

cacheVars == <<cache, inserted>>

CacheInit == cache = new /\ inserted = <<>>

\* maybe_clear, then contains, then insert if the root is not known.
UsesCache ==
  /\ Len(inserted) < MaxInserts
  /\ \E r \in CacheRoot, elapsed \in BOOLEAN :
       LET kept == maybe_clear(cache, elapsed)
           before == IF elapsed THEN <<>> ELSE inserted
       IN  /\ cache' = insert(kept, r)
           /\ inserted' = IF contains(kept, r) THEN before ELSE Append(before, r)

CacheSpec == CacheInit /\ [][UsesCache]_cacheVars

\* A root is known exactly if it is among the last max_size the cache took in, so
\* an event is dropped as known only for a root handled lately, and the set does
\* not outgrow the queue.
CacheIsWindow == Consistent(cache) /\ Window(cache, inserted)
=============================================================================
