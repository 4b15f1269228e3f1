---------------------------- MODULE RootCacheProofs ----------------------------
(* What insert makes of a cache, for every maximal size, 0 included.            *)
EXTENDS RootCache, SequenceTheorems, FiniteSetTheorems, TLAPS

LEMMA ConsistentIf ==
  ASSUME NEW c, NEW n \in Nat, DOMAIN c.order = 1..n, Len(c.order) = n, n <= max_size,
         \A i, j \in 1..n : c.order[i] = c.order[j] => i = j,
         \A x : x \in c.set <=> \E i \in 1..n : c.order[i] = x
  PROVE  Consistent(c)
<1>1. c.set = {c.order[i] : i \in 1..n}
  OBVIOUS
<1>. QED  BY <1>1 DEF Consistent

\* insert keeps the cache's two halves in agreement, eviction included.
LEMMA InsertConsistent ==
  ASSUME NEW S, NEW c, c.order \in Seq(S), Consistent(c), NEW root \in S
  PROVE  Consistent(insert(c, root)) /\ insert(c, root).order \in Seq(S)
<1>. DEFINE o == c.order
            a == Append(o, root)
<1>1. CASE root \in c.set
  BY <1>1 DEF insert
<1>2. CASE root \notin c.set
  <2>1. /\ Len(o) \in Nat /\ DOMAIN o = 1..Len(o) /\ DOMAIN a = 1..(Len(o) + 1)
        /\ a \in Seq(S) /\ Len(a) = Len(o) + 1 /\ a # <<>>
        /\ \A i \in 1..Len(o) : a[i] = o[i]
        /\ a[Len(o) + 1] = root
    BY AppendProperties, LenProperties
  <2>2. /\ c.set = {o[i] : i \in 1..Len(o)}
        /\ \A i, j \in 1..Len(o) : o[i] = o[j] => i = j
        /\ Len(o) <= max_size
    BY <2>1 DEF Consistent
  <2>. HIDE DEF o, a
  <2>3. \A i, j \in 1..(Len(o) + 1) : a[i] = a[j] => i = j
    <3>1. \A i \in 1..Len(o) : a[i] # root
      BY <1>2, <2>1, <2>2
    <3>. QED  BY <2>1, <2>2, <3>1
  <2>4. \A x : x \in c.set \cup {root} <=> \E i \in 1..(Len(o) + 1) : a[i] = x
    <3>1. \A x : x \in c.set <=> \E i \in 1..Len(o) : a[i] = x
      BY <2>1, <2>2
    <3>2. \A x : (\E i \in 1..(Len(o) + 1) : a[i] = x) <=>
                   (\E i \in 1..Len(o) : a[i] = x) \/ x = root
      BY <2>1
    <3>. QED  BY <3>1, <3>2
  <2>5. CASE Len(a) <= max_size
    <3>1. insert(c, root) = [order |-> a, set |-> c.set \cup {root}]
      BY <1>2, <2>1, <2>5, RootCacheAssumption DEF insert, a, o
    <3>2. insert(c, root).order = a /\ insert(c, root).set = c.set \cup {root}
      BY <3>1
    <3>. QED  BY <2>1, <2>3, <2>4, <2>5, <3>2, ConsistentIf
  <2>6. CASE Len(a) > max_size
    <3>1. insert(c, root) = [order |-> Tail(a), set |-> (c.set \cup {root}) \ {Head(a)}]
      BY <1>2, <2>6 DEF insert, a, o
    <3>2. /\ Tail(a) \in Seq(S) /\ Len(Tail(a)) = Len(o) /\ DOMAIN Tail(a) = 1..Len(o)
          /\ \A i \in 1..Len(o) : Tail(a)[i] = a[i + 1]
      BY <2>1, HeadTailProperties, LenProperties
    <3>3. Head(a) = a[1]
      BY <2>1
    <3>4. \A i, j \in 1..Len(o) : Tail(a)[i] = Tail(a)[j] => i = j
      BY <2>1, <2>3, <3>2
    <3>5. \A x : x \in (c.set \cup {root}) \ {Head(a)} <=>
                   \E i \in 1..Len(o) : Tail(a)[i] = x
      <4>1. ASSUME NEW x \in (c.set \cup {root}) \ {Head(a)}
            PROVE  \E i \in 1..Len(o) : Tail(a)[i] = x
        <5>1. PICK i \in 1..(Len(o) + 1) : a[i] = x
          BY <2>4
        <5>2. i - 1 \in 1..Len(o) /\ (i - 1) + 1 = i
          BY <2>1, <3>3, <5>1
        <5>. QED  BY <3>2, <5>1, <5>2
      <4>2. ASSUME NEW i \in 1..Len(o)
            PROVE  Tail(a)[i] \in (c.set \cup {root}) \ {Head(a)}
        <5>1. i + 1 \in 1..(Len(o) + 1) /\ 1 \in 1..(Len(o) + 1) /\ i + 1 # 1
          BY <2>1
        <5>2. Tail(a)[i] = a[i + 1] /\ a[i + 1] # a[1]
          BY <2>3, <3>2, <5>1
        <5>. QED  BY <2>4, <3>3, <5>1, <5>2
      <4>. QED  BY <4>1, <4>2
    <3>. DEFINE kept == insert(c, root)
    <3>6. kept.order = Tail(a) /\ kept.set = (c.set \cup {root}) \ {Head(a)}
      BY <3>1
    <3>. HIDE DEF kept
    <3>7. /\ kept.order \in Seq(S) /\ DOMAIN kept.order = 1..Len(o)
          /\ Len(kept.order) = Len(o) /\ Len(o) \in Nat /\ Len(o) <= max_size
          /\ \A i, j \in 1..Len(o) : kept.order[i] = kept.order[j] => i = j
      BY <2>1, <2>2, <3>2, <3>4, <3>6
    <3>8. \A x : x \in kept.set <=> \E i \in 1..Len(o) : kept.order[i] = x
      BY <3>5, <3>6
    <3>9. Consistent(kept)
      BY <3>7, <3>8, ConsistentIf
    <3>. QED  BY <3>7, <3>9 DEF kept
  <2>7. Len(a) \in Nat
    BY <2>1
  <2>. QED  BY <2>5, <2>6, <2>7, RootCacheAssumption
<1>. QED  BY <1>1, <1>2

\* There are n numbers from 1 to n.
LEMMA CardinalityUpTo ==
  ASSUME NEW n \in Nat
  PROVE  Cardinality(1..n) = n
<1>1. n \in Int /\ 1 \in Int
  OBVIOUS
<1>2. Cardinality(1..n) = IF 1 > n THEN 0 ELSE n - 1 + 1
  BY <1>1, FS_Interval, Zenon
<1>. QED  BY <1>2

\* With room for every root, insert evicts none.
LEMMA InsertKeeps ==
  ASSUME NEW S, IsFiniteSet(S), Cardinality(S) <= max_size,
         NEW c, c.order \in Seq(S), Consistent(c), NEW root \in S
  PROVE  insert(c, root).set = c.set \cup {root}
<1>. DEFINE n == Len(c.order)
<1>1. CASE root \in c.set
  BY <1>1 DEF insert
<1>2. CASE root \notin c.set
  <2>1. n \in Nat /\ c.order \in [1..n -> S]
    BY LenProperties
  <2>2. c.order \in Injection(1..n, S \ {root})
    BY <1>2, <2>1 DEF Consistent, Injection, IsInjective
  <2>3. IsFiniteSet(S \ {root}) /\ Cardinality(S \ {root}) = Cardinality(S) - 1
    BY FS_RemoveElement
  <2>4. n <= Cardinality(S \ {root})
    <3>1. Cardinality(1..n) <= Cardinality(S \ {root})
      BY <2>2, <2>3, FS_Injection
    <3>2. Cardinality(1..n) = n
      BY <2>1, CardinalityUpTo
    <3>. QED  BY <3>1, <3>2
  <2>5. Cardinality(S) \in Nat
    BY FS_CardinalityType
  <2>6. Len(Append(c.order, root)) = n + 1
    BY AppendProperties
  <2>7. ~(Len(Append(c.order, root)) > max_size)
    BY <2>1, <2>3, <2>4, <2>5, <2>6, RootCacheAssumption
  <2>. QED  BY <1>2, <2>7 DEF insert
<1>. QED  BY <1>1, <1>2
-----------------------------------------------------------------------------
(* The window *)

\* Where the window on the last size of n elements begins.
First(n, size) == IF n > size THEN n - size + 1 ELSE 1

LastOf(all, size) == SubSeq(all, First(Len(all), size), Len(all))

\* Appending to a window and dropping its oldest if it is then too long gives the
\* window on the longer sequence.
LEMMA SlidingWindow ==
  ASSUME NEW S, NEW all \in Seq(S), NEW x \in S, NEW size \in Nat
  PROVE  LET full == Append(LastOf(all, size), x)
         IN  (IF Len(full) > size THEN Tail(full) ELSE full) = LastOf(Append(all, x), size)
<1>. DEFINE n == Len(all)
            k == First(n, size)
            window == LastOf(all, size)
            wider == Append(all, x)
            next == LastOf(wider, size)
            full == Append(window, x)
<1>1. /\ n \in Nat /\ k \in 1..(n + 1)
      /\ n - k + 1 = IF n > size THEN size ELSE n
  BY DEF First
<1>2. /\ window \in Seq(S) /\ Len(window) = n - k + 1
      /\ \A i \in 1..(n - k + 1) : window[i] = all[k + i - 1]
  <2>1. \A i \in k..n : all[i] \in S
    BY <1>1
  <2>2. window = SubSeq(all, k, n)
    BY DEF LastOf
  <2>. QED  BY <1>1, <2>1, <2>2, SubSeqProperties
<1>3. /\ wider \in Seq(S) /\ Len(wider) = n + 1
      /\ \A i \in 1..n : wider[i] = all[i]
      /\ wider[n + 1] = x
  OBVIOUS
<1>4. next = SubSeq(wider, First(n + 1, size), n + 1)
  BY <1>3 DEF LastOf
<1>. SUFFICES (IF Len(full) > size THEN Tail(full) ELSE full) = next
  OBVIOUS
<1>. HIDE DEF window, wider, next
<1>5. /\ full \in Seq(S) /\ Len(full) = n - k + 2
      /\ \A i \in 1..(n - k + 2) : full[i] = wider[k + i - 1]
  <2>1. /\ full \in Seq(S) /\ Len(full) = Len(window) + 1
        /\ \A i \in 1..Len(window) : full[i] = window[i]
        /\ full[Len(window) + 1] = x
    BY <1>2
  <2>. HIDE DEF full, k, n
  <2>2. ASSUME NEW i \in 1..(n - k + 2)
        PROVE  full[i] = wider[k + i - 1]
    <3>1. CASE i = n - k + 2
      BY <1>1, <1>2, <1>3, <2>1, <3>1
    <3>2. CASE i # n - k + 2
      <4>1. i \in 1..Len(window) /\ i \in 1..(n - k + 1) /\ k + i - 1 \in 1..n
        BY <1>1, <1>2, <3>2
      <4>. QED  BY <1>2, <1>3, <2>1, <4>1
    <3>. QED  BY <3>1, <3>2
  <2>. QED  BY <1>1, <1>2, <2>1, <2>2
<1>. HIDE DEF full
<1>6. CASE n < size
  <2>1. k = 1 /\ First(n + 1, size) = 1
    BY <1>1, <1>6 DEF First
  <2>. HIDE DEF k, n
  <2>2. next \in Seq(S) /\ Len(next) = n + 1 /\ \A i \in 1..(n + 1) : next[i] = wider[i]
    <3>1. \A i \in 1..(n + 1) : wider[i] \in S
      BY <1>3
    <3>. QED  BY <1>1, <1>4, <2>1, <3>1, SubSeqProperties
  <2>3. Len(full) = n + 1 /\ \A i \in 1..(n + 1) : full[i] = next[i]
    BY <1>1, <1>5, <2>1, <2>2
  <2>4. full = next
    BY <1>5, <2>2, <2>3, SeqEqual
  <2>. QED  BY <1>1, <1>6, <2>3, <2>4
<1>7. CASE n >= size
  <2>1. First(n + 1, size) = k + 1 /\ n - k + 1 = size
    BY <1>1, <1>7 DEF First
  <2>. HIDE DEF k, n
  <2>2. next \in Seq(S) /\ Len(next) = size /\ \A i \in 1..size : next[i] = wider[k + i]
    <3>. DEFINE a == k + 1
                e == n + 1
    <3>1. /\ a \in Int /\ e \in Int /\ k \in Int
          /\ a = k + 1 /\ e - a + 1 = size /\ a >= 1 /\ e = n + 1 /\ n \in Nat
      BY <1>1, <2>1
    <3>2. next = SubSeq(wider, a, e)
      BY <1>4, <2>1
    <3>. HIDE DEF a, e
    <3>3. \A i \in a..e : wider[i] \in S
      <4>1. \A i \in 1..Len(wider) : wider[i] \in S
        BY <1>3
      <4>2. \A i \in a..e : i \in 1..Len(wider)
        BY <1>3, <3>1
      <4>. QED  BY <4>1, <4>2
    <3>4. /\ next \in Seq(S)
          /\ Len(next) = IF a <= e THEN e - a + 1 ELSE 0
          /\ \A i \in 1..(e - a + 1) : next[i] = wider[a + i - 1]
      BY <3>1, <3>2, <3>3, SubSeqProperties
    <3>5. \A i \in 1..size : a + i - 1 = k + i
      BY <3>1
    <3>. QED  BY <3>1, <3>4, <3>5
  <2>3. /\ Tail(full) \in Seq(S) /\ Len(Tail(full)) = size
        /\ \A i \in 1..size : Tail(full)[i] = wider[k + i]
    <3>1. full # <<>>
      BY <1>1, <1>5, <2>1
    <3>2. /\ Tail(full) \in Seq(S) /\ Len(Tail(full)) = Len(full) - 1
          /\ \A i \in 1..Len(Tail(full)) : Tail(full)[i] = full[i + 1]
      BY <1>5, <3>1, HeadTailProperties
    <3>3. \A i \in 1..size : i + 1 \in 1..(n - k + 2) /\ k + (i + 1) - 1 = k + i
      BY <1>1, <2>1
    <3>. QED  BY <1>1, <1>5, <2>1, <3>2, <3>3
  <2>4. Tail(full) = next
    BY <2>2, <2>3, SeqEqual
  <2>5. Len(full) > size
    BY <1>1, <1>5, <2>1
  <2>. QED  BY <2>4, <2>5
<1>. QED  BY <1>1, <1>6, <1>7

\* insert keeps the cache the window on the roots it took in.
LEMMA InsertWindow ==
  ASSUME NEW S, NEW c, NEW inserted \in Seq(S), Window(c, inserted),
         NEW root \in S, root \notin c.set
  PROVE  Window(insert(c, root), Append(inserted, root))
<1>. DEFINE full == Append(c.order, root)
<1>1. c.order = LastOf(inserted, max_size)
  BY RootCacheAssumption DEF Window, LastOf, First
<1>2. (IF Len(full) > max_size THEN Tail(full) ELSE full)
        = LastOf(Append(inserted, root), max_size)
  BY <1>1, SlidingWindow, RootCacheAssumption
<1>3. insert(c, root).order = IF Len(full) > max_size THEN Tail(full) ELSE full
  BY DEF insert
<1>4. insert(c, root).order = LastOf(Append(inserted, root), max_size)
  BY <1>2, <1>3
<1>. QED  BY <1>4, RootCacheAssumption DEF Window, LastOf, First
=============================================================================
