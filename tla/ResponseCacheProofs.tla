------------------------- MODULE ResponseCacheProofs -------------------------
(***************************************************************************)
(* Proofs about ResponseCache, for every set of keys, sizes and expiries   *)
(* and every limit that validateCache accepts: the map, the recency list   *)
(* and the byte counter stay in step, Put evicts no more than it must, and *)
(* the whole implements the abstract cache.                                *)
(***************************************************************************)
EXTENDS ResponseCache, FiniteLemmas, TLAPS

\* x comes before y in the list.
Before(list, x, y) ==
    \E m, n \in 1..Len(list) : m < n /\ list[m] = x /\ list[n] = y

Distinct(list) == \A i, j \in 1..Len(list) : list[i] = list[j] => i = j

\* The inductive invariant: what the run checks, and that the history knows the keys of the
\* list.
CacheInv == /\ TypeOK /\ ListMatchesMap /\ BytesExact /\ ListIsRecency
            /\ InList(lru) \subseteq InList(recency)

-----------------------------------------------------------------------------
(* lruList. *)

\* remove leaves the list alone if the key is not there, and otherwise closes the gap that
\* it leaves.
LEMMA WithoutShape ==
    ASSUME NEW list \in Seq(Keys), NEW k \in InList(list)
    PROVE  \E i \in 1..Len(list) :
             /\ list[i] = k /\ Without(list, k) \in Seq(Keys)
             /\ Len(list) \in Nat \ {0} /\ Len(Without(list, k)) = Len(list) - 1
             /\ \A j \in 1..(Len(list) - 1) :
                  Without(list, k)[j] = IF j < i THEN list[j] ELSE list[j + 1]
<1> DEFINE i == CHOOSE i \in 1..Len(list) : list[i] = k
<1>1. i \in 1..Len(list) /\ list[i] = k
    BY DEF InList
<1>2. Without(list, k) = [j \in 1..(Len(list) - 1) |-> IF j < i THEN list[j] ELSE list[j + 1]]
    BY DEF Without
<1> HIDE DEF i
<1>3. Len(list) \in Nat \ {0} /\ Len(list) - 1 \in Nat
    BY <1>1
<1>4. \A j \in 1..(Len(list) - 1) : (IF j < i THEN list[j] ELSE list[j + 1]) \in Keys
    BY <1>1, <1>3
<1>5. Without(list, k) \in Seq(Keys) /\ Len(Without(list, k)) = Len(list) - 1
    BY <1>2, <1>3, <1>4
<1> QED
    BY <1>1, <1>2, <1>3, <1>5

\* After remove the list holds the other keys, each once if it did before.
LEMMA WithoutKeys ==
    ASSUME NEW list \in Seq(Keys), NEW k
    PROVE  /\ Without(list, k) \in Seq(Keys)
           /\ InList(list) \ {k} \subseteq InList(Without(list, k))
           /\ InList(Without(list, k)) \subseteq InList(list)
<1>1. CASE k \notin InList(list)
    BY <1>1 DEF Without
<1>2. CASE k \in InList(list)
    <2> DEFINE w == Without(list, k)
    <2>1. PICK i \in 1..Len(list) :
             /\ list[i] = k /\ w \in Seq(Keys)
             /\ Len(list) \in Nat \ {0} /\ Len(w) = Len(list) - 1
             /\ \A j \in 1..(Len(list) - 1) : w[j] = IF j < i THEN list[j] ELSE list[j + 1]
        BY <1>2, WithoutShape
    <2> HIDE DEF w
    <2>2. ASSUME NEW x \in InList(list) \ {k} PROVE x \in InList(w)
        <3>1. PICK j \in 1..Len(list) : list[j] = x
            BY DEF InList
        <3>2. j # i
            BY <2>1, <3>1
        <3>3. CASE j < i
            <4>1. j \in 1..Len(w) /\ w[j] = x
                BY <2>1, <3>1, <3>3
            <4> QED
                BY <4>1 DEF InList
        <3>4. CASE j > i
            <4>1. j - 1 \in 1..Len(w) /\ ~(j - 1 < i) /\ (j - 1) + 1 = j
                BY <2>1, <3>1, <3>4
            <4>2. w[j - 1] = x
                BY <2>1, <3>1, <4>1
            <4> QED
                BY <4>1, <4>2 DEF InList
        <3> QED
            BY <2>1, <3>1, <3>2, <3>3, <3>4
    <2>3. ASSUME NEW x \in InList(w) PROVE x \in InList(list)
        <3>1. PICK j \in 1..Len(w) : w[j] = x
            BY DEF InList
        <3>2. j \in 1..Len(list) /\ j + 1 \in 1..Len(list)
            BY <2>1, <3>1
        <3> QED
            BY <2>1, <3>1, <3>2 DEF InList
    <2> QED
        BY <2>1, <2>2, <2>3 DEF w
<1> QED
    BY <1>1, <1>2

\* remove keeps a list free of repetitions so, and then the key is gone.
LEMMA WithoutDistinct ==
    ASSUME NEW list \in Seq(Keys), NEW k, Distinct(list)
    PROVE  /\ Distinct(Without(list, k))
           /\ InList(Without(list, k)) = InList(list) \ {k}
<1>1. CASE k \notin InList(list)
    BY <1>1 DEF Without
<1>2. CASE k \in InList(list)
    <2> DEFINE w == Without(list, k)
    <2>1. PICK i \in 1..Len(list) :
             /\ list[i] = k /\ w \in Seq(Keys)
             /\ Len(list) \in Nat \ {0} /\ Len(w) = Len(list) - 1
             /\ \A j \in 1..(Len(list) - 1) : w[j] = IF j < i THEN list[j] ELSE list[j + 1]
        BY <1>2, WithoutShape
    <2>2. /\ InList(list) \ {k} \subseteq InList(w)
          /\ InList(w) \subseteq InList(list)
        BY WithoutKeys
    <2> HIDE DEF w
    <2>3. ASSUME NEW j \in 1..Len(w) PROVE w[j] # k
        <3>1. j \in 1..Len(list) /\ j + 1 \in 1..Len(list)
            BY <2>1, <2>3
        <3>2. j < i => j # i
            BY <2>1, <2>3
        <3>3. ~(j < i) => j + 1 # i
            BY <2>1, <2>3
        <3> QED
            BY <2>1, <2>3, <3>1, <3>2, <3>3 DEF Distinct
    <2>4. k \notin InList(w)
        BY <2>3 DEF InList
    <2>5. ASSUME NEW a \in 1..Len(w), NEW b \in 1..Len(w), w[a] = w[b] PROVE a = b
        <3> DEFINE at(j) == IF j < i THEN j ELSE j + 1
        <3>1. \A j \in 1..Len(w) : at(j) \in 1..Len(list) /\ w[j] = list[at(j)]
            BY <2>1
        <3>2. at(a) = at(b)
            BY <2>5, <3>1 DEF Distinct
        <3> QED
            BY <2>1, <2>5, <3>2
    <2> QED
        BY <2>2, <2>4, <2>5 DEF w, Distinct
<1> QED
    BY <1>1, <1>2

\* remove keeps the order of the other keys.
LEMMA WithoutOrder ==
    ASSUME NEW list \in Seq(Keys), NEW k, NEW x, NEW y
    PROVE  /\ Before(list, x, y) /\ x # k /\ y # k => Before(Without(list, k), x, y)
           /\ Before(Without(list, k), x, y) => Before(list, x, y)
<1>1. CASE k \notin InList(list)
    BY <1>1 DEF Without
<1>2. CASE k \in InList(list)
    <2> DEFINE w == Without(list, k)
    <2>1. PICK i \in 1..Len(list) :
             /\ list[i] = k /\ w \in Seq(Keys)
             /\ Len(list) \in Nat \ {0} /\ Len(w) = Len(list) - 1
             /\ \A j \in 1..(Len(list) - 1) : w[j] = IF j < i THEN list[j] ELSE list[j + 1]
        BY <1>2, WithoutShape
    <2> HIDE DEF w
    <2>2. ASSUME Before(list, x, y), x # k, y # k PROVE Before(w, x, y)
        <3>1. PICK m \in 1..Len(list), n \in 1..Len(list) : m < n /\ list[m] = x /\ list[n] = y
            BY <2>2 DEF Before
        <3>2. m # i /\ n # i
            BY <2>1, <2>2, <3>1
        <3> DEFINE to(j) == IF j < i THEN j ELSE j - 1
        <3>3. ASSUME NEW j \in 1..Len(list), j # i PROVE to(j) \in 1..Len(w) /\ w[to(j)] = list[j]
            <4>1. CASE j < i
                BY <2>1, <3>3, <4>1
            <4>2. CASE j > i
                <5>1. j - 1 \in 1..(Len(list) - 1) /\ ~(j - 1 < i) /\ (j - 1) + 1 = j /\ ~(j < i)
                    BY <2>1, <3>3, <4>2
                <5> QED
                    BY <2>1, <5>1
            <4> QED
                BY <2>1, <3>3, <4>1, <4>2
        <3>4. to(m) < to(n)
            BY <2>1, <3>1, <3>2
        <3>5. to(m) \in 1..Len(w) /\ to(n) \in 1..Len(w) /\ w[to(m)] = x /\ w[to(n)] = y
            BY <3>1, <3>2, <3>3
        <3> HIDE DEF to
        <3> QED
            BY <3>4, <3>5 DEF Before
    <2>3. ASSUME Before(w, x, y) PROVE Before(list, x, y)
        <3>1. PICK m \in 1..Len(w), n \in 1..Len(w) : m < n /\ w[m] = x /\ w[n] = y
            BY <2>3 DEF Before
        <3> DEFINE at(j) == IF j < i THEN j ELSE j + 1
        <3>2. \A j \in 1..Len(w) : at(j) \in 1..Len(list) /\ w[j] = list[at(j)]
            BY <2>1
        <3>3. at(m) < at(n)
            BY <2>1, <3>1
        <3>4. at(m) \in 1..Len(list) /\ at(n) \in 1..Len(list) /\ list[at(m)] = x /\ list[at(n)] = y
            BY <3>1, <3>2
        <3> HIDE DEF at
        <3> QED
            BY <3>3, <3>4 DEF Before
    <2> QED
        BY <2>2, <2>3 DEF w
<1> QED
    BY <1>1, <1>2

\* A key put in front of a list comes before its keys, and leaves their order alone.
LEMMA PutInFront ==
    ASSUME NEW s \in Seq(Keys), NEW k \in Keys
    PROVE  /\ <<k>> \o s \in Seq(Keys) /\ Len(<<k>> \o s) = Len(s) + 1
           /\ InList(<<k>> \o s) = InList(s) \cup {k}
           /\ Distinct(s) /\ k \notin InList(s) => Distinct(<<k>> \o s)
           /\ \A x, y : Before(<<k>> \o s, x, y) <=> \/ Before(s, x, y)
                                                     \/ x = k /\ y \in InList(s)
<1> DEFINE f == <<k>> \o s
<1>1. /\ f \in Seq(Keys) /\ Len(f) = Len(s) + 1 /\ Len(s) \in Nat
      /\ f[1] = k /\ \A j \in 1..Len(s) : f[j + 1] = s[j]
    OBVIOUS
<1> HIDE DEF f
<1>2. \A j \in 1..Len(f) : j = 1 \/ (j - 1 \in 1..Len(s) /\ f[j] = s[j - 1])
    <2> TAKE j \in 1..Len(f)
    <2>1. CASE j # 1
        <3>1. j - 1 \in 1..Len(s) /\ (j - 1) + 1 = j
            BY <1>1, <2>1
        <3> QED
            BY <1>1, <3>1
    <2> QED
        BY <2>1
<1>3. InList(f) = InList(s) \cup {k}
    <2>1. ASSUME NEW x \in InList(f) PROVE x \in InList(s) \cup {k}
        BY <1>1, <1>2 DEF InList
    <2>2. ASSUME NEW x \in InList(s) PROVE x \in InList(f)
        <3>1. PICK j \in 1..Len(s) : s[j] = x
            BY DEF InList
        <3>2. j + 1 \in 1..Len(f) /\ f[j + 1] = x
            BY <1>1, <3>1
        <3> QED
            BY <3>2 DEF InList
    <2>3. k \in InList(f)
        <3>1. 1 \in 1..Len(f)
            BY <1>1
        <3> QED
            BY <1>1, <3>1 DEF InList
    <2> QED
        BY <2>1, <2>2, <2>3
<1>4. ASSUME Distinct(s), k \notin InList(s) PROVE Distinct(f)
    <2> SUFFICES ASSUME NEW i \in 1..Len(f), NEW j \in 1..Len(f), f[i] = f[j] PROVE i = j
        BY DEF Distinct
    <2>1. \A l \in 1..Len(s) : s[l] # k
        BY <1>4 DEF InList
    <2>2. CASE i = 1 \/ j = 1
        BY <1>1, <1>2, <2>1, <2>2
    <2>3. CASE i # 1 /\ j # 1
        <3>1. i - 1 \in 1..Len(s) /\ j - 1 \in 1..Len(s) /\ s[i - 1] = s[j - 1]
            BY <1>2, <2>3
        <3>2. i - 1 = j - 1
            BY <1>4, <3>1 DEF Distinct
        <3> QED
            BY <1>1, <3>2
    <2> QED
        BY <2>2, <2>3
<1>5. ASSUME NEW x, NEW y, Before(f, x, y) PROVE Before(s, x, y) \/ (x = k /\ y \in InList(s))
    <2>1. PICK m \in 1..Len(f), n \in 1..Len(f) : m < n /\ f[m] = x /\ f[n] = y
        BY <1>5 DEF Before
    <2>2. n # 1 /\ n - 1 \in 1..Len(s) /\ s[n - 1] = y
        BY <1>1, <1>2, <2>1
    <2>3. CASE m = 1
        BY <1>1, <2>1, <2>2, <2>3 DEF InList
    <2>4. CASE m # 1
        <3>1. m - 1 \in 1..Len(s) /\ s[m - 1] = x /\ m - 1 < n - 1
            BY <1>1, <1>2, <2>1, <2>4
        <3> QED
            BY <2>2, <3>1 DEF Before
    <2> QED
        BY <2>3, <2>4
<1>6. ASSUME NEW x, NEW y, Before(s, x, y) PROVE Before(f, x, y)
    <2>1. PICK m \in 1..Len(s), n \in 1..Len(s) : m < n /\ s[m] = x /\ s[n] = y
        BY <1>6 DEF Before
    <2>2. /\ m + 1 \in 1..Len(f) /\ n + 1 \in 1..Len(f) /\ m + 1 < n + 1
          /\ f[m + 1] = x /\ f[n + 1] = y
        BY <1>1, <2>1
    <2> QED
        BY <2>2 DEF Before
<1>7. ASSUME NEW y \in InList(s) PROVE Before(f, k, y)
    <2>1. PICK n \in 1..Len(s) : s[n] = y
        BY DEF InList
    <2>2. 1 \in 1..Len(f) /\ n + 1 \in 1..Len(f) /\ 1 < n + 1 /\ f[1] = k /\ f[n + 1] = y
        BY <1>1, <2>1
    <2> QED
        BY <2>2 DEF Before
<1> QED
    BY <1>1, <1>3, <1>4, <1>5, <1>6, <1>7 DEF f

\* The first n keys of a list.
LEMMA FirstKeys ==
    ASSUME NEW list \in Seq(Keys), NEW n \in 0..Len(list)
    PROVE  LET s == [h \in 1..n |-> list[h]] IN
             /\ s \in Seq(Keys) /\ Len(s) = n
             /\ InList(s) = {list[i] : i \in 1..n}
             /\ Distinct(list) => Distinct(s) /\ InList(s) = InList(list) \ EvictedKeys(list, n)
             /\ \A x, y : Before(s, x, y) => Before(list, x, y)
<1> DEFINE s == [h \in 1..n |-> list[h]]
<1>1. n \in Nat /\ Len(list) \in Nat /\ \A i \in 1..n : i \in 1..Len(list) /\ list[i] \in Keys
    OBVIOUS
<1>2. s \in Seq(Keys) /\ Len(s) = n /\ \A i \in 1..n : s[i] = list[i]
    BY <1>1
<1> HIDE DEF s
<1>3. InList(s) = {list[i] : i \in 1..n}
    BY <1>2 DEF InList
<1>4. ASSUME Distinct(list) PROVE Distinct(s) /\ InList(s) = InList(list) \ EvictedKeys(list, n)
    <2>1. Distinct(s)
        BY <1>1, <1>2, <1>4 DEF Distinct
    <2>2. ASSUME NEW x \in InList(s) PROVE x \in InList(list) \ EvictedKeys(list, n)
        <3>1. PICK i \in 1..n : list[i] = x
            BY <1>3
        <3>2. \A j \in (n + 1)..Len(list) : j \in 1..Len(list) /\ j # i
            BY <1>1
        <3>3. \A j \in (n + 1)..Len(list) : list[j] # x
            BY <1>1, <1>4, <3>1, <3>2 DEF Distinct
        <3> QED
            BY <1>1, <3>1, <3>3 DEF InList, EvictedKeys
    <2>3. ASSUME NEW x \in InList(list) \ EvictedKeys(list, n) PROVE x \in InList(s)
        <3>1. PICK i \in 1..Len(list) : list[i] = x
            BY DEF InList
        <3>2. i \notin (n + 1)..Len(list)
            BY <3>1 DEF EvictedKeys
        <3>3. i \in 1..n
            BY <1>1, <3>1, <3>2
        <3> QED
            BY <1>3, <3>1, <3>3
    <2> QED
        BY <2>1, <2>2, <2>3
<1>5. \A x, y : Before(s, x, y) => Before(list, x, y)
    BY <1>1, <1>2 DEF Before
<1> QED
    BY <1>2, <1>3, <1>4, <1>5 DEF s

-----------------------------------------------------------------------------
(* What the invariant says, in the terms of the lemmas. *)

\* What is stored has a size and an expiry.
LEMMA StoredSizes ==
    ASSUME TypeOK, NEW k \in Stored
    PROVE  k \in Keys /\ entries[k] \in Entry /\ entries[k].size \in Nat /\ entries[k].expires \in Nat
<1>1. k \in Keys /\ entries[k] \in Entry
    BY DEF Stored, TypeOK
<1> QED
    BY <1>1, InputsAssumption DEF Entry

\* The keys of a list are finitely many, and no more than it has places.
LEMMA ListFinite ==
    ASSUME NEW list \in Seq(Keys)
    PROVE  IsFiniteSet(InList(list)) /\ Cardinality(InList(list)) <= Len(list)
<1>1. Len(list) \in Nat
    OBVIOUS
<1>2. IsFiniteSet(1..Len(list)) /\ Cardinality(1..Len(list)) = Len(list)
    BY <1>1, FS_Interval
<1>3. list \in [1..Len(list) -> InList(list)]
    BY DEF InList
<1>4. list \in Surjection(1..Len(list), InList(list))
    BY <1>3 DEF Surjection, InList
<1> QED
    BY <1>2, <1>4, FS_Surjection

\* The map is finite, its list has every stored key once, the counter is their sum.
LEMMA StateFacts ==
    ASSUME CacheInv
    PROVE  /\ lru \in Seq(Keys) /\ Distinct(lru) /\ InList(lru) = Stored
           /\ recency \in Seq(Keys) /\ IsFiniteSet(Stored) /\ Stored \subseteq Keys
           /\ \A k \in Stored : entries[k].size \in Nat
           /\ totalBytes = SizeSum(entries, Stored)
           /\ \A x, y : Before(lru, x, y) => Before(recency, x, y)
<1>1. lru \in Seq(Keys) /\ Distinct(lru) /\ InList(lru) = Stored /\ recency \in Seq(Keys)
    BY DEF CacheInv, TypeOK, ListMatchesMap, Distinct
<1>2. IsFiniteSet(Stored)
    BY <1>1, ListFinite
<1>3. \A k \in Stored : entries[k].size \in Nat
    BY StoredSizes DEF CacheInv
<1>4. totalBytes = SizeSum(entries, Stored)
    BY DEF CacheInv, BytesExact, BytesOf, SizeSum
<1>5. ASSUME NEW x, NEW y, Before(lru, x, y) PROVE Before(recency, x, y)
    <2>1. PICK i \in 1..Len(lru), j \in 1..Len(lru) : i < j /\ lru[i] = x /\ lru[j] = y
        BY <1>5 DEF Before
    <2> QED
        BY <2>1 DEF CacheInv, ListIsRecency, Before
<1> QED
    BY <1>1, <1>2, <1>3, <1>4, <1>5 DEF Stored

\* The converse: how the invariant is established after a step.
LEMMA FactsGiveInv ==
    ASSUME entries' \in [Keys -> Entry \cup {None}], now' \in 0..MaxNow, got' \in Entry \cup {None},
           lru' \in Seq(Keys), Distinct(lru'), InList(lru') = Stored', recency' \in Seq(Keys),
           totalBytes' = SizeSum(entries', Stored'),
           \A x, y : Before(lru', x, y) => Before(recency', x, y),
           InList(lru') \subseteq InList(recency')
    PROVE  CacheInv'
<1>1. IsFiniteSet(Stored')
    BY ListFinite
<1>2. \A k \in Stored' : entries'[k].size \in Nat
    BY InputsAssumption DEF Stored, Entry
<1>3. totalBytes' \in Nat
    BY <1>1, <1>2, SumType
<1>4. ListIsRecency'
    <2> SUFFICES ASSUME NEW i \in 1..Len(lru'), NEW j \in 1..Len(lru'), i < j
                 PROVE  Before(recency', lru'[i], lru'[j])
        BY DEF ListIsRecency, Before
    <2>1. Before(lru', lru'[i], lru'[j])
        BY DEF Before
    <2> QED
        BY <2>1
<1>5. BytesExact'
    BY DEF BytesExact, BytesOf, SizeSum, MapThenSumSet, MapThenFoldSet
<1>6. ListMatchesMap'
    BY DEF ListMatchesMap, InList, Distinct
<1>7. TypeOK'
    BY <1>3 DEF TypeOK
<1> QED
    BY <1>4, <1>5, <1>6, <1>7 DEF CacheInv, InList

-----------------------------------------------------------------------------
(* Get. *)

\* An expired entry goes from the map, the list and the counter.
LEMMA GetExpiredInv ==
    ASSUME CacheInv, NEW k \in Keys, GetExpired(k)
    PROVE  CacheInv'
<1>1. /\ lru \in Seq(Keys) /\ Distinct(lru) /\ InList(lru) = Stored
      /\ recency \in Seq(Keys) /\ IsFiniteSet(Stored) /\ Stored \subseteq Keys
      /\ \A j \in Stored : entries[j].size \in Nat
      /\ totalBytes = SizeSum(entries, Stored)
      /\ \A x, y : Before(lru, x, y) => Before(recency, x, y)
    BY StateFacts
<1>2. /\ k \in Stored /\ entries' = [entries EXCEPT ![k] = None]
      /\ totalBytes' = totalBytes - entries[k].size /\ lru' = Without(lru, k)
      /\ got' = None /\ now' = now /\ recency' = recency
    BY DEF GetExpired, Drop, Stored
<1>3. entries \in [Keys -> Entry \cup {None}]
    BY DEF CacheInv, TypeOK
<1>4. Stored' = Stored \ {k} /\ \A j \in Stored \ {k} : entries'[j] = entries[j]
    BY <1>2, <1>3 DEF Stored
<1>5. lru' \in Seq(Keys) /\ Distinct(lru') /\ InList(lru') = Stored \ {k}
    BY <1>1, <1>2, WithoutKeys, WithoutDistinct
<1>6. totalBytes' = SizeSum(entries', Stored')
    <2>1. IsFiniteSet(Stored \ {k}) /\ \A j \in Stored \ {k} : entries[j].size \in Nat
        BY <1>1, FS_Subset
    <2>2. SizeSum(entries, Stored) = entries[k].size + SizeSum(entries, Stored \ {k})
        BY <1>1, <1>2, SumRemove
    <2>3. SizeSum(entries, Stored \ {k}) = SizeSum(entries', Stored \ {k})
        BY <1>4, <2>1, SumSame
    <2>4. SizeSum(entries, Stored \ {k}) \in Nat /\ entries[k].size \in Nat
        BY <1>1, <1>2, <2>1, SumType
    <2> QED
        BY <1>1, <1>2, <1>4, <2>2, <2>3, <2>4
<1>7. entries' \in [Keys -> Entry \cup {None}]
    BY <1>2, <1>3
<1>8. now' \in 0..MaxNow /\ got' \in Entry \cup {None}
    BY <1>2 DEF CacheInv, TypeOK
<1>9. \A x, y : Before(lru', x, y) => Before(recency', x, y)
    BY <1>1, <1>2, WithoutOrder
<1>10. InList(lru') \subseteq InList(recency')
    BY <1>1, <1>2, <1>5 DEF CacheInv
<1> QED
    BY <1>1, <1>2, <1>4, <1>5, <1>6, <1>7, <1>8, <1>9, <1>10, FactsGiveInv

\* A hit moves its key to the front of the list and of the history.
LEMMA GetHitInv ==
    ASSUME CacheInv, NEW k \in Keys, GetHit(k)
    PROVE  CacheInv'
<1>1. /\ lru \in Seq(Keys) /\ Distinct(lru) /\ InList(lru) = Stored
      /\ recency \in Seq(Keys)
      /\ totalBytes = SizeSum(entries, Stored)
      /\ \A x, y : Before(lru, x, y) => Before(recency, x, y)
    BY StateFacts
<1>2. /\ k \in Stored /\ lru' = <<k>> \o Without(lru, k) /\ recency' = <<k>> \o Without(recency, k)
      /\ got' = entries[k] /\ UNCHANGED <<entries, totalBytes, now>>
    BY DEF GetHit, Touch, InFront, Stored
<1>3. /\ Without(lru, k) \in Seq(Keys) /\ Distinct(Without(lru, k))
      /\ InList(Without(lru, k)) = Stored \ {k}
    BY <1>1, WithoutKeys, WithoutDistinct
<1>4. lru' \in Seq(Keys) /\ Distinct(lru') /\ InList(lru') = Stored
    <2> DEFINE w == Without(lru, k)
    <2>1. w \in Seq(Keys) /\ Distinct(w) /\ k \notin InList(w) /\ InList(w) \cup {k} = Stored
        BY <1>2, <1>3
    <2>2. lru' = <<k>> \o w
        BY <1>2
    <2> HIDE DEF w
    <2> QED
        BY <2>1, <2>2, PutInFront
<1>5. /\ Without(recency, k) \in Seq(Keys) /\ recency' \in Seq(Keys)
      /\ InList(recency) \ {k} \subseteq InList(Without(recency, k))
      /\ InList(recency') = InList(Without(recency, k)) \cup {k}
    BY <1>1, <1>2, WithoutKeys, PutInFront
<1>6. InList(lru) \subseteq InList(recency)
    BY DEF CacheInv
<1>7. ASSUME NEW x, NEW y, Before(lru', x, y) PROVE Before(recency', x, y)
    <2>1. Before(Without(lru, k), x, y) \/ (x = k /\ y \in InList(Without(lru, k)))
        BY <1>2, <1>3, <1>7, PutInFront
    <2>2. CASE Before(Without(lru, k), x, y)
        <3>1. x \in InList(Without(lru, k)) /\ y \in InList(Without(lru, k))
            BY <2>2 DEF Before, InList
        <3>2. x # k /\ y # k /\ Before(recency, x, y)
            BY <1>1, <1>3, <2>2, <3>1, WithoutOrder
        <3>3. Before(Without(recency, k), x, y)
            BY <1>1, <3>2, WithoutOrder
        <3> QED
            BY <1>2, <1>5, <3>3, PutInFront
    <2>3. CASE x = k /\ y \in InList(Without(lru, k))
        <3>1. y \in InList(Without(recency, k))
            BY <1>1, <1>3, <1>5, <1>6, <2>3
        <3> QED
            BY <1>2, <1>5, <2>3, <3>1, PutInFront
    <2> QED
        BY <2>1, <2>2, <2>3
<1>8. Stored' = Stored
    BY <1>2 DEF Stored
<1>9. /\ entries' \in [Keys -> Entry \cup {None}] /\ now' \in 0..MaxNow
      /\ got' \in Entry \cup {None}
    BY <1>2 DEF CacheInv, TypeOK
<1>10. InList(lru') \subseteq InList(recency')
    BY <1>1, <1>4, <1>5, <1>6
<1>11. totalBytes' = SizeSum(entries', Stored')
    BY <1>1, <1>2, <1>8
<1> QED
    BY <1>4, <1>5, <1>7, <1>8, <1>9, <1>10, <1>11, FactsGiveInv

-----------------------------------------------------------------------------
(* Put. *)

\* The eviction loop ends, with the greatest number of keys that fit, or none.
LEMMA KeepFacts ==
    ASSUME lru \in Seq(Keys), NEW k, NEW e
    PROVE  /\ Keep(k, e) \in 0..Len(Without(lru, k))
           /\ Keep(k, e) = 0 \/ Fits(k, e, Keep(k, e))
           /\ \A m \in (Keep(k, e) + 1)..Len(Without(lru, k)) : ~Fits(k, e, m)
<1> DEFINE L == Len(Without(lru, k))
           T == {n \in 0..L : n = 0 \/ Fits(k, e, n)}
<1>1. L \in Nat
    BY WithoutKeys
<1> HIDE DEF L
<1>2. T \in SUBSET (0..L) /\ 0 \in T
    BY <1>1
<1>3. PICK n \in T : \A m \in T : m <= n
    <2> HIDE DEF T
    <2>1. T # {}
        BY <1>2
    <2> QED
        BY <1>1, <1>2, <2>1, GreatestUpTo
<1>4. ASSUME NEW m \in (n + 1)..L, Fits(k, e, m) PROVE FALSE
    <2>1. m \in 0..L /\ ~(m <= n)
        BY <1>1, <1>2, <1>3, <1>4
    <2> QED
        BY <1>3, <1>4, <2>1
<1>5. /\ n \in 0..L /\ (n = 0 \/ Fits(k, e, n))
      /\ \A m \in (n + 1)..L : ~Fits(k, e, m)
    BY <1>3, <1>4
<1> QED
    BY <1>5 DEF L, Keep

\* What Put(k, e) leaves, when list is the recency list without k and n keys of it stay.
PutOutcome(list, n, k, e) ==
    /\ list = Without(lru, k) /\ Distinct(list) /\ InList(list) = Stored \ {k}
    /\ n = Keep(k, e) /\ EvictedKeys(list, n) \subseteq Stored \ {k}
    /\ lru' = <<k>> \o [h \in 1..n |-> list[h]]
    /\ entries' = [j \in Keys |-> IF j = k THEN e
                                  ELSE IF j \in EvictedKeys(list, n) THEN None
                                  ELSE entries[j]]
    /\ entries' \in [Keys -> Entry \cup {None}]
    /\ Stored' = ((Stored \ {k}) \ EvictedKeys(list, n)) \cup {k}
    /\ BytesWithout(k) = SizeSum(entries, Stored \ {k})
    /\ totalBytes' = (BytesWithout(k) - SizeSum(entries, EvictedKeys(list, n))) + e.size
    /\ totalBytes' = SizeSum(entries', Stored')
    /\ n < MaxEntries /\ totalBytes' <= MaxBytes
    /\ e.size \in Nat

\* What Put leaves: with list the other keys and n how many of them stay, the keys, the
\* counter and the limits.
LEMMA PutFacts ==
    ASSUME CacheInv, NEW k \in Keys, NEW e \in Entry, PutStored(k, e)
    PROVE  \E list \in Seq(Keys) : \E n \in 0..Len(list) : PutOutcome(list, n, k, e)
<1> DEFINE list == Without(lru, k)
           n == Keep(k, e)
           gone == EvictedKeys(list, n)
<1>1. /\ lru \in Seq(Keys) /\ Distinct(lru) /\ InList(lru) = Stored
      /\ IsFiniteSet(Stored) /\ Stored \subseteq Keys
      /\ \A j \in Stored : entries[j].size \in Nat
      /\ totalBytes = SizeSum(entries, Stored)
    BY StateFacts
<1>2. list \in Seq(Keys) /\ Distinct(list) /\ InList(list) = Stored \ {k}
    BY <1>1, WithoutKeys, WithoutDistinct
<1>3. /\ n \in 0..Len(list) /\ (n = 0 \/ Fits(k, e, n))
    BY <1>1, KeepFacts
<1>4. /\ e.size <= MaxEntryBytes
      /\ entries' = [j \in Keys |-> IF j = k THEN e ELSE IF j \in gone THEN None ELSE entries[j]]
      /\ lru' = <<k>> \o [h \in 1..n |-> list[h]]
      /\ totalBytes' = BytesWithout(k) - BytesOf(gone) + e.size
    BY DEF PutStored
<1>5. entries \in [Keys -> Entry \cup {None}] /\ e.size \in Nat /\ e # None
    BY InputsAssumption DEF CacheInv, TypeOK, Entry
<1>6. Fits(k, e, n) <=> /\ n < MaxEntries
                        /\ BytesWithout(k) - BytesOf(gone) + e.size <= MaxBytes
    BY DEF Fits
<1>7. BytesOf(gone) = SizeSum(entries, gone)
    BY DEF BytesOf, SizeSum
<1> HIDE DEF list, n
<1>8. gone \subseteq Stored \ {k} /\ (n = 0 => gone = Stored \ {k})
    <2>1. \A i \in (n + 1)..Len(list) : i \in 1..Len(list)
        BY <1>2, <1>3
    <2>2. n = 0 => (n + 1)..Len(list) = 1..Len(list)
        OBVIOUS
    <2> QED
        BY <1>2, <2>1, <2>2 DEF EvictedKeys, InList
<1> HIDE DEF gone
<1>9. Stored' = ((Stored \ {k}) \ gone) \cup {k}
    BY <1>4, <1>5, <1>8 DEF Stored
<1>10. entries' \in [Keys -> Entry \cup {None}]
    BY <1>4, <1>5
<1> DEFINE others == Stored \ {k}
           stay == others \ gone
<1>11. /\ IsFiniteSet(others) /\ IsFiniteSet(gone) /\ IsFiniteSet(stay) /\ gone \in SUBSET others
       /\ \A j \in others : entries[j].size \in Nat
    BY <1>1, <1>8, FS_Subset
<1>12. BytesWithout(k) = SizeSum(entries, others)
    <2>1. CASE k \in Stored
        <3>1. SizeSum(entries, Stored) = entries[k].size + SizeSum(entries, others)
            BY <1>1, <2>1, SumRemove
        <3>2. SizeSum(entries, others) \in Nat /\ entries[k].size \in Nat
            BY <1>1, <1>11, <2>1, SumType
        <3> QED
            BY <1>1, <2>1, <3>1, <3>2 DEF BytesWithout, Stored
    <2>2. CASE k \notin Stored
        <3>1. others = Stored /\ entries[k] = None
            BY <2>2 DEF Stored
        <3>2. SizeSum(entries, Stored) \in Nat
            BY <1>1, SumType
        <3>3. BytesWithout(k) = totalBytes - 0
            BY <3>1 DEF BytesWithout
        <3>4. BytesWithout(k) = SizeSum(entries, Stored)
            BY <1>1, <3>2, <3>3
        <3> QED
            BY <3>1, <3>4
    <2> QED
        BY <2>1, <2>2
<1>13. /\ SizeSum(entries, others) = SizeSum(entries, gone) + SizeSum(entries, stay)
       /\ SizeSum(entries, gone) \in Nat /\ SizeSum(entries, stay) \in Nat
    <2>1. \A j \in gone : entries[j].size \in Nat
        BY <1>11
    <2>2. \A j \in stay : entries[j].size \in Nat
        BY <1>11
    <2>3. SizeSum(entries, gone) \in Nat /\ SizeSum(entries, stay) \in Nat
        BY <1>11, <2>1, <2>2, SumType
    <2> HIDE DEF others
    <2>4. SizeSum(entries, others) = SizeSum(entries, gone) + SizeSum(entries, others \ gone)
        BY <1>11, SumSplit
    <2> QED
        BY <2>3, <2>4
<1>14. SizeSum(entries', Stored') = e.size + SizeSum(entries, stay)
    <2>1. /\ \A j \in stay : entries'[j] = entries[j]
          /\ entries'[k] = e /\ Stored' \ {k} = stay /\ k \in Stored'
        BY <1>1, <1>4, <1>9
    <2>2. IsFiniteSet(Stored')
        BY <1>9, <1>11, FS_AddElement
    <2>3. \A j \in Stored' : entries'[j].size \in Nat
        BY <1>5, <1>9, <1>11, <2>1
    <2>4. SizeSum(entries', Stored') = entries'[k].size + SizeSum(entries', Stored' \ {k})
        BY <2>1, <2>2, <2>3, SumRemove
    <2>5. SizeSum(entries, stay) = SizeSum(entries', stay)
        BY <1>11, <2>1, SumSame
    <2> QED
        BY <2>1, <2>4, <2>5
<1> HIDE DEF others, stay
<1>15. totalBytes' = SizeSum(entries', Stored')
    BY <1>4, <1>5, <1>7, <1>12, <1>13, <1>14
<1>16. totalBytes' = (BytesWithout(k) - SizeSum(entries, gone)) + e.size
    BY <1>4, <1>5, <1>7, <1>12, <1>13
<1>17. n < MaxEntries /\ totalBytes' <= MaxBytes
    <2>1. CASE Fits(k, e, n)
        BY <1>4, <1>6, <2>1
    <2>2. CASE n = 0
        <3>1. SizeSum(entries, stay) = 0
            <4>1. stay = {}
                BY <1>8, <2>2 DEF stay, others
            <4> QED
                BY <4>1, SumEmpty
        <3>2. totalBytes' = e.size
            BY <1>5, <1>14, <1>15, <3>1
        <3> QED
            BY <1>4, <1>5, <2>2, <3>2, ValidatedAssumption
    <2> QED
        BY <1>3, <2>1, <2>2
<1> QED
    BY <1>2, <1>3, <1>4, <1>5, <1>8, <1>9, <1>10, <1>12, <1>15, <1>16, <1>17
       DEF gone, others, list, n, PutOutcome

\* Put leaves the keys that stay in their order, behind the new one.
LEMMA PutStoredInv ==
    ASSUME CacheInv, NEW k \in Keys, NEW e \in Entry, PutStored(k, e)
    PROVE  CacheInv'
<1>1. PICK list \in Seq(Keys) : \E n \in 0..Len(list) : PutOutcome(list, n, k, e)
    BY PutFacts
<1>a. PICK n \in 0..Len(list) : PutOutcome(list, n, k, e)
    BY <1>1
<1>2. /\ list = Without(lru, k) /\ Distinct(list) /\ InList(list) = Stored \ {k}
      /\ lru' = <<k>> \o [h \in 1..n |-> list[h]]
      /\ entries' \in [Keys -> Entry \cup {None}]
      /\ Stored' = ((Stored \ {k}) \ EvictedKeys(list, n)) \cup {k}
      /\ totalBytes' = SizeSum(entries', Stored')
    BY <1>a DEF PutOutcome
<1>3. /\ lru \in Seq(Keys) /\ Distinct(lru) /\ InList(lru) = Stored /\ recency \in Seq(Keys)
      /\ \A x, y : Before(lru, x, y) => Before(recency, x, y)
      /\ InList(lru) \subseteq InList(recency)
    BY StateFacts DEF CacheInv
<1>4. recency' = <<k>> \o Without(recency, k) /\ got' = None /\ now' = now
    BY DEF PutStored, InFront
<1> DEFINE s == [h \in 1..n |-> list[h]]
<1>5. /\ s \in Seq(Keys) /\ Distinct(s) /\ InList(s) = InList(list) \ EvictedKeys(list, n)
      /\ \A x, y : Before(s, x, y) => Before(list, x, y)
    BY <1>2, FirstKeys
<1>6. lru' = <<k>> \o s
    BY <1>2
<1> HIDE DEF s
<1>7. k \notin InList(s) /\ InList(s) \subseteq Stored \ {k} /\ InList(s) \cup {k} = Stored'
    BY <1>2, <1>5
<1>8. lru' \in Seq(Keys) /\ Distinct(lru') /\ InList(lru') = Stored'
    BY <1>5, <1>6, <1>7, PutInFront
<1>9. /\ Without(recency, k) \in Seq(Keys) /\ recency' \in Seq(Keys)
      /\ InList(recency) \ {k} \subseteq InList(Without(recency, k))
      /\ InList(recency') = InList(Without(recency, k)) \cup {k}
    BY <1>3, <1>4, WithoutKeys, PutInFront
<1>10. InList(lru') \subseteq InList(recency')
    BY <1>3, <1>7, <1>8, <1>9
<1>11. ASSUME NEW x, NEW y, Before(lru', x, y) PROVE Before(recency', x, y)
    <2>1. Before(s, x, y) \/ (x = k /\ y \in InList(s))
        BY <1>5, <1>6, <1>11, PutInFront
    <2>2. CASE Before(s, x, y)
        <3>1. x \in InList(s) /\ y \in InList(s)
            BY <2>2 DEF Before, InList
        <3>2. x # k /\ y # k
            BY <1>7, <3>1
        <3>3. Before(lru, x, y)
            BY <1>2, <1>3, <1>5, <2>2, WithoutOrder
        <3>4. Before(Without(recency, k), x, y)
            BY <1>3, <3>2, <3>3, WithoutOrder
        <3> QED
            BY <1>4, <1>9, <3>4, PutInFront
    <2>3. CASE x = k /\ y \in InList(s)
        <3>1. y \in InList(Without(recency, k))
            BY <1>3, <1>7, <1>9, <2>3
        <3> QED
            BY <1>4, <1>9, <2>3, <3>1, PutInFront
    <2> QED
        BY <2>1, <2>2, <2>3
<1>12. now' \in 0..MaxNow /\ got' \in Entry \cup {None}
    BY <1>4 DEF CacheInv, TypeOK
<1> QED
    BY <1>2, <1>8, <1>9, <1>10, <1>11, <1>12, FactsGiveInv

\* The other steps leave the map, the list, the counter and the history alone.
LEMMA IdleInv ==
    ASSUME CacheInv, UNCHANGED <<entries, lru, totalBytes, recency>>,
           now' \in 0..MaxNow, got' \in Entry \cup {None}
    PROVE  CacheInv'
<1>1. /\ lru \in Seq(Keys) /\ Distinct(lru) /\ InList(lru) = Stored /\ recency \in Seq(Keys)
      /\ totalBytes = SizeSum(entries, Stored)
      /\ \A x, y : Before(lru, x, y) => Before(recency, x, y)
      /\ entries \in [Keys -> Entry \cup {None}]
      /\ InList(lru) \subseteq InList(recency)
    BY StateFacts DEF CacheInv, TypeOK
<1>2. Stored' = Stored
    BY DEF Stored
<1> QED
    BY <1>1, <1>2, FactsGiveInv

-----------------------------------------------------------------------------
(* The theorems. *)

\* The empty cache satisfies the invariant.
LEMMA InitInv == Init => CacheInv
<1> SUFFICES ASSUME Init PROVE CacheInv
    OBVIOUS
<1>1. Stored = {} /\ lru = <<>> /\ recency = <<>> /\ totalBytes = 0
    BY DEF Init, Stored
<1>2. Len(lru) = 0 /\ InList(lru) = {} /\ InList(recency) = {}
    BY <1>1 DEF InList
<1>3. TypeOK
    <2>1. now \in 0..MaxNow
        BY InputsAssumption DEF Init
    <2> QED
        BY <2>1 DEF Init, TypeOK
<1>4. BytesExact
    <2>1. BytesOf(Stored) = SizeSum(entries, Stored)
        BY DEF BytesOf, SizeSum
    <2>2. SizeSum(entries, Stored) = 0
        BY <1>1, SumEmpty
    <2> QED
        BY <1>1, <2>1, <2>2 DEF BytesExact
<1>5. ListMatchesMap /\ ListIsRecency
    BY <1>1, <1>2 DEF ListMatchesMap, ListIsRecency
<1> QED
    BY <1>2, <1>3, <1>4, <1>5 DEF CacheInv

\* Every operation keeps it.
LEMMA NextInv == CacheInv /\ [Next]_vars => CacheInv'
<1> SUFFICES ASSUME CacheInv, [Next]_vars PROVE CacheInv'
    OBVIOUS
<1>1. now \in 0..MaxNow /\ got \in Entry \cup {None}
    BY DEF CacheInv, TypeOK
<1>2. ASSUME NEW k \in Keys, GetMiss(k) PROVE CacheInv'
    <2>1. UNCHANGED <<entries, lru, totalBytes, recency>> /\ now' = now /\ got' = None
        BY <1>2 DEF GetMiss
    <2> QED
        BY <1>1, <2>1, IdleInv
<1>3. ASSUME NEW k \in Keys, GetExpired(k) \/ GetHit(k) PROVE CacheInv'
    BY <1>3, GetExpiredInv, GetHitInv
<1>4. ASSUME NEW k \in Keys, NEW e \in Entry, PutRejected(k, e) PROVE CacheInv'
    <2>1. UNCHANGED <<entries, lru, totalBytes, recency>> /\ now' = now /\ got' = None
        BY <1>4 DEF PutRejected
    <2> QED
        BY <1>1, <2>1, IdleInv
<1>5. ASSUME NEW k \in Keys, NEW e \in Entry, PutStored(k, e) PROVE CacheInv'
    BY <1>5, PutStoredInv
<1>6. CASE Tick
    <2>1. UNCHANGED <<entries, lru, totalBytes, recency>> /\ got' = got
        BY <1>6 DEF Tick
    <2>2. now' \in 0..MaxNow
        BY <1>1, <1>6, InputsAssumption DEF Tick
    <2> QED
        BY <1>1, <2>1, <2>2, IdleInv
<1>7. CASE UNCHANGED vars
    BY <1>1, <1>7, IdleInv DEF vars
<1> QED
    BY <1>2, <1>3, <1>4, <1>5, <1>6, <1>7 DEF Next

\* Types, list, counter and recency together are inductive.
THEOREM CacheInvariant == Spec => []CacheInv
  BY InitInv, NextInv, PTL DEF Spec

\* Every variable keeps its type: in particular the byte counter never becomes negative.
THEOREM TypeCorrect == Spec => []TypeOK
<1>1. CacheInv => TypeOK
    BY DEF CacheInv
<1> QED
    BY <1>1, CacheInvariant, PTL

\* The map and the recency list always hold the same keys, each once.
THEOREM ListAlwaysMatchesMap == Spec => []ListMatchesMap
<1>1. CacheInv => ListMatchesMap
    BY DEF CacheInv
<1> QED
    BY <1>1, CacheInvariant, PTL

\* The byte counter is always the sum of the stored sizes.
THEOREM BytesAlwaysExact == Spec => []BytesExact
<1>1. CacheInv => BytesExact
    BY DEF CacheInv
<1> QED
    BY <1>1, CacheInvariant, PTL

\* The list is always in the order of use, so that the back of it is the least recently used.
THEOREM ListAlwaysRecency == Spec => []ListIsRecency
<1>1. CacheInv => ListIsRecency
    BY DEF CacheInv
<1> QED
    BY <1>1, CacheInvariant, PTL

-----------------------------------------------------------------------------
(* Eviction. *)

\* The most recent key that Put evicts is the first one behind those that stay, and it had
\* to go.
LEMMA PutEvicts ==
    ASSUME CacheInv, NEW k \in Keys, NEW e \in Entry, PutStored(k, e),
           NEW i \in 1..Len(lru), entries'[lru[i]] = None,
           \A j \in 1..(i - 1) : entries'[lru[j]] # None
    PROVE  \/ Len(lru') + 1 > MaxEntries
           \/ totalBytes' + entries[lru[i]].size > MaxBytes
<1>1. PICK list \in Seq(Keys) : \E n \in 0..Len(list) : PutOutcome(list, n, k, e)
    BY PutFacts
<1>a. PICK n \in 0..Len(list) : PutOutcome(list, n, k, e)
    BY <1>1
<1>2. /\ list = Without(lru, k) /\ Distinct(list) /\ InList(list) = Stored \ {k}
      /\ n = Keep(k, e)
      /\ lru' = <<k>> \o [h \in 1..n |-> list[h]]
      /\ entries' = [j \in Keys |-> IF j = k THEN e
                                    ELSE IF j \in EvictedKeys(list, n) THEN None
                                    ELSE entries[j]]
      /\ BytesWithout(k) = SizeSum(entries, Stored \ {k})
      /\ totalBytes' = (BytesWithout(k) - SizeSum(entries, EvictedKeys(list, n))) + e.size
      /\ e.size \in Nat
    BY <1>a DEF PutOutcome
<1>3. /\ lru \in Seq(Keys) /\ Distinct(lru) /\ InList(lru) = Stored
      /\ IsFiniteSet(Stored) /\ Stored \subseteq Keys
      /\ \A j \in Stored : entries[j].size \in Nat
    BY StateFacts
<1>4. Len(list) \in Nat /\ n \in Nat /\ Len(lru) \in Nat
    BY <1>2, <1>3
<1>5. lru[i] \in Stored /\ lru[i] \in EvictedKeys(list, n) /\ lru[i] # k
    <2>1. lru[i] \in Stored
        BY <1>3 DEF InList
    <2>2. entries[lru[i]] # None /\ lru[i] \in Keys /\ e # None
        BY <2>1, InputsAssumption DEF Stored
    <2> QED
        BY <1>2, <2>1, <2>2
<1>6. PICK p \in (n + 1)..Len(list) : list[p] = lru[i]
    BY <1>5 DEF EvictedKeys
<1>7. n + 1 \in 1..Len(list) /\ n + 1 \in (n + 1)..Len(list) /\ p \in 1..Len(list) /\ n + 1 <= p
    BY <1>4, <1>6
<1>8. lru[i] = list[n + 1]
    <2> SUFFICES ASSUME p # n + 1 PROVE FALSE
        BY <1>6
    <2>1. n + 1 < p
        BY <1>4, <1>7
    <2>2. Before(list, list[n + 1], lru[i])
        BY <1>6, <1>7, <2>1 DEF Before
    <2>3. Before(lru, list[n + 1], lru[i])
        BY <1>2, <1>3, <2>2, WithoutOrder
    <2>4. PICK a \in 1..Len(lru), b \in 1..Len(lru) :
             a < b /\ lru[a] = list[n + 1] /\ lru[b] = lru[i]
        BY <2>3 DEF Before
    <2>5. b = i
        BY <1>3, <2>4 DEF Distinct
    <2>6. a \in 1..(i - 1)
        BY <1>4, <2>4, <2>5
    <2>7. list[n + 1] \in EvictedKeys(list, n) /\ list[n + 1] \in Stored \ {k}
        BY <1>2, <1>7 DEF EvictedKeys, InList
    <2>8. entries'[list[n + 1]] = None
        BY <1>2, <1>3, <2>7
    <2> QED
        BY <2>4, <2>6, <2>8
<1>9. ~Fits(k, e, n + 1)
    BY <1>2, <1>3, <1>7, KeepFacts
<1> DEFINE gone == EvictedKeys(list, n)
           fewer == EvictedKeys(list, n + 1)
<1>10. fewer = gone \ {lru[i]} /\ lru[i] \in gone
    <2>1. \A q \in (n + 1)..Len(list) : q = n + 1 \/ q \in ((n + 1) + 1)..Len(list)
        BY <1>4
    <2>2. \A q \in ((n + 1) + 1)..Len(list) : /\ q \in (n + 1)..Len(list) /\ q # n + 1
                                             /\ q \in 1..Len(list)
        BY <1>4
    <2>3. \A q \in ((n + 1) + 1)..Len(list) : list[q] # list[n + 1]
        BY <1>2, <1>7, <2>2 DEF Distinct
    <2> QED
        BY <1>5, <1>8, <2>1, <2>2, <2>3 DEF EvictedKeys
<1>11. gone \subseteq Stored \ {k}
    <2>1. \A q \in (n + 1)..Len(list) : q \in 1..Len(list)
        BY <1>4
    <2> QED
        BY <1>2, <2>1 DEF EvictedKeys, InList
<1>12. Fits(k, e, n + 1) <=> /\ n + 1 < MaxEntries
                             /\ BytesWithout(k) - BytesOf(fewer) + e.size <= MaxBytes
    BY <1>2 DEF Fits
<1>13. BytesOf(fewer) = SizeSum(entries, fewer)
    BY DEF BytesOf, SizeSum
<1> HIDE DEF gone, fewer
<1>14. /\ SizeSum(entries, gone) = entries[lru[i]].size + SizeSum(entries, fewer)
       /\ SizeSum(entries, fewer) \in Nat /\ entries[lru[i]].size \in Nat
    <2>1. IsFiniteSet(gone) /\ \A j \in gone : entries[j].size \in Nat
        BY <1>3, <1>11, FS_Subset
    <2>2. IsFiniteSet(fewer) /\ \A j \in fewer : entries[j].size \in Nat
        BY <1>10, <2>1, FS_Subset
    <2>3. SizeSum(entries, gone) = entries[lru[i]].size + SizeSum(entries, gone \ {lru[i]})
        BY <1>10, <2>1, SumRemove
    <2> QED
        BY <1>3, <1>5, <1>10, <2>2, <2>3, SumType
<1>15. BytesWithout(k) \in Nat
    <2>1. IsFiniteSet(Stored \ {k}) /\ \A j \in Stored \ {k} : entries[j].size \in Nat
        BY <1>3, FS_Subset
    <2> QED
        BY <1>2, <2>1, SumType
<1>16. Len(lru') = n + 1
    <2> DEFINE s == [h \in 1..n |-> list[h]]
    <2>1. s \in Seq(Keys) /\ Len(s) = n
        BY <1>2, FirstKeys
    <2>2. lru' = <<k>> \o s
        BY <1>2
    <2> HIDE DEF s
    <2> QED
        BY <2>1, <2>2, PutInFront
<1>17. totalBytes' + entries[lru[i]].size = (BytesWithout(k) - SizeSum(entries, fewer)) + e.size
    <2>1. totalBytes' = (BytesWithout(k) - SizeSum(entries, gone)) + e.size
        BY <1>2 DEF gone
    <2> DEFINE w == BytesWithout(k)
               x == entries[lru[i]].size
               y == SizeSum(entries, fewer)
               z == e.size
               t == totalBytes'
    <2>2. w \in Nat /\ x \in Nat /\ y \in Nat /\ z \in Nat
        BY <1>2, <1>14, <1>15
    <2>3. t = (w - (x + y)) + z
        BY <1>14, <2>1
    <2> HIDE DEF w, x, y, z, t
    <2>4. t + x = (w - y) + z
        BY <2>2, <2>3
    <2> QED
        BY <2>4 DEF w, x, y, z, t
<1> DEFINE u == totalBytes' + entries[lru[i]].size
<1>18. u = (BytesWithout(k) - BytesOf(fewer)) + e.size
    BY <1>13, <1>17
<1>19. u \in Int
    <2>1. e.size \in Nat /\ BytesWithout(k) \in Nat /\ BytesOf(fewer) \in Nat
        BY <1>2, <1>13, <1>14, <1>15
    <2> HIDE DEF u
    <2> QED
        BY <1>18, <2>1
<1>20. ~(n + 1 < MaxEntries) \/ ~(u <= MaxBytes)
    <2> HIDE DEF u
    <2> QED
        BY <1>9, <1>12, <1>18
<1>21. Len(lru') + 1 > MaxEntries \/ u > MaxBytes
    <2>1. MaxEntries \in Nat /\ MaxBytes \in Nat
        BY ValidatedAssumption
    <2>2. Len(lru') = n + 1 /\ n \in Nat
        BY <1>4, <1>16
    <2> HIDE DEF u
    <2> QED
        BY <1>19, <1>20, <2>1, <2>2
<1> QED
    BY <1>21

\* Whatever was in the cache, Put evicts from the back of the list and stops as soon as both
\* limits hold.
THEOREM EvictsOnlyAsNeededAlways == Spec => EvictsOnlyAsNeeded
<1> DEFINE Needed ==
             \A i \in 1..Len(lru) :
               LET evicted(j) == entries'[lru[j]] = None
               IN /\ evicted(i) /\ \A j \in 1..(i - 1) : ~evicted(j)
                  /\ \E k \in Keys, e \in Entry : PutStored(k, e)
                  => \/ Len(lru') + 1 > MaxEntries
                     \/ totalBytes' + entries[lru[i]].size > MaxBytes
<1>1. CacheInv => Needed
    <2> SUFFICES ASSUME CacheInv, NEW k \in Keys, NEW e \in Entry, PutStored(k, e),
                        NEW i \in 1..Len(lru), entries'[lru[i]] = None,
                        \A j \in 1..(i - 1) : ~(entries'[lru[j]] = None)
                 PROVE  \/ Len(lru') + 1 > MaxEntries
                        \/ totalBytes' + entries[lru[i]].size > MaxBytes
        BY Zenon
    <2> QED
        BY PutEvicts
<1> HIDE DEF Needed
<1>2. Spec => [][Needed]_vars
    BY <1>1, CacheInvariant, PTL DEF Spec
<1> QED
    BY <1>2 DEF Needed, EvictsOnlyAsNeeded

-----------------------------------------------------------------------------
(* The abstract cache. *)

\* What Put leaves is within both limits.
LEMMA PutWithinLimits ==
    ASSUME CacheInv, NEW k \in Keys, NEW e \in Entry, PutStored(k, e)
    PROVE  Service!Store(k, e)
<1>1. PICK list \in Seq(Keys) : \E n \in 0..Len(list) : PutOutcome(list, n, k, e)
    BY PutFacts
<1>a. PICK n \in 0..Len(list) : PutOutcome(list, n, k, e)
    BY <1>1
<1>2. /\ EvictedKeys(list, n) \subseteq Stored \ {k}
      /\ lru' = <<k>> \o [h \in 1..n |-> list[h]]
      /\ entries' = [j \in Keys |-> IF j = k THEN e
                                    ELSE IF j \in EvictedKeys(list, n) THEN None
                                    ELSE entries[j]]
      /\ totalBytes' = SizeSum(entries', Stored')
      /\ n < MaxEntries /\ totalBytes' <= MaxBytes
    BY <1>a DEF PutOutcome
<1>3. CacheInv'
    BY PutStoredInv
<1>4. lru' \in Seq(Keys) /\ InList(lru') = Stored'
    BY <1>3 DEF CacheInv, TypeOK, ListMatchesMap, InList
<1>5. Len(lru') = n + 1
    <2> DEFINE s == [h \in 1..n |-> list[h]]
    <2>1. s \in Seq(Keys) /\ Len(s) = n
        BY <1>2, FirstKeys
    <2>2. lru' = <<k>> \o s
        BY <1>2
    <2> HIDE DEF s
    <2> QED
        BY <2>1, <2>2, PutInFront
<1>6. Cardinality(Stored') <= MaxEntries
    <2>1. IsFiniteSet(Stored') /\ Cardinality(Stored') <= n + 1
        BY <1>4, <1>5, ListFinite
    <2>2. Cardinality(Stored') \in Nat
        BY <2>1, FS_CardinalityType
    <2> QED
        BY <1>2, <2>1, <2>2, ValidatedAssumption
<1>7. Service!Holding(entries') = Stored' /\ Service!Holding(entries) = Stored
    BY DEF Service!Holding, Stored
<1>8. Service!WithinLimits(entries')
    <2>1. SizeSum(entries', Service!Holding(entries')) <= MaxBytes
        BY <1>2, <1>7
    <2>2. Cardinality(Service!Holding(entries')) <= MaxEntries
        BY <1>6, <1>7
    <2> QED
        BY <2>1, <2>2 DEF Service!WithinLimits, SizeSum, MapThenSumSet, MapThenFoldSet,
           Service!MapThenSumSet, Service!MapThenFoldSet, Cardinality, Service!Cardinality
<1>9. now' = now
    BY DEF PutStored
<1> QED
    BY <1>2, <1>7, <1>8, <1>9 DEF Service!Store

\* A step of the list and the counter is a step of the abstract cache or none at all.
LEMMA ServiceStep == CacheInv /\ [Next]_vars => [Service!Next]_(Service!vars)
<1> SUFFICES ASSUME CacheInv, [Next]_vars PROVE [Service!Next]_(Service!vars)
    OBVIOUS
<1>1. entries \in [Keys -> Entry \cup {None}] /\ now \in Nat
    BY InputsAssumption DEF CacheInv, TypeOK
<1>2. ASSUME NEW k \in Keys, entries[k] # None PROVE entries[k].expires \in Nat
    BY <1>1, <1>2, InputsAssumption DEF Entry
<1>3. CASE UNCHANGED vars
    BY <1>3 DEF vars, Service!vars
<1>4. ASSUME NEW k \in Keys, GetMiss(k) \/ GetExpired(k) PROVE Service!Next
    <2>1. entries' = [entries EXCEPT ![k] = None] /\ now' = now /\ got' = None
        BY <1>1, <1>4 DEF GetMiss, GetExpired, Drop
    <2>2. entries[k] # None => now > entries[k].expires
        BY <1>1, <1>2, <1>4 DEF GetMiss, GetExpired, Fresh
    <2>3. Service!Lookup(k)
        BY <2>1, <2>2 DEF Service!Lookup, Service!Miss
    <2> QED
        BY <2>3 DEF Service!Next
<1>5. ASSUME NEW k \in Keys, GetHit(k) PROVE Service!Next
    <2>1. Service!Lookup(k)
        BY <1>5 DEF GetHit, Fresh, Service!Lookup, Service!Hit
    <2> QED
        BY <2>1 DEF Service!Next
<1>6. ASSUME NEW k \in Keys, NEW e \in Entry, PutRejected(k, e) PROVE Service!Next
    BY <1>6 DEF PutRejected, Service!Next, Service!Decline
<1>7. ASSUME NEW k \in Keys, NEW e \in Entry, PutStored(k, e) PROVE Service!Next
    <2>1. Service!Store(k, e)
        BY <1>7, PutWithinLimits
    <2>2. got' = None
        BY <1>7 DEF PutStored
    <2> QED
        BY <2>1, <2>2 DEF Service!Next
<1>8. CASE Tick
    BY <1>8 DEF Tick, Service!Next, Service!Tick
<1> QED
    BY <1>3, <1>4, <1>5, <1>6, <1>7, <1>8 DEF Next

\* The cache with its recency list, byte counter and eviction loop implements the abstract
\* one: it serves, unexpired, what was last stored under the key, and Put leaves it within
\* max_entries and max_bytes.
THEOREM Implements == Spec => ImplementsCache
<1>1. Init => Service!Init
    BY DEF Init, Service!Init, Service!Empty
<1> QED
    BY <1>1, ServiceStep, CacheInvariant, PTL DEF Spec, ImplementsCache, Service!Spec
=============================================================================
