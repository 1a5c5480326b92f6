---------------------------- MODULE ResponseCache ----------------------------
(***************************************************************************)
(* The bounded LRU cache of the proxy, internal/cache/cache.go and lru.go: *)
(* a map, a recency list and a byte counter that its two operations must   *)
(* keep in step. Cache.mu makes Get and Put atomic, so each is one action. *)
(* A response is abstracted to its body size and its expiry, which the     *)
(* caller computed before the call and which may have passed by then.      *)
(***************************************************************************)
EXTENDS Integers, Sequences, FiniteSetsExt

CONSTANTS
    Keys,           \* cache keys (BuildKey); never the empty string
    None,           \* no entry, no answer
    Sizes,          \* body sizes offered to Put
    Expiries,       \* expiries offered to Put
    MaxEntries, MaxBytes, MaxEntryBytes,   \* cache.Config; 0 is no limit
    MaxNow          \* bound on the clock

\* validateCache (internal/config/validate.go) runs before cache.New in runClient.
ASSUME ValidatedAssumption ==
    /\ MaxEntries \in Nat \ {0} /\ MaxBytes \in Nat \ {0}
    /\ MaxEntryBytes \in 1..MaxBytes

Entry == [size : Sizes, expires : Expiries]

ASSUME InputsAssumption == /\ Sizes \subseteq Nat /\ Expiries \subseteq Nat
                           /\ MaxNow \in Nat /\ None \notin Entry

VARIABLES
    entries,      \* entries[k]: the entry under k, or None
    lru,          \* lruList.l, most recently used key first; lruList.keys is its range
    totalBytes,   \* Cache.totalBytes
    now,          \* Cache.clock
    got,          \* what the last Get returned, None after a miss or a Put
    recency       \* history: keys by their last store or hit, latest first

vars == <<entries, lru, totalBytes, now, got, recency>>

Stored == {k \in Keys : entries[k] # None}
InList(list) == {list[i] : i \in 1..Len(list)}
BytesOf(ks) == MapThenSumSet(LAMBDA k : entries[k].size, ks)

\* lruList.remove; the list has no key twice.
Without(list, k) ==
    IF k \notin InList(list) THEN list
    ELSE LET i == CHOOSE i \in 1..Len(list) : list[i] = k
         IN [j \in 1..(Len(list) - 1) |-> IF j < i THEN list[j] ELSE list[j + 1]]

InFront(k, list) == <<k>> \o Without(list, k)

-----------------------------------------------------------------------------
Init == /\ entries = [k \in Keys |-> None]
        /\ lru = <<>> /\ totalBytes = 0
        /\ now = 0 /\ got = None /\ recency = <<>>

\* Variant: expiry is not looked at.
AnyAge(k) == TRUE
Fresh(k) == now <= entries[k].expires

\* Variant: drop forgets the recency list.
DropFromMapOnly(k) == /\ entries' = [entries EXCEPT ![k] = None]
                      /\ totalBytes' = totalBytes - entries[k].size
                      /\ UNCHANGED lru

Drop(k) == /\ entries' = [entries EXCEPT ![k] = None]
           /\ totalBytes' = totalBytes - entries[k].size
           /\ lru' = Without(lru, k)

\* Variant: a hit does not count as a use.
NoTouch(k) == UNCHANGED lru
Touch(k) == lru' = InFront(k, lru)

GetMiss(k) == /\ entries[k] = None
              /\ got' = None
              /\ UNCHANGED <<entries, lru, totalBytes, now, recency>>

GetExpired(k) == /\ entries[k] # None /\ ~Fresh(k)
                 /\ Drop(k)
                 /\ got' = None
                 /\ UNCHANGED <<now, recency>>

GetHit(k) == /\ entries[k] # None /\ Fresh(k)
             /\ Touch(k)
             /\ got' = entries[k]
             /\ recency' = InFront(k, recency)
             /\ UNCHANGED <<entries, totalBytes, now>>

-----------------------------------------------------------------------------
\* Put. The key's old entry goes first, then entries from the back of the list until the
\* limits hold for the new one as well: Keep is the number of keys that stay.

\* Variants: the old entry's bytes stay counted; they are given back twice.
BytesNotGivenBack(k) == totalBytes
BytesGivenBackTwice(k) == totalBytes - (IF entries[k] = None THEN 0 ELSE 2 * entries[k].size)
BytesWithout(k) == totalBytes - (IF entries[k] = None THEN 0 ELSE entries[k].size)

EvictedKeys(list, n) == {list[i] : i \in (n + 1)..Len(list)}

\* Variant: there is one entry too many.
FitsWithOneMore(k, e, n) ==
    LET list == Without(lru, k) IN
      /\ n <= MaxEntries
      /\ BytesWithout(k) - BytesOf(EvictedKeys(list, n)) + e.size <= MaxBytes

\* Neither tooMany nor tooBig when the n most recent keys other than k are left.
Fits(k, e, n) ==
    LET list == Without(lru, k) IN
      /\ n < MaxEntries
      /\ BytesWithout(k) - BytesOf(EvictedKeys(list, n)) + e.size <= MaxBytes

\* Variant: the eviction loop empties the cache once it is full.
KeepAllOrNone(k, e) == LET all == Len(Without(lru, k))
                       IN IF Fits(k, e, all) THEN all ELSE 0

\* The loop stops at the first n that fits, or when the list is empty.
Keep(k, e) ==
    CHOOSE n \in 0..Len(Without(lru, k)) :
      /\ n = 0 \/ Fits(k, e, n)
      /\ \A m \in (n + 1)..Len(Without(lru, k)) : ~Fits(k, e, m)

PutRejected(k, e) == /\ e.size > MaxEntryBytes
                     /\ got' = None
                     /\ UNCHANGED <<entries, lru, totalBytes, now, recency>>

PutStored(k, e) ==
    /\ e.size <= MaxEntryBytes
    /\ LET list == Without(lru, k)
           n == Keep(k, e)
           evicted == EvictedKeys(list, n)
       IN /\ entries' = [j \in Keys |-> IF j = k THEN e
                                        ELSE IF j \in evicted THEN None ELSE entries[j]]
          /\ lru' = <<k>> \o [i \in 1..n |-> list[i]]
          /\ totalBytes' = BytesWithout(k) - BytesOf(evicted) + e.size
    /\ got' = None
    /\ recency' = InFront(k, recency)
    /\ UNCHANGED now

Tick == /\ now < MaxNow
        /\ now' = now + 1
        /\ UNCHANGED <<entries, lru, totalBytes, got, recency>>

Next == \/ \E k \in Keys :
             \/ GetMiss(k) \/ GetExpired(k) \/ GetHit(k)
             \/ \E e \in Entry : PutRejected(k, e) \/ PutStored(k, e)
        \/ Tick

Spec == Init /\ [][Next]_vars

-----------------------------------------------------------------------------
\* Every variable has its type.
TypeOK == /\ entries \in [Keys -> Entry \cup {None}]
          /\ lru \in Seq(Keys) /\ recency \in Seq(Keys)
          /\ totalBytes \in Nat
          /\ now \in 0..MaxNow
          /\ got \in Entry \cup {None}

\* The map and the recency list hold the same keys, each once: otherwise the eviction loop
\* of Put pops keys that free nothing, or an entry can never be evicted.
ListMatchesMap == /\ InList(lru) = Stored
                  /\ \A i, j \in 1..Len(lru) : lru[i] = lru[j] => i = j

\* totalBytes, kept up to date by every path that stores, replaces, evicts or drops, is the
\* sum of the sizes of what is stored.
BytesExact == totalBytes = BytesOf(Stored)

\* The list orders the stored keys by their last store or hit, so that evictOldest evicts
\* the least recently used one.
ListIsRecency == \A i, j \in 1..Len(lru) : i < j =>
    \E m, n \in 1..Len(recency) : m < n /\ recency[m] = lru[i] /\ recency[n] = lru[j]

\* Put evicts only what it must, whether its key is new or replaces an entry, the most recent
\* one included: had the most recent of the evicted entries stayed, one of the limits would
\* have been passed.
EvictsOnlyAsNeeded ==
    [][\A i \in 1..Len(lru) :
         LET evicted(j) == entries'[lru[j]] = None
         IN /\ evicted(i) /\ \A j \in 1..(i - 1) : ~evicted(j)
            /\ \E k \in Keys, e \in Entry : PutStored(k, e)
            => \/ Len(lru') + 1 > MaxEntries
               \/ totalBytes' + entries[lru[i]].size > MaxBytes]_vars

\* The abstract cache: the map alone.
Service == INSTANCE CacheService WITH Responses <- Entry, held <- entries

\* The list, the counter and the eviction loop implement a cache that stays within
\* max_entries and max_bytes and serves, unexpired, what was last stored.
ImplementsCache == Service!Spec
=============================================================================
