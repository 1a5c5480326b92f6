------------------------- MODULE CachingProxyProofs -------------------------
(***************************************************************************)
(* Proofs about CachingProxy, for every set of requests and executions,    *)
(* every two policies, every options and limits of the cache and every     *)
(* lifetime that origins state, whether or not it wraps around.            *)
(*                                                                         *)
(* The invariant follows an answer on its way through the cache: the       *)
(* execution belongs to one request, which both policies permitted         *)
(* (ExecutionInv); the entry made of it, while it waits for Put and while  *)
(* the cache holds it, is filed under the key of that request, may be      *)
(* shared and expires no later than the origin said (StoreInv, HeldInv);   *)
(* and what a browser was shown is such an answer (ReplyInv).              *)
(***************************************************************************)
EXTENDS CachingProxy, FiniteLemmas, TLAPS

Statuses == {"new", "open", "refused", "answered", "failed"}

TypeInv ==
    /\ pc \in [Requests -> {"idle", "relaying", "storing", "done"}]
    /\ req \in [Requests -> Kinds \cup {None}]
    /\ got \in [Executions -> Fetched \cup {None}]
    /\ entry \in [Requests -> Entries \cup {None}]
    /\ reply \in [Requests -> Replies \cup {None}]
    /\ held \in [Keys -> Entries \cup {None}]
    /\ now \in 0..MaxNow
    /\ status \in [Requests -> Statuses]
    /\ effects \in [Requests -> SUBSET Executions]

\* A request that is served has passed the proxy's policy, and only such a one is relayed.
Passed(r) ==
    /\ reply[r] = None <=> pc[r] # "done"
    /\ req[r] # None => pc[r] # "idle" /\ ~Refused(req[r])
    /\ status[r] \notin {"new", "refused"} => req[r] # None
    /\ pc[r] \in {"relaying", "storing"} => req[r] # None
    /\ Shown(r, {"relayed", "hit"}) => req[r] # None

RequestInv == \A r \in Requests : Passed(r)

\* The execution e was made for a request that is known and permitted, and its answer is from
\* a url that the dialer connects to.
MadeFor(e) == /\ e \in effects[got[e].of]
              /\ req[got[e].of] # None
              /\ Permitted(req[got[e].of]) /\ Dials(got[e].from)

ExecutionInv ==
    /\ \A e \in Executions : got[e] # None => MadeFor(e)
    /\ \A r \in Requests : \A e \in effects[r] : got[e] # None /\ got[e].of = r

\* The answer of execution e may be stored under key k and given to whoever asks for k.
Storable(k, e) ==
    /\ got[e] # None
    /\ k = BuildKey(req[got[e].of])
    /\ IsRequestCacheable(req[got[e].of])
    /\ IsResponseCacheable(req[got[e].of].method, got[e].resp)
    /\ CheckResponse(got[e].resp, ExitPolicy)

\* The entry n expires no later than its origin said.
InTime(n) == n.expires <= StatedEnd(got[n.exec].resp, req[got[n.exec].of].url, n.storedAt)

StoreInv ==
    \A r \in Requests : pc[r] = "storing" =>
        /\ entry[r] # None
        /\ got[entry[r].exec].of = r
        /\ Storable(BuildKey(req[r]), entry[r].exec) /\ InTime(entry[r])

HeldInv ==
    \A k \in Keys : held[k] # None => Storable(k, held[k].exec) /\ InTime(held[k])

ReplyInv ==
    \A r \in Requests :
        /\ Shown(r, {"relayed"}) =>
             /\ reply[r].exec \in Executions
             /\ got[reply[r].exec] # None /\ got[reply[r].exec].of = r
             /\ CheckResponse(got[reply[r].exec].resp, ExitPolicy)
        /\ Shown(r, {"hit"}) =>
             /\ reply[r].exec \in Executions
             /\ IsRequestCacheable(req[r]) /\ Storable(BuildKey(req[r]), reply[r].exec)

ProxyInv == TypeInv /\ RequestInv /\ ExecutionInv /\ StoreInv /\ HeldInv /\ ReplyInv

-----------------------------------------------------------------------------
(* Lifetimes. *)

\* A duration computed from a number of seconds may have wrapped around; it is never longer
\* than that number of seconds.
LEMMA SecondsBound ==
    ASSUME NEW n \in Nat
    PROVE  Seconds(n) \in Int /\ Seconds(n) <= n * Second /\ n * Second \in Nat
<1> DEFINE m == n * Second
           d == m % DurationValues
<1>1. Second \in Nat /\ DurationValues \in Nat \ {0}
    BY PolicyAssumption
<1>2. m \in Nat
    BY <1>1
<1>3. Seconds(n) = IF 2 * d >= DurationValues THEN d - DurationValues ELSE d
    BY DEF Seconds
<1> HIDE DEF m
<1>4. d \in Nat /\ d <= m
    BY <1>1, <1>2
<1> HIDE DEF d
<1>5. Seconds(n) \in Int /\ Seconds(n) <= m
    BY <1>1, <1>2, <1>3, <1>4
<1> QED
    BY <1>2, <1>5 DEF m

\* The max-age that counts is a number of seconds.
LEMMA FirstAgeType ==
    ASSUME NEW o \in Origins, MaxAges(o) # {}
    PROVE  FirstAge(o) \in Nat
<1> DEFINE cc == Get(o.cacheControl)
           T == MaxAges(o)
<1>1. cc \in Seq([name : STRING, arg : Int])
    BY InputsAssumption
<1>2. T \subseteq DOMAIN cc /\ \A i \in T : cc[i].arg >= 0
    BY DEF MaxAges
<1>3. DOMAIN cc \subseteq Nat /\ \A i \in DOMAIN cc : cc[i].arg \in Int
    <2> DEFINE Directives == [name : STRING, arg : Int]
    <2>1. \A d \in Directives : d.arg \in Int
        OBVIOUS
    <2> HIDE DEF cc
    <2>2. cc \in Seq(Directives)
        BY <1>1
    <2> HIDE DEF Directives
    <2>3. DOMAIN cc \subseteq Nat /\ \A i \in DOMAIN cc : cc[i] \in Directives
        BY <2>2
    <2> QED
        BY <2>1, <2>3
<1>4. FirstAge(o) = cc[CHOOSE i \in T : \A j \in T : i <= j].arg
    BY DEF FirstAge
<1> HIDE DEF T, cc
<1>5. \E i \in T : \A j \in T : i <= j
    <2>1. T \in SUBSET Nat /\ T # {}
        BY <1>2, <1>3 DEF T
    <2> QED
        BY <2>1, LeastNat
<1>6. (CHOOSE i \in T : \A j \in T : i <= j) \in T
    BY <1>5
<1> QED
    BY <1>2, <1>3, <1>4, <1>6

\* A stated lifetime ends at a point of time.
LEMMA StatedEndType ==
    ASSUME NEW o \in Origins, NEW url, NEW t \in Nat
    PROVE  StatedEnd(o, url, t) \in Int
<1>1. o.expires \in Int /\ DefaultTTLSeconds \in Int /\ Second \in Nat
    BY InputsAssumption, PolicyAssumption
<1>2. MaxAges(o) # {} => FirstAge(o) \in Nat
    BY FirstAgeType
<1>3. ASSUME NEW n \in Int PROVE t + n * Second \in Int
    BY <1>1
<1>4. MaxAges(o) # {} => t + FirstAge(o) * Second \in Int
    BY <1>2, <1>3
<1>5. t + DefaultTTLSeconds * Second \in Int
    BY <1>1, <1>3
<1> QED
    BY <1>1, <1>4, <1>5 DEF StatedEnd

\* What is stored is stored for no longer than the response states.
LEMMA LifetimeBound ==
    ASSUME NEW o \in Origins, NEW url, NEW t \in Nat, TTLFor(o, url, t) > 0
    PROVE  TTLFor(o, url, t) \in Int /\ t + TTLFor(o, url, t) <= StatedEnd(o, url, t)
<1>1. o.expires \in Int /\ DefaultTTLSeconds \in Int
    BY InputsAssumption, PolicyAssumption
<1>2. CASE MaxAges(o) # {}
    <2> DEFINE n == FirstAge(o)
    <2>1. n \in Nat
        BY <1>2, FirstAgeType
    <2>2. TTLFor(o, url, t) = Seconds(n) /\ StatedEnd(o, url, t) = t + n * Second
        BY <1>2 DEF TTLFor, StatedEnd
    <2> HIDE DEF n
    <2>3. Seconds(n) \in Int /\ Seconds(n) <= n * Second /\ n * Second \in Nat
        BY <2>1, SecondsBound
    <2> DEFINE m == n * Second
    <2> HIDE DEF m
    <2>4. t + Seconds(n) <= t + m
        BY <2>3 DEF m
    <2> QED
        BY <2>2, <2>3, <2>4 DEF m
<1>3. CASE MaxAges(o) = {} /\ o.expires > t
    <2>1. TTLFor(o, url, t) = o.expires - t /\ StatedEnd(o, url, t) = o.expires
        BY <1>3 DEF TTLFor, StatedEnd
    <2> QED
        BY <1>1, <2>1
<1>4. CASE MaxAges(o) = {} /\ ~(o.expires > t)
    <2>1. DefaultTTLSeconds > 0 /\ url.static
        BY <1>4 DEF TTLFor
    <2> DEFINE n == DefaultTTLSeconds
    <2>2. n \in Nat
        BY <1>1, <2>1
    <2>3. TTLFor(o, url, t) = Seconds(n) /\ StatedEnd(o, url, t) = t + n * Second
        BY <1>4, <2>1 DEF TTLFor, StatedEnd
    <2> HIDE DEF n
    <2>4. Seconds(n) \in Int /\ Seconds(n) <= n * Second /\ n * Second \in Nat
        BY <2>2, SecondsBound
    <2> DEFINE m == n * Second
    <2> HIDE DEF m
    <2>5. t + Seconds(n) <= t + m
        BY <2>4 DEF m
    <2> QED
        BY <2>3, <2>4, <2>5 DEF m
<1> QED
    BY <1>2, <1>3, <1>4

-----------------------------------------------------------------------------
(* Types. *)

\* The action of one goroutine, or of the exit for it.
RequestStep(r) ==
    \/ \E q \in Kinds : Refuse(r, q) \/ ServeHit(r, q) \/ Forward(r, q) \/ TooMany(r, q)
    \/ \E e \in Executions : Execute(r, e) \/ Receive(r, e)
    \/ GiveUp(r) \/ Put(r)

\* A request is not the absence of one, and has a key.
LEMMA KindNotNone == ASSUME NEW q \in Kinds PROVE q # None /\ BuildKey(q) \in Keys
    BY InputsAssumption DEF Keys

\* Reply makes a reply with the kind and the execution it is given.
LEMMA ReplyType ==
    ASSUME NEW kind \in {"refused", "error", "relayed", "hit"}, NEW e \in Executions \cup {None}
    PROVE  /\ Reply(kind, e) \in Replies /\ Reply(kind, e) # None
           /\ Reply(kind, e).kind = kind /\ Reply(kind, e).exec = e
<1>1. /\ Reply(kind, e) \in Replies
      /\ Reply(kind, e).kind = kind /\ Reply(kind, e).exec = e
    BY DEF Reply, Replies
<1>2. None \notin Replies
    BY InputsAssumption
<1> QED
    BY <1>1, <1>2

\* A lookup that misses drops at most an entry, and a relayed or refused request nothing else.
LEMMA MissedHeld ==
    ASSUME TypeInv, NEW q \in Kinds, Missed(q)
    PROVE  /\ held' \in [Keys -> Entries \cup {None}]
           /\ \A k \in Keys : held'[k] # None => held'[k] = held[k]
           /\ now' = now
<1>1. held \in [Keys -> Entries \cup {None}] /\ BuildKey(q) \in Keys
    BY KindNotNone DEF TypeInv
<1>2. CASE IsRequestCacheable(q)
    <2>1. held' = [held EXCEPT ![BuildKey(q)] = None] /\ now' = now
        BY <1>2 DEF Missed, Cache!Miss
    <2> QED
        BY <1>1, <2>1
<1>3. CASE ~IsRequestCacheable(q)
    BY <1>1, <1>3 DEF Missed, cacheVars
<1> QED
    BY <1>2, <1>3

\* What Store leaves was there, or is the new entry.
LEMMA StoredHeld ==
    ASSUME TypeInv, NEW k \in Keys, NEW n \in Entries, Cache!Store(k, n)
    PROVE  /\ held' \in [Keys -> Entries \cup {None}]
           /\ \A j \in Keys : held'[j] # None => held'[j] = held[j] \/ (j = k /\ held'[j] = n)
           /\ now' = now
<1>1. held \in [Keys -> Entries \cup {None}]
    BY DEF TypeInv
<1>2. PICK gone : held' = [j \in Keys |-> IF j = k THEN n
                                         ELSE IF j \in gone THEN None ELSE held[j]]
    BY DEF Cache!Store
<1>3. now' = now
    BY DEF Cache!Store
<1> QED
    BY <1>1, <1>2, <1>3

\* The entry Receive makes: of the right type, and not outliving what the origin said.
LEMMA MadeEntry ==
    ASSUME ProxyInv, NEW r \in Requests, NEW e \in Executions, Receive(r, e), Positive(TTL(r, e))
    PROVE  /\ [exec |-> e, size |-> got[e].resp.size, storedAt |-> now,
               expires |-> now + TTL(r, e)] \in Entries
           /\ now + TTL(r, e) <= StatedEnd(got[e].resp, req[r].url, now)
           /\ IsRequestCacheable(req[r]) /\ IsResponseCacheable(req[r].method, got[e].resp)
<1>1. e \in effects[r] /\ got[e] # None /\ got[e].of = r
    BY DEF Receive, Relay!Succeed, ProxyInv, ExecutionInv
<1>2. got[e] \in Fetched
    BY <1>1 DEF ProxyInv, TypeInv
<1>3. got[e].resp \in Origins /\ now \in 0..MaxNow /\ now \in Nat
    BY <1>2, LimitsAssumption DEF Fetched, ProxyInv, TypeInv
<1>4. TTL(r, e) > 0
    BY DEF Positive
<1>5. /\ IsRequestCacheable(req[r]) /\ IsResponseCacheable(req[r].method, got[e].resp)
      /\ TTL(r, e) = TTLFor(got[e].resp, req[r].url, now)
    BY <1>4 DEF TTL
<1>6. TTL(r, e) \in Int /\ now + TTL(r, e) <= StatedEnd(got[e].resp, req[r].url, now)
    BY <1>3, <1>4, <1>5, LifetimeBound
<1>7. now + TTL(r, e) \in Nat /\ got[e].resp.size \in Nat
    BY <1>3, <1>4, <1>6, InputsAssumption
<1> QED
    BY <1>3, <1>5, <1>6, <1>7 DEF Entries

\* What an action leaves of the relay's statuses and effects.
LEMMA RelayTypes ==
    ASSUME TypeInv, NEW r \in Requests,
           \/ Relay!Refuse(r) \/ Relay!Open(r) \/ Relay!Fail({r})
           \/ \E e \in Executions : Relay!Perform(r, e) \/ Relay!Succeed(r, {e})
           \/ UNCHANGED relayVars
    PROVE  status' \in [Requests -> Statuses] /\ effects' \in [Requests -> SUBSET Executions]
<1>1. status \in [Requests -> Statuses] /\ effects \in [Requests -> SUBSET Executions]
    BY DEF TypeInv
<1>2. CASE Relay!Refuse(r) \/ Relay!Open(r) \/ Relay!Fail({r})
    BY <1>1, <1>2 DEF Statuses, Relay!Refuse, Relay!Open, Relay!Fail
<1>3. ASSUME NEW e \in Executions, Relay!Perform(r, e) \/ Relay!Succeed(r, {e})
      PROVE  status' \in [Requests -> Statuses] /\ effects' \in [Requests -> SUBSET Executions]
    BY <1>1, <1>3 DEF Statuses, Relay!Perform, Relay!Succeed
<1>4. CASE UNCHANGED relayVars
    BY <1>1, <1>4 DEF relayVars
<1> QED
    BY <1>2, <1>3, <1>4

\* Ends changes pc and reply of one request only.
LEMMA EndsTypes ==
    ASSUME TypeInv, NEW r \in Requests, NEW answered \in Replies, Ends(r, answered)
    PROVE  /\ pc' \in [Requests -> {"idle", "relaying", "storing", "done"}]
           /\ reply' \in [Requests -> Replies \cup {None}]
           /\ pc'[r] = "done" /\ reply'[r] = answered
           /\ \A s \in Requests \ {r} : pc'[s] = pc[s] /\ reply'[s] = reply[s]
    BY DEF TypeInv, Ends

\* No step of a request leaves the types: above all, entry and held stay entries with times.
LEMMA TypeStep ==
    ASSUME ProxyInv, NEW r \in Requests, RequestStep(r)
    PROVE  TypeInv'
<1>1. TypeInv
    BY DEF ProxyInv
<1>2. ASSUME NEW q \in Kinds, Refuse(r, q) \/ TooMany(r, q) PROVE TypeInv'
    <2>1. Ends(r, Reply("refused", None)) /\ Relay!Refuse(r) /\ UNCHANGED <<req, got, entry>>
        BY <1>2 DEF Refuse, TooMany
    <2>2. held' \in [Keys -> Entries \cup {None}] /\ now' = now
        BY <1>1, <1>2, MissedHeld DEF Refuse, TooMany, cacheVars, TypeInv
    <2>3. /\ pc' \in [Requests -> {"idle", "relaying", "storing", "done"}]
          /\ reply' \in [Requests -> Replies \cup {None}]
        BY <1>1, <2>1, ReplyType, EndsTypes
    <2>4. status' \in [Requests -> Statuses] /\ effects' \in [Requests -> SUBSET Executions]
        BY <1>1, <2>1, RelayTypes
    <2> QED
        BY <1>1, <2>1, <2>2, <2>3, <2>4 DEF TypeInv
<1>3. ASSUME NEW q \in Kinds, ServeHit(r, q) PROVE TypeInv'
    <2>1. /\ req' = [req EXCEPT ![r] = q] /\ held[BuildKey(q)] # None
          /\ Ends(r, Reply("hit", held[BuildKey(q)].exec))
          /\ UNCHANGED <<got, entry, relayVars, held, now>>
        BY <1>3 DEF ServeHit, Served, Cache!Hit
    <2>2. held[BuildKey(q)].exec \in Executions
        BY <1>1, <2>1, KindNotNone DEF TypeInv, Entries
    <2>3. /\ pc' \in [Requests -> {"idle", "relaying", "storing", "done"}]
          /\ reply' \in [Requests -> Replies \cup {None}]
        BY <1>1, <2>1, <2>2, ReplyType, EndsTypes
    <2>4. status' \in [Requests -> Statuses] /\ effects' \in [Requests -> SUBSET Executions]
        BY <1>1, <2>1, RelayTypes
    <2>5. req' \in [Requests -> Kinds \cup {None}]
        BY <1>1, <2>1 DEF TypeInv
    <2> QED
        BY <1>1, <2>1, <2>3, <2>4, <2>5 DEF TypeInv
<1>4. ASSUME NEW q \in Kinds, Forward(r, q) PROVE TypeInv'
    <2>1. /\ req' = [req EXCEPT ![r] = q] /\ Missed(q) /\ pc' = [pc EXCEPT ![r] = "relaying"]
          /\ Relay!Open(r) /\ UNCHANGED <<got, entry, reply>>
        BY <1>4 DEF Forward, Served
    <2>2. held' \in [Keys -> Entries \cup {None}] /\ now' = now
        BY <1>1, <2>1, MissedHeld
    <2>3. status' \in [Requests -> Statuses] /\ effects' \in [Requests -> SUBSET Executions]
        BY <1>1, <2>1, RelayTypes
    <2>4. /\ req' \in [Requests -> Kinds \cup {None}]
          /\ pc' \in [Requests -> {"idle", "relaying", "storing", "done"}]
        BY <1>1, <2>1 DEF TypeInv
    <2> QED
        BY <1>1, <2>1, <2>2, <2>3, <2>4 DEF TypeInv
<1>5. ASSUME NEW e \in Executions, Execute(r, e) PROVE TypeInv'
    <2>1. PICK u \in {req[r].url} \cup Redirects, o \in Origins :
              Dials(u) /\ got' = [got EXCEPT ![e] = [of |-> r, resp |-> o, from |-> u]]
        BY <1>5 DEF Execute
    <2>2. got' \in [Executions -> Fetched \cup {None}]
        <3>1. req[r] # None
            BY <1>5 DEF Execute, Relay!Perform, ProxyInv, RequestInv, Passed
        <3>2. u \in Urls
            BY <1>1, <2>1, <3>1 DEF TypeInv, Urls
        <3>3. [of |-> r, resp |-> o, from |-> u] \in Fetched
            BY <3>2 DEF Fetched
        <3> QED
            BY <1>1, <2>1, <3>3 DEF TypeInv
    <2>3. status' \in [Requests -> Statuses] /\ effects' \in [Requests -> SUBSET Executions]
        BY <1>1, <1>5, RelayTypes DEF Execute
    <2> QED
        BY <1>1, <1>5, <2>2, <2>3 DEF TypeInv, Execute, cacheVars
<1>6. ASSUME NEW e \in Executions, Receive(r, e) PROVE TypeInv'
    <2>1. Relay!Succeed(r, {e}) /\ UNCHANGED <<req, got, held, now>>
        BY <1>6 DEF Receive, cacheVars
    <2>2. status' \in [Requests -> Statuses] /\ effects' \in [Requests -> SUBSET Executions]
        BY <1>1, <2>1, RelayTypes
    <2>3. CASE Positive(TTL(r, e))
        <3> DEFINE n == [exec |-> e, size |-> got[e].resp.size, storedAt |-> now,
                         expires |-> now + TTL(r, e)]
        <3>1. n \in Entries
            BY <1>6, <2>3, MadeEntry
        <3>2. /\ pc' = [pc EXCEPT ![r] = "storing"] /\ entry' = [entry EXCEPT ![r] = n]
              /\ reply' = reply
            BY <1>6, <2>3 DEF Receive
        <3> HIDE DEF n
        <3> QED
            BY <1>1, <2>1, <2>2, <3>1, <3>2 DEF TypeInv
    <2>4. CASE ~Positive(TTL(r, e))
        <3>1. Ends(r, Reply("relayed", e)) /\ entry' = entry
            BY <1>6, <2>4 DEF Receive
        <3>2. /\ pc' \in [Requests -> {"idle", "relaying", "storing", "done"}]
              /\ reply' \in [Requests -> Replies \cup {None}]
            BY <1>1, <3>1, ReplyType, EndsTypes
        <3> QED
            BY <1>1, <2>1, <2>2, <3>1, <3>2 DEF TypeInv
    <2> QED
        BY <2>3, <2>4
<1>7. CASE GiveUp(r)
    <2>1. /\ Ends(r, Reply("error", None)) /\ Relay!Fail({r})
          /\ UNCHANGED <<req, got, entry, held, now>>
        BY <1>7 DEF GiveUp, cacheVars
    <2>2. /\ pc' \in [Requests -> {"idle", "relaying", "storing", "done"}]
          /\ reply' \in [Requests -> Replies \cup {None}]
        BY <1>1, <2>1, ReplyType, EndsTypes
    <2>3. status' \in [Requests -> Statuses] /\ effects' \in [Requests -> SUBSET Executions]
        BY <1>1, <2>1, RelayTypes
    <2> QED
        BY <1>1, <2>1, <2>2, <2>3 DEF TypeInv
<1>8. CASE Put(r)
    <2>1. /\ pc[r] = "storing" /\ Cache!Store(BuildKey(req[r]), entry[r])
          /\ Ends(r, Reply("relayed", entry[r].exec)) /\ entry' = [entry EXCEPT ![r] = None]
          /\ UNCHANGED <<req, got, relayVars>>
        BY <1>8 DEF Put
    <2>2. entry[r] \in Entries /\ BuildKey(req[r]) \in Keys
        BY <1>1, <2>1, KindNotNone DEF ProxyInv, StoreInv, RequestInv, Passed, TypeInv
    <2>3. held' \in [Keys -> Entries \cup {None}] /\ now' = now
        BY <1>1, <2>1, <2>2, StoredHeld
    <2>4. entry[r].exec \in Executions
        BY <2>2 DEF Entries
    <2>5. /\ pc' \in [Requests -> {"idle", "relaying", "storing", "done"}]
          /\ reply' \in [Requests -> Replies \cup {None}]
        BY <1>1, <2>1, <2>4, ReplyType, EndsTypes
    <2>6. status' \in [Requests -> Statuses] /\ effects' \in [Requests -> SUBSET Executions]
        BY <1>1, <2>1, RelayTypes
    <2>7. entry' \in [Requests -> Entries \cup {None}]
        BY <1>1, <2>1 DEF TypeInv
    <2> QED
        BY <1>1, <2>1, <2>3, <2>5, <2>6, <2>7 DEF TypeInv
<1> QED
    BY <1>2, <1>3, <1>4, <1>5, <1>6, <1>7, <1>8 DEF RequestStep

-----------------------------------------------------------------------------
(* What a step leaves alone. *)

\* A step is of one request: it leaves the others where they are, and it neither replaces a
\* request that is being served nor takes back what an execution got.
LEMMA OthersStay ==
    ASSUME ProxyInv, NEW r \in Requests, RequestStep(r)
    PROVE  /\ \A s \in Requests \ {r} : /\ pc'[s] = pc[s] /\ req'[s] = req[s]
                                        /\ reply'[s] = reply[s] /\ entry'[s] = entry[s]
                                        /\ status'[s] = status[s]
           /\ req[r] # None => req'[r] = req[r]
           /\ \A e \in Executions : got[e] # None => got'[e] = got[e]
<1> USE DEF ProxyInv, TypeInv
<1>1. ASSUME NEW q \in Kinds, Refuse(r, q) \/ TooMany(r, q)
      PROVE  /\ \A s \in Requests \ {r} : pc'[s] = pc[s] /\ reply'[s] = reply[s]
                                          /\ status'[s] = status[s]
             /\ UNCHANGED <<req, got, entry>>
    BY <1>1 DEF Refuse, TooMany, Ends, Relay!Refuse
<1>2. ASSUME NEW q \in Kinds, ServeHit(r, q) \/ Forward(r, q)
      PROVE  /\ \A s \in Requests \ {r} : pc'[s] = pc[s] /\ reply'[s] = reply[s]
                                          /\ status'[s] = status[s] /\ req'[s] = req[s]
             /\ req[r] = None /\ UNCHANGED <<got, entry>>
    <2>1. pc[r] = "idle" /\ req' = [req EXCEPT ![r] = q] /\ UNCHANGED <<got, entry>>
        BY <1>2 DEF ServeHit, Forward, Served
    <2>2. \A s \in Requests \ {r} : pc'[s] = pc[s] /\ reply'[s] = reply[s]
                                    /\ status'[s] = status[s]
        BY <1>2 DEF ServeHit, Forward, Ends, Relay!Open, relayVars
    <2>3. req[r] = None
        BY <2>1 DEF RequestInv, Passed
    <2> QED
        BY <2>1, <2>2, <2>3
<1>3. ASSUME NEW e \in Executions, Execute(r, e)
      PROVE  /\ UNCHANGED <<pc, req, reply, entry, status>>
             /\ \A f \in Executions : got[f] # None => got'[f] = got[f]
    <2>1. PICK u \in {req[r].url} \cup Redirects, o \in Origins :
              Dials(u) /\ got' = [got EXCEPT ![e] = [of |-> r, resp |-> o, from |-> u]]
        BY <1>3 DEF Execute
    <2>2. UNCHANGED <<pc, req, reply, entry, status>> /\ \A q \in Requests : e \notin effects[q]
        BY <1>3 DEF Execute, Relay!Perform
    <2>3. got[e] = None
        BY <2>2 DEF ExecutionInv, MadeFor, Fetched
    <2> QED
        BY <2>1, <2>2, <2>3
<1>4. ASSUME NEW e \in Executions, Receive(r, e)
      PROVE  /\ \A s \in Requests \ {r} : pc'[s] = pc[s] /\ reply'[s] = reply[s]
                                          /\ status'[s] = status[s] /\ entry'[s] = entry[s]
             /\ UNCHANGED <<req, got>>
    BY <1>4 DEF Receive, Ends, Relay!Succeed
<1>5. CASE GiveUp(r) \/ Put(r)
    <2>1. /\ \A s \in Requests \ {r} : /\ pc'[s] = pc[s] /\ reply'[s] = reply[s]
                                       /\ status'[s] = status[s] /\ entry'[s] = entry[s]
          /\ UNCHANGED <<req, got>>
        BY <1>5 DEF GiveUp, Put, Ends, Relay!Fail, relayVars
    <2> QED
        BY <2>1
<1> QED
    BY <1>1, <1>2, <1>3, <1>4, <1>5 DEF RequestStep

\* Whom an answer was made for and what it says never changes, so an answer that may be
\* shared may be shared from then on.
LEMMA AnswersStay ==
    ASSUME ProxyInv, NEW r \in Requests, RequestStep(r), NEW e \in Executions, got[e] # None
    PROVE  /\ got'[e] = got[e] /\ req'[got[e].of] = req[got[e].of]
           /\ \A k : Storable(k, e) => Storable(k, e)'
           /\ \A n : n.exec = e /\ InTime(n) => InTime(n)'
<1>1. got'[e] = got[e]
    BY OthersStay
<1>2. got[e].of \in Requests /\ req[got[e].of] # None
    BY DEF ProxyInv, ExecutionInv, MadeFor, TypeInv, Fetched
<1>3. req'[got[e].of] = req[got[e].of]
    BY <1>2, OthersStay
<1>4. ASSUME NEW k, Storable(k, e) PROVE Storable(k, e)'
    BY <1>1, <1>3, <1>4 DEF Storable
<1>5. ASSUME NEW n, n.exec = e, InTime(n) PROVE InTime(n)'
    BY <1>1, <1>3, <1>5 DEF InTime
<1> QED
    BY <1>1, <1>3, <1>4, <1>5

-----------------------------------------------------------------------------
(* The invariant, conjunct by conjunct. *)

\* A request is relayed, or shown anything, only after the policy has passed it.
LEMMA RequestInvStep ==
    ASSUME ProxyInv, NEW r \in Requests, RequestStep(r)
    PROVE  RequestInv'
<1>1. \A s \in Requests : Passed(s)
    BY DEF ProxyInv, RequestInv
<1>2. ASSUME NEW s \in Requests \ {r} PROVE Passed(s)'
    BY <1>1, OthersStay DEF Passed, Shown
<1> USE DEF ProxyInv, TypeInv
<1>3. ASSUME NEW q \in Kinds, Refuse(r, q) \/ TooMany(r, q) PROVE Passed(r)'
    <2>1. /\ Ends(r, Reply("refused", None)) /\ Relay!Refuse(r)
          /\ pc[r] = "idle" /\ UNCHANGED req
        BY <1>3 DEF Refuse, TooMany
    <2>2. /\ pc'[r] = "done" /\ reply'[r] # None /\ reply'[r].kind = "refused"
          /\ status'[r] = "refused" /\ req[r] = None
        BY <1>1, <2>1, ReplyType DEF Ends, Relay!Refuse, Passed
    <2> QED
        BY <2>1, <2>2 DEF Passed, Shown
<1>4. ASSUME NEW q \in Kinds, ServeHit(r, q) PROVE Passed(r)'
    <2>1. /\ req' = [req EXCEPT ![r] = q] /\ held[BuildKey(q)] # None /\ ~Refused(q)
          /\ Ends(r, Reply("hit", held[BuildKey(q)].exec))
        BY <1>4 DEF ServeHit, Served, Cache!Hit
    <2>2. held[BuildKey(q)].exec \in Executions
        BY <2>1, KindNotNone DEF Entries
    <2>3. pc'[r] = "done" /\ reply'[r] # None /\ req'[r] = q /\ q # None
        BY <2>1, <2>2, ReplyType, KindNotNone DEF Ends
    <2> QED
        BY <2>1, <2>3 DEF Passed
<1>5. ASSUME NEW q \in Kinds, Forward(r, q) PROVE Passed(r)'
    <2>1. /\ req'[r] = q /\ q # None /\ ~Refused(q) /\ pc'[r] = "relaying"
          /\ reply'[r] = reply[r] /\ pc[r] = "idle"
        BY <1>5, KindNotNone DEF Forward, Served
    <2> QED
        BY <1>1, <2>1 DEF Passed
<1>6. ASSUME NEW e \in Executions, Execute(r, e) PROVE Passed(r)'
    BY <1>1, <1>6 DEF Execute, Relay!Perform, Passed, Shown
<1>7. ASSUME NEW e \in Executions, Receive(r, e) PROVE Passed(r)'
    <2>1. pc[r] = "relaying" /\ req' = req
        BY <1>7 DEF Receive
    <2>2. req[r] # None /\ ~Refused(req[r]) /\ reply[r] = None
        BY <1>1, <2>1 DEF Passed
    <2>3. CASE Positive(TTL(r, e))
        <3>1. pc'[r] = "storing" /\ reply'[r] = reply[r]
            BY <1>7, <2>3 DEF Receive
        <3> QED
            BY <2>1, <2>2, <3>1 DEF Passed
    <2>4. CASE ~Positive(TTL(r, e))
        <3>1. pc'[r] = "done" /\ reply'[r] # None
            BY <1>7, <2>4, ReplyType DEF Receive, Ends
        <3> QED
            BY <2>1, <2>2, <3>1 DEF Passed
    <2> QED
        BY <2>3, <2>4
<1>8. ASSUME GiveUp(r) PROVE Passed(r)'
    <2>1. pc[r] = "relaying" /\ req' = req /\ Ends(r, Reply("error", None))
        BY <1>8 DEF GiveUp
    <2>2. pc'[r] = "done" /\ reply'[r] # None
        BY <2>1, ReplyType DEF Ends
    <2> QED
        BY <1>1, <2>1, <2>2 DEF Passed
<1>9. ASSUME Put(r) PROVE Passed(r)'
    <2>1. pc[r] = "storing" /\ req' = req /\ Ends(r, Reply("relayed", entry[r].exec))
        BY <1>9 DEF Put
    <2>2. entry[r].exec \in Executions
        BY <2>1 DEF StoreInv, Entries
    <2>3. pc'[r] = "done" /\ reply'[r] # None
        BY <2>1, <2>2, ReplyType DEF Ends
    <2> QED
        BY <1>1, <2>1, <2>3 DEF Passed
<1>10. Passed(r)'
    BY <1>3, <1>4, <1>5, <1>6, <1>7, <1>8, <1>9 DEF RequestStep
<1> QED
    BY <1>2, <1>10 DEF RequestInv

\* Only a permitted request is executed, and an execution keeps the request it was made for.
LEMMA ExecutionInvStep ==
    ASSUME ProxyInv, NEW r \in Requests, RequestStep(r)
    PROVE  ExecutionInv'
<1> USE DEF ProxyInv, TypeInv
<1>1. ASSUME NEW e \in Executions, Execute(r, e) PROVE ExecutionInv'
    <2>1. PICK u \in {req[r].url} \cup Redirects, o \in Origins :
              Dials(u) /\ got' = [got EXCEPT ![e] = [of |-> r, resp |-> o, from |-> u]]
        BY <1>1 DEF Execute
    <2>2. /\ status[r] \notin {"new", "refused"} /\ Permitted(req[r]) /\ req' = req
          /\ \A q \in Requests : e \notin effects[q]
          /\ effects' = [effects EXCEPT ![r] = @ \cup {e}]
        BY <1>1 DEF Execute, Relay!Perform
    <2>3. req[r] # None
        BY <2>2 DEF RequestInv, Passed
    <2>4. /\ got'[e].of = r /\ got'[e] # None /\ e \in effects'[r]
          /\ got'[e].from = u /\ Dials(u)
        <3>1. got'[e] = [of |-> r, resp |-> o, from |-> u] /\ got'[e] \in Fetched
            BY <2>1, <2>3 DEF Fetched, Urls
        <3> QED
            BY <2>1, <2>2, <3>1, InputsAssumption
    <2>5. ASSUME NEW f \in Executions, got'[f] # None PROVE MadeFor(f)'
        <3>1. CASE f = e
            BY <2>2, <2>3, <2>4, <3>1 DEF MadeFor, Permitted, Dials
        <3>2. CASE f # e
            <4>1. got'[f] = got[f] /\ got[f].of \in Requests /\ MadeFor(f)
                BY <2>1, <2>5, <3>2 DEF ExecutionInv, Fetched
            <4> QED
                BY <2>2, <4>1 DEF MadeFor, Permitted, Dials
        <3> QED
            BY <3>1, <3>2
    <2>6. ASSUME NEW q \in Requests, NEW f \in effects'[q] PROVE got'[f] # None /\ got'[f].of = q
        <3>1. CASE f = e
            <4>1. q = r
                BY <2>2, <2>6, <3>1
            <4> QED
                BY <2>4, <3>1, <4>1
        <3>2. CASE f # e
            <4>1. f \in effects[q]
                BY <2>2, <2>6, <3>2
            <4>2. f \in Executions /\ got[f] # None /\ got[f].of = q
                BY <4>1 DEF ExecutionInv
            <4> QED
                BY <2>1, <3>2, <4>2
        <3> QED
            BY <3>1, <3>2
    <2> QED
        BY <2>5, <2>6 DEF ExecutionInv
<1>2. CASE UNCHANGED <<got, effects>>
    <2>1. ASSUME NEW e \in Executions, got'[e] # None PROVE MadeFor(e)'
        <3>1. got[e] # None /\ MadeFor(e)
            BY <1>2, <2>1 DEF ExecutionInv
        <3>2. got'[e] = got[e] /\ req'[got[e].of] = req[got[e].of]
            BY <3>1, AnswersStay
        <3> QED
            BY <1>2, <3>1, <3>2 DEF MadeFor, Permitted, Dials
    <2> QED
        BY <1>2, <2>1 DEF ExecutionInv
<1>3. (\E e \in Executions : Execute(r, e)) \/ UNCHANGED <<got, effects>>
    BY DEF RequestStep, Refuse, ServeHit, Forward, TooMany, Receive, GiveUp, Put, relayVars,
           Relay!Refuse, Relay!Open, Relay!Succeed, Relay!Fail
<1> QED
    BY <1>1, <1>2, <1>3

\* The entry that Receive prepares is storable, and stays so until Put, whatever others do.
LEMMA StoreInvStep ==
    ASSUME ProxyInv, NEW r \in Requests, RequestStep(r)
    PROVE  StoreInv'
<1> USE DEF ProxyInv, TypeInv
<1> DEFINE Pending(s) == /\ entry[s] # None
                         /\ got[entry[s].exec].of = s
                         /\ Storable(BuildKey(req[s]), entry[s].exec) /\ InTime(entry[s])
<1> SUFFICES ASSUME NEW s \in Requests, pc'[s] = "storing" PROVE Pending(s)'
    BY DEF StoreInv
<1>1. CASE pc[s] = "storing" /\ entry'[s] = entry[s]
    <2> PICK n : n = entry[s]
        OBVIOUS
    <2> PICK k : k = BuildKey(req[s])
        OBVIOUS
    <2> PICK e : e = n.exec
        OBVIOUS
    <2>1. n # None /\ n \in Entries /\ got[e].of = s /\ Storable(k, e) /\ InTime(n)
        BY <1>1 DEF StoreInv
    <2>2. e \in Executions /\ got[e] # None
        BY <2>1 DEF Entries, Storable
    <2>3. /\ got'[e] = got[e] /\ req'[s] = req[s]
          /\ Storable(k, e)' /\ InTime(n)'
        BY <2>1, <2>2, AnswersStay
    <2>4. entry'[s] = n /\ n.exec = e /\ k = BuildKey(req'[s])
        BY <1>1, <2>3
    <2> QED
        BY <2>1, <2>3, <2>4 DEF Storable, InTime
<1>2. CASE \E e \in Executions : Receive(r, e) /\ s = r
    <2>1. PICK e \in Executions : Receive(r, e) /\ s = r
        BY <1>2
    <2> DEFINE n == [exec |-> e, size |-> got[e].resp.size, storedAt |-> now,
                     expires |-> now + TTL(r, e)]
    <2>2. Positive(TTL(r, e)) /\ entry'[r] = n
        BY <2>1 DEF Receive, Ends
    <2>3. /\ e \in effects[r] /\ CheckResponse(got[e].resp, ExitPolicy)
          /\ req' = req /\ got' = got
        BY <2>1 DEF Receive, Relay!Succeed
    <2>4. got[e] # None /\ got[e].of = r
        BY <2>3 DEF ExecutionInv
    <2>5. /\ n \in Entries
          /\ now + TTL(r, e) <= StatedEnd(got[e].resp, req[r].url, now)
          /\ IsRequestCacheable(req[r]) /\ IsResponseCacheable(req[r].method, got[e].resp)
        BY <2>1, <2>2, MadeEntry
    <2>6. n.exec = e /\ n.storedAt = now /\ n.expires = now + TTL(r, e)
        OBVIOUS
    <2> HIDE DEF n
    <2>7. n # None
        BY <2>5, InputsAssumption
    <2>8. Storable(BuildKey(req[r]), e) /\ InTime(n)
        BY <2>3, <2>4, <2>5, <2>6 DEF Storable, InTime
    <2> QED
        BY <2>1, <2>2, <2>3, <2>4, <2>6, <2>7, <2>8 DEF Storable, InTime
<1>3. \/ pc[s] = "storing" /\ entry'[s] = entry[s]
      \/ \E e \in Executions : Receive(r, e) /\ s = r
    <2>1. CASE s # r
        BY <2>1, OthersStay
    <2>2. ASSUME NEW q \in Kinds, Refuse(r, q) \/ ServeHit(r, q) \/ Forward(r, q) \/ TooMany(r, q)
          PROVE  pc'[r] # "storing"
        BY <2>2 DEF Refuse, ServeHit, Forward, TooMany, Ends
    <2>3. GiveUp(r) \/ Put(r) => pc'[r] # "storing"
        BY DEF GiveUp, Put, Ends
    <2>4. ASSUME NEW e \in Executions, Execute(r, e)
          PROVE  pc' = pc /\ entry' = entry
        BY <2>4 DEF Execute
    <2> QED
        BY <2>1, <2>2, <2>3, <2>4 DEF RequestStep
<1> QED
    BY <1>1, <1>2, <1>3

\* Put brings only storable entries into the cache; lookups and evictions only remove some.
LEMMA HeldInvStep ==
    ASSUME ProxyInv, NEW r \in Requests, RequestStep(r)
    PROVE  HeldInv'
<1> USE DEF ProxyInv, TypeInv
<1> SUFFICES ASSUME NEW k \in Keys, held'[k] # None
             PROVE  (Storable(k, held[k].exec) /\ InTime(held[k]))'
    BY DEF HeldInv
<1>1. ASSUME NEW n \in Entries, held'[k] = n, Storable(k, n.exec), InTime(n)
      PROVE  (Storable(k, held[k].exec) /\ InTime(held[k]))'
    <2> PICK e : e = n.exec
        OBVIOUS
    <2>1. e \in Executions /\ got[e] # None
        BY <1>1 DEF Entries, Storable
    <2>2. Storable(k, e)' /\ InTime(n)'
        BY <1>1, <2>1, AnswersStay
    <2> QED
        BY <1>1, <2>2 DEF Storable, InTime
<1>2. CASE held'[k] = held[k]
    <2>1. held[k] # None /\ held[k] \in Entries
        BY <1>2
    <2>2. Storable(k, held[k].exec) /\ InTime(held[k])
        BY <2>1 DEF HeldInv
    <2> QED
        BY <1>1, <1>2, <2>1, <2>2
<1>3. CASE Put(r)
    <2>1. pc[r] = "storing" /\ Cache!Store(BuildKey(req[r]), entry[r])
        BY <1>3 DEF Put
    <2>2. /\ entry[r] \in Entries /\ BuildKey(req[r]) \in Keys
          /\ Storable(BuildKey(req[r]), entry[r].exec) /\ InTime(entry[r])
        BY <2>1, KindNotNone DEF StoreInv, RequestInv, Passed
    <2>3. held'[k] = held[k] \/ (k = BuildKey(req[r]) /\ held'[k] = entry[r])
        BY <2>1, <2>2, StoredHeld
    <2> QED
        BY <1>1, <1>2, <2>2, <2>3
<1>4. Put(r) \/ held'[k] = held[k]
    <2>1. ASSUME NEW q \in Kinds, TooMany(r, q) \/ Forward(r, q) PROVE held'[k] = held[k]
        <3>1. Missed(q)
            BY <2>1 DEF TooMany, Forward
        <3> QED
            BY <3>1, MissedHeld
    <2>2. ASSUME NEW q \in Kinds, Refuse(r, q) \/ ServeHit(r, q) PROVE held' = held
        BY <2>2 DEF Refuse, ServeHit, Cache!Hit, cacheVars
    <2>3. ASSUME NEW e \in Executions, Execute(r, e) \/ Receive(r, e) PROVE held' = held
        BY <2>3 DEF Execute, Receive, cacheVars
    <2>4. GiveUp(r) => held' = held
        BY DEF GiveUp, cacheVars
    <2> QED
        BY <2>1, <2>2, <2>3, <2>4 DEF RequestStep
<1> QED
    BY <1>2, <1>3, <1>4

\* What a browser is shown comes from its own execution or from an entry that the cache held.
LEMMA ReplyInvStep ==
    ASSUME ProxyInv, NEW r \in Requests, RequestStep(r)
    PROVE  ReplyInv'
<1> USE DEF ProxyInv, TypeInv
<1>1. ASSUME NEW s \in Requests, NEW e, NEW kind \in {"relayed", "hit"}, NEW q \in Kinds,
             reply'[s].kind = kind, reply'[s].exec = e, req'[s] = q,
             e \in Executions, got[e] # None,
             kind = "relayed" => got[e].of = s /\ CheckResponse(got[e].resp, ExitPolicy),
             kind = "hit" => IsRequestCacheable(q) /\ Storable(BuildKey(q), e)
      PROVE  /\ Shown(s, {"relayed"})' =>
                  /\ reply'[s].exec \in Executions
                  /\ got'[reply'[s].exec] # None /\ got'[reply'[s].exec].of = s
                  /\ CheckResponse(got'[reply'[s].exec].resp, ExitPolicy)
             /\ Shown(s, {"hit"})' =>
                  /\ reply'[s].exec \in Executions
                  /\ IsRequestCacheable(req'[s]) /\ Storable(BuildKey(req[s]), reply[s].exec)'
    <2>1. got'[e] = got[e] /\ \A k : Storable(k, e) => Storable(k, e)'
        BY <1>1, AnswersStay
    <2>2. CASE kind = "relayed"
        BY <1>1, <2>1, <2>2 DEF Shown
    <2>3. CASE kind = "hit"
        <3> PICK k : k = BuildKey(q)
            OBVIOUS
        <3>1. Storable(k, e)'
            BY <1>1, <2>1, <2>3
        <3> QED
            BY <1>1, <2>3, <3>1 DEF Shown, Storable
    <2> QED
        BY <2>2, <2>3
<1> DEFINE Told(s) ==
        /\ Shown(s, {"relayed"}) =>
             /\ reply[s].exec \in Executions
             /\ got[reply[s].exec] # None /\ got[reply[s].exec].of = s
             /\ CheckResponse(got[reply[s].exec].resp, ExitPolicy)
        /\ Shown(s, {"hit"}) =>
             /\ reply[s].exec \in Executions
             /\ IsRequestCacheable(req[s]) /\ Storable(BuildKey(req[s]), reply[s].exec)
<1>2. ASSUME NEW s \in Requests, reply'[s] = reply[s], req[s] # None => req'[s] = req[s]
      PROVE  Told(s)'
    <2>1. CASE ~Shown(s, {"relayed", "hit"})
        BY <1>2, <2>1 DEF Shown
    <2>2. CASE Shown(s, {"relayed", "hit"})
        <3>1. req[s] # None /\ req[s] \in Kinds /\ reply[s].kind \in {"relayed", "hit"}
            BY <2>2 DEF RequestInv, Passed, Shown
        <3>2. CASE reply[s].kind = "relayed"
            <4>1. /\ reply[s].exec \in Executions
                  /\ got[reply[s].exec] # None /\ got[reply[s].exec].of = s
                  /\ CheckResponse(got[reply[s].exec].resp, ExitPolicy)
                BY <2>2, <3>2 DEF ReplyInv, Shown
            <4> QED
                BY <1>1, <1>2, <3>1, <3>2, <4>1
        <3>3. CASE reply[s].kind = "hit"
            <4>1. /\ reply[s].exec \in Executions
                  /\ IsRequestCacheable(req[s]) /\ Storable(BuildKey(req[s]), reply[s].exec)
                BY <2>2, <3>3 DEF ReplyInv, Shown
            <4>2. got[reply[s].exec] # None
                BY <4>1 DEF Storable
            <4> QED
                BY <1>1, <1>2, <3>1, <3>3, <4>1, <4>2
        <3> QED
            BY <3>1, <3>2, <3>3
    <2> QED
        BY <2>1, <2>2
<1>3. ASSUME NEW q \in Kinds, ServeHit(r, q) PROVE Told(r)'
    <2>1. /\ req' = [req EXCEPT ![r] = q] /\ held[BuildKey(q)] # None
          /\ Ends(r, Reply("hit", held[BuildKey(q)].exec)) /\ IsRequestCacheable(q)
        BY <1>3 DEF ServeHit, Served, Cache!Hit
    <2>2. BuildKey(q) \in Keys /\ held[BuildKey(q)] \in Entries
        BY <2>1, KindNotNone
    <2>3. Storable(BuildKey(q), held[BuildKey(q)].exec)
        BY <2>1, <2>2 DEF HeldInv
    <2>4. held[BuildKey(q)].exec \in Executions /\ got[held[BuildKey(q)].exec] # None
        BY <2>2, <2>3 DEF Entries, Storable
    <2>5. /\ reply'[r].kind = "hit" /\ reply'[r].exec = held[BuildKey(q)].exec
          /\ req'[r] = q
        BY <2>1, <2>4, ReplyType DEF Ends
    <2> QED
        BY <1>1, <2>1, <2>3, <2>4, <2>5
<1>4. ASSUME NEW e \in Executions, Receive(r, e), ~Positive(TTL(r, e)) PROVE Told(r)'
    <2>1. /\ Ends(r, Reply("relayed", e)) /\ req' = req /\ pc[r] = "relaying"
          /\ e \in effects[r] /\ CheckResponse(got[e].resp, ExitPolicy)
        BY <1>4 DEF Receive, Relay!Succeed
    <2>2. got[e] # None /\ got[e].of = r /\ req[r] \in Kinds
        BY <2>1 DEF ExecutionInv, RequestInv, Passed
    <2>3. reply'[r].kind = "relayed" /\ reply'[r].exec = e /\ req'[r] = req[r]
        BY <2>1, ReplyType DEF Ends
    <2> QED
        BY <1>1, <2>1, <2>2, <2>3
<1>5. ASSUME Put(r) PROVE Told(r)'
    <2>1. Ends(r, Reply("relayed", entry[r].exec)) /\ req' = req /\ pc[r] = "storing"
        BY <1>5 DEF Put
    <2>2. /\ entry[r] \in Entries /\ got[entry[r].exec].of = r /\ req[r] \in Kinds
          /\ got[entry[r].exec] # None /\ CheckResponse(got[entry[r].exec].resp, ExitPolicy)
        BY <2>1 DEF StoreInv, Storable, RequestInv, Passed
    <2>3. entry[r].exec \in Executions
        BY <2>2 DEF Entries
    <2>4. reply'[r].kind = "relayed" /\ reply'[r].exec = entry[r].exec /\ req'[r] = req[r]
        BY <2>1, <2>3, ReplyType DEF Ends
    <2> QED
        BY <1>1, <2>2, <2>3, <2>4
<1>6. ASSUME \/ GiveUp(r)
             \/ \E q \in Kinds : Refuse(r, q) \/ TooMany(r, q)
      PROVE  Told(r)'
    <2>1. Ends(r, Reply("error", None)) \/ Ends(r, Reply("refused", None))
        BY <1>6 DEF GiveUp, Refuse, TooMany
    <2>2. reply'[r].kind \in {"error", "refused"}
        BY <2>1, ReplyType DEF Ends
    <2> QED
        BY <2>2 DEF Shown
<1>7. ASSUME NEW s \in Requests PROVE Told(s)'
    <2>1. CASE s # r
        BY <1>2, <2>1, OthersStay
    <2>2. CASE s = r
        <3>1. ASSUME NEW q \in Kinds, Forward(r, q) PROVE reply' = reply
            BY <3>1 DEF Forward
        <3>2. ASSUME NEW e \in Executions, Execute(r, e) PROVE reply' = reply
            BY <3>2 DEF Execute
        <3>3. ASSUME NEW e \in Executions, Receive(r, e), Positive(TTL(r, e)) PROVE reply' = reply
            BY <3>3 DEF Receive
        <3>4. req[r] # None => req'[r] = req[r]
            BY OthersStay
        <3>5. reply' = reply => Told(r)'
            BY <1>2, <3>4
        <3> HIDE DEF Told
        <3> QED
            BY <1>3, <1>4, <1>5, <1>6, <2>2, <3>1, <3>2, <3>3, <3>5 DEF RequestStep
    <2> QED
        BY <2>1, <2>2
<1> QED
    BY <1>7 DEF ReplyInv

-----------------------------------------------------------------------------
(* The invariant holds. *)

\* Nothing is asked, executed, stored or shown at first.
LEMMA InitInv == Init => ProxyInv
<1> SUFFICES ASSUME Init PROVE ProxyInv
    OBVIOUS
<1>1. /\ pc = [r \in Requests |-> "idle"] /\ req = [r \in Requests |-> None]
      /\ got = [e \in Executions |-> None] /\ entry = [r \in Requests |-> None]
      /\ reply = [r \in Requests |-> None] /\ held = [k \in Keys |-> None] /\ now = 0
      /\ status = [r \in Requests |-> "new"] /\ effects = [r \in Requests |-> {}]
    BY DEF Init, Relay!Init, Cache!Empty
<1>2. TypeInv
    BY <1>1, LimitsAssumption DEF TypeInv, Statuses
<1>3. RequestInv
    BY <1>1 DEF RequestInv, Passed, Shown
<1>4. ExecutionInv /\ StoreInv /\ HeldInv
    BY <1>1 DEF ExecutionInv, StoreInv, HeldInv
<1>5. ReplyInv
    BY <1>1 DEF ReplyInv, Shown
<1> QED
    BY <1>2, <1>3, <1>4, <1>5 DEF ProxyInv

\* Every step keeps the invariant: a request's by the lemmas above, the clock's trivially.
LEMMA NextInv == ProxyInv /\ [Next]_vars => ProxyInv'
<1> SUFFICES ASSUME ProxyInv, [Next]_vars PROVE ProxyInv'
    OBVIOUS
<1>1. ASSUME NEW r \in Requests, RequestStep(r) PROVE ProxyInv'
    BY <1>1, TypeStep, RequestInvStep, ExecutionInvStep, StoreInvStep, HeldInvStep, ReplyInvStep
       DEF ProxyInv
<1>2. CASE Tick \/ UNCHANGED vars
    <2>1. UNCHANGED <<pc, req, got, entry, reply, status, effects, held>>
        BY <1>2 DEF Tick, Cache!Tick, vars, relayVars, cacheVars
    <2>2. now' \in 0..MaxNow
        BY <1>2, LimitsAssumption DEF Tick, Cache!Tick, vars, cacheVars, ProxyInv, TypeInv
    <2>3. TypeInv'
        BY <2>1, <2>2 DEF ProxyInv, TypeInv
    <2>4. RequestInv' /\ ReplyInv'
        BY <2>1 DEF ProxyInv, RequestInv, Passed, ReplyInv, Shown, Storable
    <2>5. ExecutionInv'
        BY <2>1 DEF ProxyInv, ExecutionInv, MadeFor, Permitted
    <2>6. StoreInv' /\ HeldInv'
        BY <2>1 DEF ProxyInv, StoreInv, HeldInv, Storable, InTime
    <2> QED
        BY <2>3, <2>4, <2>5, <2>6 DEF ProxyInv
<1>3. (\E r \in Requests : RequestStep(r)) \/ Tick \/ UNCHANGED vars
    BY DEF Next, RequestStep, AtRest
<1> QED
    BY <1>1, <1>2, <1>3

\* The inductive invariant: an answer is followed from its execution through the entry and
\* the cache to the browsers it is shown to.
THEOREM ProxyInvariant == Spec => []ProxyInv
    BY InitInv, NextInv, PTL DEF Spec

\* Every variable of the caching proxy always has its type; in particular no entry expires
\* before time 0, whatever lifetime an origin states.
THEOREM TypeCorrect == Spec => []TypeOK
<1>1. ProxyInv => TypeOK
    BY DEF ProxyInv, TypeInv, TypeOK, RequestInv, Passed
<1> QED
    BY <1>1, ProxyInvariant, PTL

\* Every answer ServeHTTP gives, relayed or from the cache, answers the request it is given
\* to: same method and url, and the same value of every header it varies with.
THEOREM HitsAlwaysMatch == Spec => []HitsMatch
<1>1. ProxyInv => HitsMatch
    <2> SUFFICES ASSUME ProxyInv, NEW r \in Requests
                 PROVE  /\ Shown(r, {"relayed"}) => got[reply[r].exec].of = r
                        /\ Shown(r, {"hit"}) =>
                             /\ AskedBy(r).method = req[r].method /\ AskedBy(r).url = req[r].url
                             /\ AskedBy(r).acceptEncoding = req[r].acceptEncoding
                             /\ ~VariesWith(RespTo(r), "accept-language")
        BY DEF HitsMatch
    <2>1. Shown(r, {"relayed"}) => got[reply[r].exec].of = r
        BY DEF ProxyInv, ReplyInv
    <2>2. ASSUME Shown(r, {"hit"})
          PROVE  /\ AskedBy(r).method = req[r].method /\ AskedBy(r).url = req[r].url
                 /\ AskedBy(r).acceptEncoding = req[r].acceptEncoding
                 /\ ~VariesWith(RespTo(r), "accept-language")
        <3>1. Storable(BuildKey(req[r]), reply[r].exec)
            BY <2>2 DEF ProxyInv, ReplyInv
        <3>2. BuildKey(req[r]) = BuildKey(AskedBy(r))
            BY <3>1 DEF Storable, AskedBy
        <3>3. \A i \in DOMAIN Get(RespTo(r).vary) : Get(RespTo(r).vary)[i] = "accept-encoding"
            BY <3>1 DEF Storable, RespTo, IsResponseCacheable
        <3>4. ~VariesWith(RespTo(r), "accept-language")
            BY <3>3 DEF VariesWith
        <3> QED
            BY <3>2, <3>4 DEF BuildKey
    <2> QED
        BY <2>1, <2>2
<1> QED
    BY <1>1, ProxyInvariant, PTL

\* Whatever the options, the cache gives nobody another one's personal, private or no-store
\* response beyond what an option permits.
THEOREM NothingPersonalEverShared == Spec => []NothingPersonalShared
<1>1. ProxyInv => NothingPersonalShared
    <2> SUFFICES ASSUME ProxyInv, NEW r \in Requests, Shown(r, {"hit"})
                 PROVE  /\ Private(RespTo(r)) => CachePrivate
                        /\ ~hasDirective(Get(RespTo(r).cacheControl), "no-store")
                        /\ IsRequestCacheable(req[r]) /\ IsRequestCacheable(AskedBy(r))
        BY DEF NothingPersonalShared, IsRequestCacheable
    <2>1. IsRequestCacheable(req[r]) /\ Storable(BuildKey(req[r]), reply[r].exec)
        BY DEF ProxyInv, ReplyInv
    <2>2. IsRequestCacheable(AskedBy(r)) /\ IsResponseCacheable(AskedBy(r).method, RespTo(r))
        BY <2>1 DEF Storable, AskedBy, RespTo
    <2> QED
        BY <2>1, <2>2 DEF IsResponseCacheable, Shared, Private
<1> QED
    BY <1>1, ProxyInvariant, PTL

\* Every answer was asked for with a url that the proxy's policy and the exit's permit and is
\* within the exit's limits; the exit asks no server for a url its policy forbids, and where
\* it blocks private addresses no redirect and no name leads to an answer from one.
THEOREM PolicyAlwaysHolds == Spec => []PolicyHolds
<1>1. ProxyInv => PolicyHolds
    <2> SUFFICES ASSUME ProxyInv PROVE PolicyHolds
        OBVIOUS
    <2>1. ASSUME NEW e \in Executions, got[e] # None
          PROVE  /\ CheckRequest(req[got[e].of].url, ExitPolicy)
                 /\ ExitPolicy.BlockPrivateRanges => ~got[e].from.private
        BY <2>1 DEF ProxyInv, ExecutionInv, MadeFor, Permitted, Dials
    <2>2. ASSUME NEW r \in Requests, Shown(r, {"relayed", "hit"})
          PROVE  /\ CheckRequest(req[r].url, ProxyPolicy)
                 /\ CheckRequest(AskedBy(r).url, ExitPolicy)
                 /\ CheckResponse(RespTo(r), ExitPolicy)
        <3>1. req[r] # None /\ ~Refused(req[r])
            BY <2>2 DEF ProxyInv, RequestInv, Passed
        <3>2. /\ reply[r].exec \in Executions /\ got[reply[r].exec] # None
              /\ CheckResponse(RespTo(r), ExitPolicy)
            BY <2>2 DEF ProxyInv, ReplyInv, Shown, Storable, RespTo
        <3> QED
            BY <2>1, <3>1, <3>2 DEF Refused, AskedBy
    <2> QED
        BY <2>1, <2>2 DEF PolicyHolds
<1> QED
    BY <1>1, ProxyInvariant, PTL

\* Every answer from the cache is within the lifetime its origin stated when it was received,
\* also where time.Duration wraps around.
THEOREM AlwaysFreshWhenServed == Spec => FreshWhenServed
<1> DEFINE Fresh == \A r \in Requests : pc[r] = "idle" /\ Shown(r, {"hit"})' =>
             LET e == held[BuildKey(req'[r])]
             IN now <= StatedEnd(got[e.exec].resp, req'[r].url, e.storedAt)
<1>1. ProxyInv /\ Next => Fresh
    <2> SUFFICES ASSUME ProxyInv, Next, NEW r \in Requests, pc[r] = "idle", Shown(r, {"hit"})'
                 PROVE  LET e == held[BuildKey(req'[r])]
                        IN now <= StatedEnd(got[e.exec].resp, req'[r].url, e.storedAt)
        BY Zenon
    <2>1. reply[r] = None
        BY DEF ProxyInv, RequestInv, Passed
    <2>2. reply'[r] # None /\ reply'[r].kind = "hit"
        BY DEF Shown
    <2>3. ASSUME NEW s \in Requests, RequestStep(s) PROVE s = r
        BY <2>1, <2>2, <2>3, OthersStay
    <2>4. ~Tick /\ ~UNCHANGED vars
        BY <2>1, <2>2 DEF Tick, vars
    <2>5. RequestStep(r)
        BY <2>3, <2>4 DEF Next, RequestStep, AtRest
    <2>6. ASSUME NEW answered, Ends(r, answered) PROVE reply'[r] = answered
        BY <2>6 DEF Ends, ProxyInv, TypeInv
    <2>7. PICK q \in Kinds : ServeHit(r, q)
        <3>1. ASSUME NEW q \in Kinds, Refuse(r, q) \/ TooMany(r, q) PROVE FALSE
            <4>1. Ends(r, Reply("refused", None))
                BY <3>1 DEF Refuse, TooMany
            <4> QED
                BY <2>2, <2>6, <4>1, ReplyType
        <3>2. ASSUME NEW q \in Kinds, Forward(r, q) PROVE FALSE
            BY <2>1, <2>2, <3>2 DEF Forward
        <3>3. ASSUME NEW e \in Executions, Execute(r, e) PROVE FALSE
            BY <2>1, <2>2, <3>3 DEF Execute
        <3>4. ASSUME NEW e \in Executions, Receive(r, e) PROVE FALSE
            BY <3>4 DEF Receive
        <3>5. ~GiveUp(r) /\ ~Put(r)
            BY DEF GiveUp, Put
        <3> QED
            BY <2>5, <3>1, <3>2, <3>3, <3>4, <3>5 DEF RequestStep
    <2> DEFINE n == held[BuildKey(q)]
               p == req[got[n.exec].of]
    <2>8. n # None /\ now <= n.expires /\ BuildKey(q) \in Keys /\ req'[r] = q
        BY <2>7, KindNotNone DEF ServeHit, Served, Cache!Hit, ProxyInv, TypeInv
    <2>9. Storable(BuildKey(q), n.exec) /\ InTime(n) /\ n \in Entries
        BY <2>8 DEF ProxyInv, HeldInv, TypeInv
    <2>10. got[n.exec] # None /\ BuildKey(q) = BuildKey(p) /\ n.exec \in Executions
        BY <2>9 DEF Storable, Entries
    <2>11. q.url = p.url
        BY <2>10 DEF BuildKey
    <2>12. n.expires <= StatedEnd(got[n.exec].resp, q.url, n.storedAt)
        BY <2>9, <2>11 DEF InTime
    <2>13. StatedEnd(got[n.exec].resp, q.url, n.storedAt) \in Int
        <3>1. got[n.exec].resp \in Origins /\ n.storedAt \in Nat
            BY <2>9, <2>10, LimitsAssumption DEF ProxyInv, TypeInv, Fetched, Entries
        <3> QED
            BY <3>1, StatedEndType
    <2>14. n.expires \in Nat /\ now \in Nat
        BY <2>9, LimitsAssumption DEF Entries, ProxyInv, TypeInv
    <2>15. now <= StatedEnd(got[n.exec].resp, q.url, n.storedAt)
        <3> DEFINE end == StatedEnd(got[n.exec].resp, q.url, n.storedAt)
                   expiry == n.expires
        <3>1. /\ now <= expiry /\ expiry <= end
              /\ now \in Nat /\ expiry \in Nat /\ end \in Int
            BY <2>8, <2>12, <2>13, <2>14
        <3> HIDE DEF end, expiry
        <3>2. now <= end
            BY <3>1
        <3> QED
            BY <3>2 DEF end
    <2> QED
        BY <2>8, <2>15
<1> HIDE DEF Fresh
<1>2. Spec => [][Fresh]_vars
    BY <1>1, ProxyInvariant, PTL DEF Spec
<1> QED
    BY <1>2 DEF Fresh, FreshWhenServed
=============================================================================
