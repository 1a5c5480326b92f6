---------------------------- MODULE CachingProxy ----------------------------
(***************************************************************************)
(* ServeHTTP with its cache (internal/proxy/http_proxy.go): the policy of  *)
(* the proxy, the lookup, the relay, the policy and the limits of the exit *)
(* (internal/exit/http_executor.go), the decision to store and the store.  *)
(* The relay is the abstract RelayService that RelayExchange implements,   *)
(* the cache the abstract CacheService that ResponseCache implements: this *)
(* module is about what the two do together with the policies in between.  *)
(*                                                                         *)
(* A request is a record with the parts that CachePolicy and RequestPolicy *)
(* look at; what an execution got from the upstream server likewise. A     *)
(* response answered by the relay is that of one execution (RelayExchange  *)
(* says when it may be of two).                                            *)
(***************************************************************************)
EXTENDS CachePolicy, RequestPolicy, FiniteSets

CONSTANTS
    Requests,       \* goroutines that run ServeHTTP
    Executions,     \* executions by the exit
    None,           \* nothing yet
    Kinds,          \* the requests browsers make
    Origins,        \* the responses upstream servers give
    Redirects,      \* the urls that upstream servers redirect to
    ProxyPolicy, ExitPolicy,    \* cfg.Policy of the two processes
    MaxEntries, MaxBytes,       \* cache.max_entries, cache.max_bytes
    MaxNow          \* bound on the clock

ASSUME LimitsAssumption == /\ MaxEntries \in Nat \ {0} /\ MaxNow \in Nat
                           /\ MaxBytes \in Nat /\ MaxEntryBytes \in 1..MaxBytes

Entries == [exec : Executions, size : Nat, storedAt : 0..MaxNow, expires : Nat]
Urls == {q.url : q \in Kinds} \cup Redirects
Fetched == [of : Requests, resp : Origins, from : Urls]

\* The reply to the browser: its kind and the execution it shows.
Replies == [kind : {"refused", "error", "relayed", "hit"}, exec : Executions \cup {None}]
Reply(kind, e) == [kind |-> kind, exec |-> e]

\* What http.Header and strconv make of a response, and None is none of the others.
ASSUME InputsAssumption ==
    /\ \A o \in Origins : /\ o.size \in Nat /\ o.expires \in Int
                          /\ Get(o.cacheControl) \in Seq([name : STRING, arg : Int])
    /\ None \notin Kinds \cup Executions
    /\ None \notin Entries /\ None \notin Fetched /\ None \notin Replies

VARIABLES
    pc,        \* pc[r]: idle, relaying, storing or done
    req,       \* req[r]: the request, once it is served from the cache or relayed
    got,       \* got[e]: the response of execution e, the request it was made for and
               \*         the url that gave it
    entry,     \* entry[r]: the cache entry r is about to store
    reply,     \* reply[r]: what the browser was given
    status, effects, answer,    \* the relay
    held, now                   \* the cache and the clock

relayVars == <<status, effects, answer>>
cacheVars == <<held, now>>
vars == <<pc, req, got, entry, reply, relayVars, cacheVars>>

Keys == {BuildKey(q) : q \in Kinds}

Relay == INSTANCE RelayService
Cache == INSTANCE CacheService WITH Responses <- Entries, got <- None

Ends(r, answered) == /\ pc' = [pc EXCEPT ![r] = "done"]
                     /\ reply' = [reply EXCEPT ![r] = answered]

Init == /\ pc = [r \in Requests |-> "idle"]
        /\ req = [r \in Requests |-> None]
        /\ got = [e \in Executions |-> None]
        /\ entry = [r \in Requests |-> None]
        /\ reply = [r \in Requests |-> None]
        /\ Relay!Init
        /\ held = Cache!Empty /\ now = 0

-----------------------------------------------------------------------------
(* ServeHTTP up to the relay. *)

Refused(q) == q.method = "CONNECT" \/ ~CheckRequest(q.url, ProxyPolicy)

\* (A body that cannot be read ends the request in the same state, with a 400.)
Refuse(r, q) == /\ pc[r] = "idle" /\ Refused(q)
                /\ Ends(r, Reply("refused", None))
                /\ Relay!Refuse(r)
                /\ UNCHANGED <<req, got, entry, cacheVars>>

Served(r, q) == /\ pc[r] = "idle" /\ ~Refused(q)
                /\ req' = [req EXCEPT ![r] = q]

ServeHit(r, q) ==
    /\ Served(r, q)
    /\ IsRequestCacheable(q) /\ Cache!Hit(BuildKey(q))
    /\ Ends(r, Reply("hit", held[BuildKey(q)].exec))
    /\ UNCHANGED <<got, entry, relayVars>>

\* The lookup fails, or there is none.
Missed(q) == IF IsRequestCacheable(q) THEN Cache!Miss(BuildKey(q)) ELSE UNCHANGED cacheVars

Forward(r, q) ==
    /\ Served(r, q)
    /\ Missed(q)
    /\ pc' = [pc EXCEPT ![r] = "relaying"]
    /\ Relay!Open(r)
    /\ UNCHANGED <<got, entry, reply>>

\* max_concurrent_requests are in flight: 429.
TooMany(r, q) ==
    /\ pc[r] = "idle" /\ ~Refused(q)
    /\ Missed(q)
    /\ Ends(r, Reply("refused", None))
    /\ Relay!Refuse(r)
    /\ UNCHANGED <<req, got, entry>>

-----------------------------------------------------------------------------
(* The exit. *)

\* Variant: the exit relies on the proxy's check.
PermittedByProxy(q) == CheckRequest(q.url, ProxyPolicy)
Permitted(q) == CheckRequest(q.url, ExitPolicy)

\* The transport of the exit's http.Client connects to u, through the safe dialer.
Dials(u) == /\ u.parses /\ u.scheme \in {"http", "https"}
            /\ ExitPolicy.BlockPrivateRanges => ~u.private

\* An upstream server answers: the one that was asked or, since http.Client follows redirects
\* by itself, one that it was redirected to. CheckRequest is made of the first url only. (No
\* request asks for a range, so no answer is a part.)
Execute(r, e) ==
    /\ Relay!Perform(r, e)
    /\ Permitted(req[r]) /\ Dials(req[r].url)
    /\ \E u \in {req[r].url} \cup Redirects, o \in Origins :
         Dials(u) /\ got' = [got EXCEPT ![e] = [of |-> r, resp |-> o, from |-> u]]
    /\ UNCHANGED <<pc, req, entry, reply, cacheVars>>

-----------------------------------------------------------------------------
(* ServeHTTP from the relay on. *)

\* The relay fails: a FrameERROR of the exit, a timeout, a cancelled request.
GiveUp(r) ==
    /\ pc[r] = "relaying"
    /\ Relay!Fail({r})
    /\ Ends(r, Reply("error", None))
    /\ UNCHANGED <<req, got, entry, cacheVars>>

\* The lifetime the response is stored for, 0 if it is not stored.
TTL(r, e) ==
    IF IsRequestCacheable(req[r]) /\ IsResponseCacheable(req[r].method, got[e].resp)
    THEN TTLFor(got[e].resp, req[r].url, now) ELSE 0

\* Variant: only a lifetime of 0 is none.
NotZero(ttl) == ttl # 0
Positive(ttl) == ttl > 0

\* The clock is read here, and the entry stored later, by Put.
Receive(r, e) ==
    /\ pc[r] = "relaying"
    /\ Relay!Succeed(r, {e}) /\ CheckResponse(got[e].resp, ExitPolicy)
    /\ \/ /\ Positive(TTL(r, e))
          /\ pc' = [pc EXCEPT ![r] = "storing"]
          /\ entry' = [entry EXCEPT ![r] = [exec |-> e, size |-> got[e].resp.size,
                                            storedAt |-> now, expires |-> now + TTL(r, e)]]
          /\ UNCHANGED reply
       \/ /\ ~Positive(TTL(r, e))
          /\ Ends(r, Reply("relayed", e))
          /\ UNCHANGED entry
    /\ UNCHANGED <<req, got, cacheVars>>

\* Cache.Put, and the response is written. Put has no reason to decline: its size limit
\* is the one that IsResponseCacheable applied.
Put(r) ==
    /\ pc[r] = "storing"
    /\ Cache!Store(BuildKey(req[r]), entry[r])
    /\ Ends(r, Reply("relayed", entry[r].exec))
    /\ entry' = [entry EXCEPT ![r] = None]
    /\ UNCHANGED <<req, got, relayVars>>

Tick == /\ now < MaxNow
        /\ Cache!Tick
        /\ UNCHANGED <<pc, req, got, entry, reply, relayVars>>

AtRest == (\A r \in Requests : pc[r] = "done") /\ UNCHANGED vars

Next ==
    \/ \E r \in Requests :
         \/ \E q \in Kinds : Refuse(r, q) \/ ServeHit(r, q) \/ Forward(r, q) \/ TooMany(r, q)
         \/ \E e \in Executions : Execute(r, e) \/ Receive(r, e)
         \/ GiveUp(r) \/ Put(r)
    \/ Tick \/ AtRest

Spec == Init /\ [][Next]_vars

-----------------------------------------------------------------------------
(* Properties. *)

\* Every variable has its type; a request has a reply exactly when it is done.
TypeOK ==
    /\ pc \in [Requests -> {"idle", "relaying", "storing", "done"}]
    /\ req \in [Requests -> Kinds \cup {None}]
    /\ got \in [Executions -> Fetched \cup {None}]
    /\ \A r \in Requests : /\ entry[r] \in Entries \cup {None}
                           /\ reply[r] = None <=> pc[r] # "done"
    /\ \A k \in Keys : held[k] \in Entries \cup {None}
    /\ now \in 0..MaxNow

Shown(r, kinds) == reply[r] # None /\ reply[r].kind \in kinds
RespTo(r) == got[reply[r].exec].resp
AskedBy(r) == req[got[reply[r].exec].of]

VariesWith(resp, field) == \E i \in DOMAIN Get(resp.vary) : Get(resp.vary)[i] = field

\* A browser is given the response to its own request or, from the cache, one to a request
\* with the same method and url and the same value of every header the response says it
\* varies with: the key that BuildKey makes and the Vary fields that IsResponseCacheable
\* lets through fit together.
HitsMatch ==
    \A r \in Requests :
        /\ Shown(r, {"relayed"}) => got[reply[r].exec].of = r
        /\ Shown(r, {"hit"}) =>
             /\ AskedBy(r).method = req[r].method /\ AskedBy(r).url = req[r].url
             /\ VariesWith(RespTo(r), "accept-encoding") =>
                  AskedBy(r).acceptEncoding = req[r].acceptEncoding
             /\ VariesWith(RespTo(r), "accept-language") =>
                  AskedBy(r).acceptLanguage = req[r].acceptLanguage

Private(resp) == resp.setCookie \/ hasDirective(Get(resp.cacheControl), "private")

\* Unless an option permits it, nobody is given another one's response that was asked for
\* with credentials, sets a cookie or is private, and who sends credentials is not answered
\* from the cache; a response that is no-store, or that was asked for with no-store or
\* no-cache, is given to nobody else, and who sends these is not answered from the cache.
\* (Of a header with several lines the first counts, as for the code.)
NothingPersonalShared ==
    \A r \in Requests : Shown(r, {"hit"}) =>
        /\ Private(RespTo(r)) => CachePrivate
        /\ ~hasDirective(Get(RespTo(r).cacheControl), "no-store")
        /\ \A q \in {req[r], AskedBy(r)} :
             /\ q.authorization => CacheWithAuthorization
             /\ q.cookie => CacheWithCookies
             /\ \A name \in {"no-store", "no-cache"} : ~hasDirective(Get(q.cacheControl), name)

\* What a response says of its lifetime, from the time t it was received: a max-age, else an
\* Expires in the future, else, for a static path, the default. No arithmetic wraps here.
StatedEnd(resp, url, t) ==
    IF MaxAges(resp) # {} THEN t + FirstAge(resp) * Second
    ELSE IF resp.expires > t THEN resp.expires
    ELSE IF url.static THEN t + DefaultTTLSeconds * Second ELSE t

\* No answer from the cache outlives what the response says, though the lifetime wraps
\* around, the clock moves between its reading and Put, and later answers replace earlier
\* ones.
FreshWhenServed ==
    [][\A r \in Requests : pc[r] = "idle" /\ Shown(r, {"hit"})' =>
         LET e == held[BuildKey(req'[r])]
         IN now <= StatedEnd(got[e.exec].resp, req'[r].url, e.storedAt)]_vars

\* Whatever a browser is shown, fresh or from the cache, was asked for with a url that both
\* policies permit and is within the limits of the exit. The exit executes no request for
\* a url that its policy forbids, and where it blocks private addresses no answer is from
\* one, neither through a name nor through a redirect. Only the dialer looks at a redirect: one may
\* lead to a scheme, a port or a domain that CheckRequest would refuse.
PolicyHolds ==
    /\ \A r \in Requests : Shown(r, {"relayed", "hit"}) =>
         /\ CheckRequest(req[r].url, ProxyPolicy) /\ CheckRequest(AskedBy(r).url, ExitPolicy)
         /\ CheckResponse(RespTo(r), ExitPolicy)
    /\ \A e \in Executions : got[e] # None =>
         /\ CheckRequest(req[got[e].of].url, ExitPolicy)
         /\ ExitPolicy.BlockPrivateRanges => ~got[e].from.private

\* config.go:145: default_ttl_seconds is applied "when the response carries no explicit
\* Cache-Control or Expires header".
HeuristicOnlyWithoutHeaders ==
    \A k \in Keys : held[k] # None =>
        LET resp == got[held[k].exec].resp IN
          \/ MaxAges(resp) # {} \/ resp.expires > held[k].storedAt
          \/ resp.cacheControl = <<>> /\ resp.expires = NoNumber
=============================================================================
