----------------------------- MODULE CachePolicy -----------------------------
(***************************************************************************)
(* What may be cached, for how long and under which key:                   *)
(* internal/cache/policy.go. A header is the sequence of its lines, a      *)
(* Cache-Control line a sequence of directives [name, arg] and a Vary line *)
(* a sequence of fields, both in lower case; Authorization, Cookie and     *)
(* Set-Cookie are present or not. The arg of a directive is NoNumber when  *)
(* strconv.Atoi rejects it. Expires is a time of the clock, NoNumber when  *)
(* the header is absent and 0 when it cannot be parsed.                    *)
(***************************************************************************)
EXTENDS Integers, Sequences

CONSTANTS
    CacheWithAuthorization, CacheWithCookies,   \* RequestOptions
    CachePrivate, MaxEntryBytes,                \* ResponseOptions
    DefaultTTLSeconds,                          \* cache.default_ttl_seconds
    Second,                                     \* time.Second in the unit of the clock
    DurationValues                              \* values of a time.Duration: 2^64

NoNumber == -1

ASSUME PolicyAssumption ==
    /\ {CacheWithAuthorization, CacheWithCookies, CachePrivate} \subseteq BOOLEAN
    /\ MaxEntryBytes \in Int /\ DefaultTTLSeconds \in Int
    /\ Second \in Nat \ {0} /\ DurationValues \in Nat \ {0}

\* http.Header.Get: the first line.
Get(lines) == IF lines = <<>> THEN <<>> ELSE Head(lines)

hasDirective(cc, name) == \E i \in DOMAIN cc : cc[i].name = name

IsRequestCacheable(r) ==
    /\ r.method \in {"GET", "HEAD"}
    /\ r.authorization => CacheWithAuthorization
    /\ r.cookie => CacheWithCookies
    /\ ~hasDirective(Get(r.cacheControl), "no-store")
    /\ ~hasDirective(Get(r.cacheControl), "no-cache")

\* Variant: Set-Cookie is overlooked.
SharedByDirective(resp) ==
    CachePrivate \/ ~hasDirective(Get(resp.cacheControl), "private")
Shared(resp) ==
    CachePrivate \/ ~(hasDirective(Get(resp.cacheControl), "private") \/ resp.setCookie)

IsResponseCacheable(method, resp) ==
    /\ method \in {"GET", "HEAD"}
    /\ resp.status \in {200, 203, 204, 206, 301, 308}
    /\ ~hasDirective(Get(resp.cacheControl), "no-store")
    /\ Shared(resp)
    /\ \A i \in DOMAIN Get(resp.vary) : Get(resp.vary)[i] = "accept-encoding"
    /\ MaxEntryBytes > 0 => resp.size <= MaxEntryBytes

\* time.Duration(n) * time.Second, which wraps around.
Seconds(n) == LET d == (n * Second) % DurationValues
              IN IF 2 * d >= DurationValues THEN d - DurationValues ELSE d

\* The directives TTLFor takes a lifetime from, max-age with a number, and the lifetime: the
\* first of them counts.
MaxAges(resp) ==
    LET cc == Get(resp.cacheControl)
    IN {i \in DOMAIN cc : cc[i].name = "max-age" /\ cc[i].arg >= 0}

FirstAge(resp) ==
    LET first == CHOOSE i \in MaxAges(resp) : \A j \in MaxAges(resp) : i <= j
    IN Get(resp.cacheControl)[first].arg

\* Variant: a max-age of 0 is taken for none.
ZeroIsNoAge(resp, url, now) ==
    IF MaxAges(resp) # {} /\ FirstAge(resp) > 0 THEN Seconds(FirstAge(resp))
    ELSE IF resp.expires > now THEN resp.expires - now
    ELSE IF DefaultTTLSeconds > 0 /\ url.static THEN Seconds(DefaultTTLSeconds)
    ELSE 0

TTLFor(resp, url, now) ==
    IF MaxAges(resp) # {} THEN Seconds(FirstAge(resp))
    ELSE IF resp.expires > now THEN resp.expires - now
    ELSE IF DefaultTTLSeconds > 0 /\ url.static THEN Seconds(DefaultTTLSeconds)
    ELSE 0

\* Variant: one entry for every encoding.
KeyWithoutEncoding(r) == <<r.method, r.url, "">>
BuildKey(r) == <<r.method, r.url, r.acceptEncoding>>
=============================================================================
