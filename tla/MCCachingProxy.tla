--------------------------- MODULE MCCachingProxy ---------------------------
(* Instances of CachingProxy for TLC. *)
EXTENDS CachingProxy, TLC

CONSTANTS r1, r2, r3, e1, e2

TwoRequests   == {r1, r2}
ThreeRequests == {r1, r2, r3}
TwoExecutions == {e1, e2}

\* No definition names a request or an execution.
Symmetry == Permutations(Requests) \cup Permutations(Executions)

Style == [parses |-> TRUE, scheme |-> "http", host |-> <<"a", "example", "org">>,
          port |-> NoPort, literal |-> FALSE, private |-> FALSE, static |-> TRUE]
Page     == [Style EXCEPT !.static = FALSE]
Apex     == [Style EXCEPT !.host = <<"example", "org">>]
Tunnel   == [Style EXCEPT !.port = 22]
Zero     == [Style EXCEPT !.port = 0]
Intranet == [Style EXCEPT !.host = <<"in", "example", "org">>, !.private = TRUE]
Loopback == [Style EXCEPT !.host = <<"loopback">>, !.literal = TRUE, !.private = TRUE]
Elsewhere == [Style EXCEPT !.host = <<"b", "example", "net">>]

\* Each policy refuses a url that the other one permits. An entry "*" permits no host.
SomeProxyPolicy ==
    [AllowedSchemes |-> {"http", "https"}, BlockedPorts |-> {}, AllowedPorts |-> {},
     BlockPrivateRanges |-> FALSE,
     DomainAllowList |-> {<<"*">>, <<"*", "example", "org">>, <<"loopback">>},
     AllowedContentTypes |-> {}, MaxResponseBytes |-> 0]
SomeExitPolicy ==
    [AllowedSchemes |-> {"http"}, BlockedPorts |-> {22}, AllowedPorts |-> {22, 80, 443},
     BlockPrivateRanges |-> TRUE, DomainAllowList |-> {},
     AllowedContentTypes |-> {"text"}, MaxResponseBytes |-> 3]

Ask == [method |-> "GET", url |-> Style, acceptEncoding |-> "gzip", acceptLanguage |-> "en",
        authorization |-> FALSE, cookie |-> FALSE, cacheControl |-> <<>>]
Directive(name) == [name |-> name, arg |-> NoNumber]
MaxAge(n) == [name |-> "max-age", arg |-> n]

\* Requests that share a url and differ in what a response may vary with.
SomeKinds ==
    {Ask,
     [Ask EXCEPT !.acceptEncoding = "br"],
     [Ask EXCEPT !.acceptLanguage = "fr"],
     [Ask EXCEPT !.method = "CONNECT"]}

\* Requests with and without what makes them personal.
PersonalKinds ==
    {Ask,
     [Ask EXCEPT !.authorization = TRUE],
     [Ask EXCEPT !.cookie = TRUE],
     [Ask EXCEPT !.cacheControl = <<<<Directive("no-cache")>>>>]}

\* Requests for urls that the policies and the dialer judge differently.
UrlKinds ==
    {[Ask EXCEPT !.url = u] : u \in {Style, Apex, Tunnel, Zero, Intranet, Loopback}}
AllKinds == UrlKinds \cup PersonalKinds
NoRedirects == {}
SomeRedirects == {Tunnel, Elsewhere, Intranet, Loopback}
FewKinds == {Ask, [Ask EXCEPT !.url = Page]}

Plain == [status |-> 200, cacheControl |-> <<>>, expires |-> NoNumber, setCookie |-> FALSE,
          vary |-> <<>>, size |-> 1, contentType |-> "text"]
Lasting == [Plain EXCEPT !.cacheControl = <<<<MaxAge(1)>>>>, !.vary = <<<<"accept-encoding">>>>]

\* A max-age of 9 wraps around to one unit of the clock, one of 4 to a negative number.
SomeOrigins ==
    {Plain, Lasting,
     [Plain EXCEPT !.cacheControl = <<<<MaxAge(0)>>>>],
     [Plain EXCEPT !.cacheControl = <<<<MaxAge(9)>>>>],
     [Plain EXCEPT !.cacheControl = <<<<MaxAge(4)>>>>],
     [Lasting EXCEPT !.vary = <<<<"accept-language">>>>],
     [Plain EXCEPT !.expires = 1]}

PersonalOrigins ==
    {Plain, Lasting,
     [Lasting EXCEPT !.setCookie = TRUE],
     [Plain EXCEPT !.cacheControl = <<<<Directive("private"), MaxAge(1)>>>>],
     [Plain EXCEPT !.cacheControl = <<<<Directive("no-store")>>>>]}

\* The exit passes on the first, which the proxy stores, and refuses the others.
Judged == {Lasting, [Lasting EXCEPT !.size = 4], [Lasting EXCEPT !.contentType = "image"]}

AllOrigins == PersonalOrigins \cup Judged

\* Responses that carry a header from which no lifetime follows.
Unusable ==
    {Plain, [Plain EXCEPT !.cacheControl = <<<<Directive("no-cache")>>>>],
     [Plain EXCEPT !.expires = 0]}
=============================================================================
