---------------------------- MODULE RequestPolicy ----------------------------
(***************************************************************************)
(* Which requests may be made and which responses returned:                *)
(* internal/policy. The proxy and the exit each check with their own       *)
(* configuration, a record with the fields of config.PolicyConfig whose    *)
(* lists are sets. A url is what url.Parse leaves of it: parses tells      *)
(* whether it does, with a port that strconv.Atoi can read; a host is the  *)
(* sequence of its labels, in lower case as are the domains of the allow   *)
(* list; literal tells an IP address from a name, and private that the     *)
(* address (the one it resolves to, for a name) is one that                *)
(* safedialer.IsPrivateIP reports.                                         *)
(***************************************************************************)
EXTENDS Integers, Sequences

CONSTANT DefaultMaxBytes    \* the exit's limit when max_response_bytes is 0 (10 MiB)

EndsIn(host, base) ==
    /\ Len(host) > Len(base)
    /\ SubSeq(host, Len(host) - Len(base) + 1, Len(host)) = base

\* "*.example.com" stands for the names below example.com, not for example.com; "*" alone
\* stands for itself.
IsWildcard(a) == Len(a) > 1 /\ Head(a) = "*"

IsAllowedDomain(host, allowList) ==
    \/ allowList = {}
    \/ \E a \in allowList : host = a \/ (IsWildcard(a) /\ EndsIn(host, Tail(a)))

IsAllowedPort(port, cfg) ==
    /\ port \notin cfg.BlockedPorts
    /\ cfg.AllowedPorts = {} \/ port \in cfg.AllowedPorts

\* The port of a url that names none. (Port 0 is a port that is named.)
NoPort == -1

PortOf(url) == IF url.port # NoPort THEN url.port
               ELSE IF url.scheme = "https" THEN 443 ELSE 80

\* A name is not resolved here: what it resolves to is left to the dialer.
CheckRequest(url, cfg) ==
    /\ url.parses
    /\ cfg.AllowedSchemes = {} \/ url.scheme \in cfg.AllowedSchemes
    /\ IsAllowedPort(PortOf(url), cfg)
    /\ cfg.BlockPrivateRanges => ~(url.literal /\ url.private)
    /\ IsAllowedDomain(url.host, cfg.DomainAllowList)

CheckContentType(contentType, cfg) ==
    cfg.AllowedContentTypes = {} \/ contentType \in cfg.AllowedContentTypes

\* The exit's checks of a response: its content type, if it has one, and its size.
CheckResponse(resp, cfg) ==
    /\ resp.contentType # "" => CheckContentType(resp.contentType, cfg)
    /\ resp.size <= IF cfg.MaxResponseBytes > 0 THEN cfg.MaxResponseBytes ELSE DefaultMaxBytes
=============================================================================
