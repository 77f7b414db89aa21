------------------------------ MODULE HttpRoutes ------------------------------
(***************************************************************************)
(* core/http_safety.py: where a request for a configured URL may go.       *)
(*                                                                         *)
(* Operators only.  A host name is its labels; what the platform's         *)
(* resolver answers is an argument.  An operation returns a record whose   *)
(* "raises" says whether it raised: "no", "config" (ConfigError) or        *)
(* "resolution" (HttpResolutionError, which is a ConfigError).             *)
(***************************************************************************)
EXTENDS Naturals, Sequences, SequencesExt

\* An address: its family, whether it is an IPv4 address mapped into IPv6, its
\* range, and whether an interface of this machine has it.
Address(family, mapped, range, own, id) ==
    [family |-> family, mapped |-> mapped, range |-> range, own |-> own, id |-> id]
NoAddress == Address(0, FALSE, "none", FALSE, "none")
Addresses ==
    [family : {0, 4, 6}, mapped : BOOLEAN, range : STRING, own : BOOLEAN, id : STRING]

\* A host is a name, or an address when "address" is one.
Name(labels) == [labels |-> labels, address |-> NoAddress]
Numeric(address) == [labels |-> <<address.id>>, address |-> address]

\* _normalized_address
Normalized(address) ==
    IF address.mapped THEN [address EXCEPT !.family = 4, !.mapped = FALSE] ELSE address

Raise(kind) == [raises |-> kind]
NoPort == 0

\* http_origin: user information, a fragment, another scheme, an unusable port
\* or host name make a URL invalid.
HttpOrigin(url) ==
    IF url.valid
    THEN [raises |-> "no", scheme |-> url.scheme, host |-> url.host,
          port |-> IF url.port # NoPort THEN url.port
                   ELSE IF url.scheme = "https" THEN 443 ELSE 80]
    ELSE Raise("config")

\* _is_explicit_client_loopback_host
ExplicitLoopback(host) ==
    \/ Head(host.labels) = "localhost"
    \/ Last(host.labels) = "localhost"
    \/ host.labels \in {<<"ip6-localhost">>, <<"localhost6">>, <<"localhost6", "localdomain6">>}
    \/ Normalized(host.address).range = "loopback"

ExplicitWildcard(host) == Normalized(host.address).range = "unspecified"

\* Mutant: a redirect may leave the configured origin.
ValidRequestUrl_AnyOrigin(url, expected) ==
    LET origin == HttpOrigin(url)
    IN  origin.raises = "no" /\ ~ExplicitWildcard(origin.host)

\* validate_request_url as a request calls it: without looking the name up.
ValidRequestUrl(url, expected) ==
    LET origin == HttpOrigin(url)
    IN  origin.raises = "no" /\ origin = expected /\ ~ExplicitWildcard(origin.host)

-----------------------------------------------------------------------------
(* Resolution.  An answer has a kind and a sequence of addresses.            *)

\* _getaddrinfo: its worker returns, raises, or has not done either when the
\* timeout passes, and what it finds later is dropped.
AnswerKinds == {"addresses", "error", "late"}

ClientLocal(address) == Normalized(address).range \in {"loopback", "unspecified"}

Direct(origin) == [raises |-> "no", origin |-> origin, pinned |-> FALSE, connect |-> NoAddress]

\* What the loop over the answers raises for.
Acceptable(address, rejectClientLocal) ==
    ~ClientLocal(address) /\ ~(rejectClientLocal /\ address.own)

\* The answers that are IP addresses; other entries are skipped.
Usable(addresses) == {i \in DOMAIN addresses : addresses[i].range # "none"}

\* The sort by family is stable: the first IPv4 address, or the first one.  The
\* removal of duplicates does not change which it is.
Preferred(addresses) ==
    LET v4 == {i \in Usable(addresses) : Normalized(addresses[i]).family = 4}
        best == IF v4 # {} THEN v4 ELSE Usable(addresses)
    IN  addresses[CHOOSE i \in best : \A j \in best : i <= j]

\* resolve_request_route
ResolveRoute(url, answer, required, rejectClientLocal) ==
    LET origin == HttpOrigin(url)
        found == answer.addresses
        unresolved == IF required THEN Raise("resolution") ELSE Direct(origin)
    IN  IF origin.raises # "no" \/ ExplicitWildcard(url.host) THEN Raise("config")
        ELSE IF ExplicitLoopback(url.host)
             THEN IF rejectClientLocal THEN Raise("config") ELSE Direct(origin)
        ELSE IF answer.kind = "late" THEN Raise("resolution")
        ELSE IF answer.kind = "error" THEN unresolved
        ELSE IF \E i \in Usable(found) : ~Acceptable(found[i], rejectClientLocal)
             THEN Raise("config")
        ELSE IF Usable(found) = {} THEN unresolved
        ELSE [raises |-> "no", origin |-> origin, pinned |-> TRUE,
              connect |-> Preferred(found)]

-----------------------------------------------------------------------------
(* The proxy of the environment.  "proxies" are the schemes it has one for   *)
(* ("all" for any); "bypass" is the set of NO_PROXY patterns, each with a    *)
(* form, a scheme ("" for any), a port (NoPort for any) and a host.          *)

\* _no_proxy_host_matches, and the pattern without a host
PatternCovers(pattern, host) ==
    CASE pattern.form = "any" -> TRUE
      [] pattern.form = "address" -> Normalized(host.address) = Normalized(pattern.host.address)
      [] pattern.form = "exact" -> host.labels = pattern.host.labels
      [] pattern.form = "below" -> /\ IsSuffix(pattern.host.labels, host.labels)
                                   /\ host.labels # pattern.host.labels
      [] pattern.form = "suffix" -> IsSuffix(pattern.host.labels, host.labels)

\* _httpx_no_proxy_bypass: one invalid pattern and none is trusted.
NoProxyBypass(origin, bypass) ==
    LET default == IF origin.scheme = "https" THEN 443 ELSE 80
        port == IF origin.port = default THEN NoPort ELSE origin.port
    IN  \/ \E p \in bypass : p.form = "star"
        \/ /\ \A p \in bypass : p.form # "invalid"
           /\ \E p \in bypass : /\ p.scheme \in {"", origin.scheme}
                                /\ p.port \in {NoPort, port}
                                /\ PatternCovers(p, origin.host)

HasProxy(scheme, environment) == {scheme, "all"} \cap environment.proxies # {}

\* environment_proxy_applies, for a valid URL
ProxyApplies(url, environment) ==
    /\ ~ExplicitLoopback(url.host)
    /\ HasProxy(url.scheme, environment)
    /\ ~NoProxyBypass(HttpOrigin(url), environment.bypass)

\* pinned_route_trust_env: whether the client may look at the environment.
PinnedTrustEnv(url, trustEnv, pinned, environment) ==
    IF ~trustEnv \/ ExplicitLoopback(url.host) THEN [raises |-> "no", trust |-> FALSE]
    ELSE IF ~pinned THEN [raises |-> "no", trust |-> TRUE]
    ELSE IF ProxyApplies(url, environment) THEN Raise("config")
    ELSE [raises |-> "no", trust |-> FALSE]
=============================================================================
