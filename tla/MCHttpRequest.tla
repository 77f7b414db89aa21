---------------------------- MODULE MCHttpRequest ----------------------------
(***************************************************************************)
(* A small instance of HttpRequest: a named target whose resolver changes  *)
(* its mind, a loopback target, a target the suite has already resolved,   *)
(* and an environment with a proxy the target is or is not exempt from.    *)
(***************************************************************************)
EXTENDS HttpRequest

Remote(id) == Address(4, FALSE, "remote", FALSE, id)
Loopback == Address(4, FALSE, "loopback", TRUE, "127.0.0.1")
Mapped == Address(6, TRUE, "loopback", TRUE, "::ffff:127.0.0.1")
LinkLocal == Address(6, FALSE, "remote", FALSE, "fe80::1")

Gpu == Name(<<"gpu", "lan">>)
Url(host) == [valid |-> TRUE, scheme |-> "http", host |-> host, port |-> 8000]

Plain == [proxies |-> {}, bypass |-> {}]
Pattern(form, labels, port) ==
    [form |-> form, scheme |-> "", host |-> Name(labels), port |-> port]
Proxied(bypass) == [proxies |-> {"all"}, bypass |-> bypass]

Answer(addresses) == [kind |-> "addresses", addresses |-> addresses]
MCAnswers ==
    {Answer(<<LinkLocal, Remote("a")>>), Answer(<<Remote("b")>>), Answer(<<LinkLocal>>),
     Answer(<<Remote("a"), Mapped>>), Answer(<<>>),
     [kind |-> "error", addresses |-> <<>>], [kind |-> "late", addresses |-> <<>>]}

Trial(host, environment, stream, protocol, expects, sends) ==
    [url |-> Url(host), pinned |-> [raises |-> "unset"], environment |-> environment,
     trustEnv |-> TRUE, stream |-> stream, protocol |-> protocol, expects |-> expects,
     sends |-> sends]

\* The suite hands on a route it resolved before (TargetDiscovery).
Pinned(trial_) ==
    [trial_ EXCEPT !.pinned = ResolveRoute(trial_.url, Answer(<<Remote("b")>>), TRUE, TRUE),
                   !.trustEnv = FALSE]

MCTrials ==
    {Trial(Gpu, Plain, TRUE, "openai", TRUE, {"fragment", "reasoning"}),
     Trial(Gpu, Proxied({Pattern("suffix", <<"lan">>, 8000)}), FALSE, "openai", FALSE,
           {"text", "garbage"}),
     Trial(Gpu, Proxied({Pattern("below", <<"lan">>, 80)}), TRUE, "openai", FALSE, {"text"}),
     Trial(Name(<<"localhost">>), Proxied({}), TRUE, "ollama", FALSE, {"text", "error", "blank"}),
     Pinned(Trial(Gpu, Proxied({}), FALSE, "ollama", TRUE, {"fragment", "text"}))}
=============================================================================
