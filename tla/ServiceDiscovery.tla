-------------------------- MODULE ServiceDiscovery --------------------------
(***************************************************************************)
(* providers/openai_discovery.py, OpenAIDiscoveryClient.discover: up to    *)
(* four requests one after the other over one HTTP client, each in         *)
(* _get_bounded_response under a timer that closes the client when the     *)
(* request's time is over.  A closed client is replaced before the next    *)
(* request.                                                                *)
(*                                                                         *)
(* A request ends "ok"; "slow" (a timeout or a lost connection); "broken"  *)
(* (a server error); "refused" (a client error, a redirect to elsewhere or *)
(* once too often, an answer that is too large, compressed or invalid);    *)
(* "fatal" (a TLS, proxy or protocol failure); or "closed", the            *)
(* RuntimeError of a client that was closed before it could send.          *)
(***************************************************************************)
EXTENDS Naturals, FiniteSets

CONSTANTS
    Servers,         \* what may answer: whether it is healthy, the models it serves and
                     \* whether it gives server information
    MaxRedirects     \* _MAX_REDIRECTS

Wanted == "wanted"      \* the model an explicit selection names
Models == {Wanted, "other"}

ASSUME ServiceDiscoveryAssumption ==
    /\ Servers \subseteq [healthy : BOOLEAN, served : SUBSET Models, info : BOOLEAN]
    /\ MaxRedirects \in Nat

VARIABLES
    server,          \* the one of Servers that is asked
    asking,          \* the request being made, or how discover() ended
    step,            \* where _get_bounded_response is
    outcome,         \* what the request ended with
    cut,             \* history: whether its client was closed when it ended
    hops,            \* redirects it has followed
    late,            \* its deadline has passed
    client,          \* the number of the current client
    closed,          \* the clients that are closed
    waiting,         \* the timers that wait, each a request and its client
    firing,          \* the timers whose callback has begun and has still to close the client
    found            \* what the ServiceDiscovery will say

request == <<asking, step, outcome, cut, hops, late>>
timers == <<waiting, firing>>
clients == <<client, closed>>
discovery == <<server, request, timers, clients, found>>

Requests == {"health", "version", "models", "server_info"}
Critical == {"health", "models"}

Nothing == [healthy |-> FALSE, models |-> {}, server_info |-> FALSE]
NoServer == [healthy |-> FALSE, served |-> {}, info |-> FALSE]

DiscoveryIdle == asking = "idle"
DiscoveryOver == asking \in {"returned", "raised", "failed", "dns"}
Discovering == ~DiscoveryIdle /\ ~DiscoveryOver

Timer == <<asking, client>>
Expired == Timer \notin waiting      \* expired.is_set()

-----------------------------------------------------------------------------
\* The route of the target is looked up first: the name does not resolve, or its
\* addresses are refused, as headers or a CA bundle that cannot be used are.
Route ==
    /\ DiscoveryIdle
    /\ server' \in Servers
    /\ asking' \in {"health", "dns", "raised"}
    /\ UNCHANGED <<step, outcome, cut, hops, late, timers, clients, found>>

\* active_client(), and the timer is started.
Ask ==
    /\ Discovering /\ step = "idle"
    /\ client' = IF client \in closed THEN client + 1 ELSE client
    /\ waiting' = waiting \cup {<<asking, client'>>}
    /\ late' = FALSE /\ hops' = 0 /\ outcome' = "none" /\ cut' = FALSE
    /\ step' = "send"
    /\ UNCHANGED <<server, asking, closed, firing, found>>

\* The request leaves _get_bounded_response_before_deadline: by a return, or by an
\* exception, of which any httpx error is a timeout once the timer has expired.
Ended(how) == outcome' = how /\ step' = "cancel"

\* A client that was closed cannot send: no httpx error but a RuntimeError, which is
\* not converted and ends discover().
Send ==
    /\ step = "send"
    /\ cut' = (client \in closed)
    /\ IF client \in closed THEN Ended("closed") ELSE step' = "open" /\ UNCHANGED outcome
    /\ UNCHANGED <<server, asking, hops, late, timers, clients, found>>

\* Mutant: an httpx error is passed on as it is.
Fails_Unconverted ==
    /\ step = "open"
    /\ cut' = (client \in closed)
    /\ \E how \in {"slow", "fatal"} : Ended(how)
    /\ UNCHANGED <<server, asking, hops, late, timers, clients, found>>

\* Connecting, sending or reading fails, as it does once the client is closed.
Fails ==
    /\ step = "open"
    /\ cut' = (client \in closed)
    /\ \E how \in {"slow", "fatal"} : Ended(IF Expired THEN "slow" ELSE how)
    /\ UNCHANGED <<server, asking, hops, late, timers, clients, found>>

\* A response to a request that is late is not looked at, nor is a chunk of one.
Overdue ==
    /\ step = "open" /\ late
    /\ Ended("slow")
    /\ UNCHANGED <<server, asking, cut, hops, late, timers, clients, found>>

Redirected ==
    /\ step = "open" /\ ~late /\ client \notin closed
    /\ IF hops = MaxRedirects THEN Ended("refused") /\ UNCHANGED hops
       ELSE /\ hops' = hops + 1
            /\ step' = "send"
            /\ UNCHANGED outcome
    /\ UNCHANGED <<server, asking, cut, late, timers, clients, found>>

\* What the server has to say, in time; an unhealthy server answers with an error.
Gives ==
    CASE asking = "health" -> server.healthy
      [] asking = "server_info" -> server.info
      [] OTHER -> TRUE

Responds ==
    /\ step = "open" /\ ~late /\ client \notin closed
    /\ \/ Gives /\ Ended("ok")
       \/ \E how \in {"broken", "refused"} : Ended(how)
    /\ UNCHANGED <<server, asking, cut, hops, late, timers, clients, found>>

\* timer.cancel(): of no effect on a callback that has begun.
Cancel ==
    /\ step = "cancel"
    /\ waiting' = waiting \ {Timer}
    /\ step' = "join"
    /\ UNCHANGED <<server, asking, outcome, cut, hops, late, firing, clients, found>>

\* The next request: none after the last one, no server_info without the policy, and
\* nothing after a health request that could not be sent or answered.
After(policy) ==
    CASE asking = "health" -> IF outcome = "slow" THEN "returned" ELSE "version"
      [] asking = "version" -> "models"
      [] asking = "models" -> IF policy = "off" THEN "returned" ELSE "server_info"
      [] asking = "server_info" -> "returned"

\* discover() raises a ConfigError: what no retry would mend is never taken for an
\* unavailable service.
Raises == outcome = "fatal" \/ (outcome = "refused" /\ asking \in Critical)

\* What discover() makes of the outcome.
Settle(policy) ==
    /\ asking' = IF outcome = "closed" THEN "failed"
                 ELSE IF Raises THEN "raised" ELSE After(policy)
    /\ step' = "idle"
    /\ found' = IF outcome # "ok" THEN found
                ELSE [found EXCEPT !.healthy = @ \/ asking = "health",
                                   !.models = IF asking = "models" THEN server.served ELSE @,
                                   !.server_info = @ \/ asking = "server_info"]
    /\ UNCHANGED <<server, outcome, cut, hops, late, timers, clients>>

\* Mutant: cancelled is taken for over.
Join_Not(policy) == step = "join" /\ Settle(policy)

\* timer.join(), and back in discover().
Join(policy) ==
    /\ step = "join"
    /\ Timer \notin firing
    /\ Settle(policy)

-----------------------------------------------------------------------------
(* Time and the threads of the timers.                                       *)

Passes ==
    /\ step \notin {"idle", "join"} /\ ~late
    /\ late' = TRUE
    /\ UNCHANGED <<server, asking, step, outcome, cut, hops, timers, clients, found>>

Expire(timer) ==
    /\ late
    /\ timer \in waiting
    /\ waiting' = waiting \ {timer}
    /\ firing' = firing \cup {timer}
    /\ UNCHANGED <<server, request, clients, found>>

Close(timer) ==
    /\ timer \in firing
    /\ firing' = firing \ {timer}
    /\ closed' = closed \cup {timer[2]}
    /\ UNCHANGED <<server, request, waiting, client, found>>

DiscoveryNext(policy) ==
    \/ Route
    \/ Ask \/ Send \/ Fails \/ Overdue \/ Redirected \/ Responds \/ Cancel \/ Join(policy)
    \/ Passes
    \/ \E timer \in waiting \cup firing : Expire(timer) \/ Close(timer)

DiscoveryInit ==
    /\ server = NoServer /\ asking = "idle" /\ step = "idle" /\ outcome = "none"
    /\ cut = FALSE /\ hops = 0 /\ late = FALSE /\ client = 1 /\ closed = {}
    /\ waiting = {} /\ firing = {} /\ found = Nothing

\* discover() is over and its client closed; its caller takes the result.
DiscoveryTaken ==
    /\ server' = NoServer /\ asking' = "idle" /\ step' = "idle" /\ outcome' = "none"
    /\ cut' = FALSE /\ hops' = 0 /\ late' = FALSE /\ client' = 1 /\ closed' = {}
    /\ waiting' = {} /\ firing' = {} /\ found' = Nothing

DiscoveryTypeOK ==
    /\ server \in Servers \cup {NoServer}
    /\ Discovering => asking \in Requests
    /\ step \in {"idle", "send", "open", "cancel", "join"}
    /\ outcome \in {"none", "ok", "slow", "broken", "refused", "fatal", "closed"}
    /\ cut \in BOOLEAN /\ late \in BOOLEAN /\ hops \in 0..MaxRedirects
    /\ client \in 1..Cardinality(Requests) /\ closed \subseteq 1..client
    /\ waiting \cup firing \subseteq Requests \X (1..client)
    /\ found \in [healthy : BOOLEAN, models : SUBSET Models, server_info : BOOLEAN]

\* openai_discovery.py: the callback of a timer "may still close this client".  Only
\* its own deadline, once it has passed, cuts a request off: no timer of an earlier
\* request is left to do it.  A request that is cut ends as a timeout, or with the
\* RuntimeError of a client closed before a redirect was followed: a slow service is
\* never taken for one that is configured wrongly.
DeadlinesAreTimeouts ==
    /\ cut => late /\ outcome \in {"slow", "closed"}
    /\ waiting \cup firing \subseteq (IF step = "idle" THEN {} ELSE {Timer})
=============================================================================
