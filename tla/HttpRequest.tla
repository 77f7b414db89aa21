----------------------------- MODULE HttpRequest -----------------------------
(***************************************************************************)
(* The requests of one http_load client slot, one after the other:         *)
(* benchmarks/http_load/transport.py from pooled_http_client down to the   *)
(* stream readers, the metrics runner.py computes from their results and   *)
(* their later recomputation (commands/reporting.py, parser.py).           *)
(*                                                                         *)
(* RequestBatch has the slots of a pool and leaves a request's inside out; *)
(* here one slot is taken apart.  DeadlineWatchdog shows that an armed     *)
(* callback fires when it is due and not after cancel() has returned; here *)
(* a request arms and cancels callbacks on every path through it.          *)
(*                                                                         *)
(* Time is counted in ticks of each request.  Two readings of a clock that *)
(* both come after the deadline are not told apart.                        *)
(***************************************************************************)
EXTENDS HttpRoutes, LoadMetrics

CONSTANTS
    Trials,        \* the trials that may be run: see Init
    Answers,       \* what the platform's resolver may answer
    Requests,      \* requests of the slot; the first one is its warmup
    Deadline,      \* ticks a request may take
    MaxEvents,     \* bound: chunks of a response that carry something
    MaxRedirects   \* redirects followed (5 in the code)

ASSUME RequestAssumption ==
    /\ Requests \in Nat \ {0}
    /\ Deadline \in Nat /\ MaxEvents \in Nat /\ MaxRedirects \in Nat
    /\ \A a \in Answers : a.kind \in AnswerKinds /\ a.addresses \in Seq(Addresses)
    \* A route the suite hands on is one TargetDiscovery resolved for this URL,
    \* where an unresolved name is an error.
    /\ \A t \in Trials : t.pinned.raises = "no" =>
           \E a \in Answers, reject \in BOOLEAN :
               t.pinned = ResolveRoute(t.url, a, TRUE, reject)

VARIABLES
    trial,     \* the trial: its target and transport
    route,     \* the pool's route, NoRoute before it is resolved
    client,    \* the slot's client: whether it is open, its route and proxy
    request,   \* number of the request being made or made last
    pc,        \* "create", "idle", "hop", "sent", "answered", "arm", "reading",
               \* "read", "finish", "over" or "stored"
    now,       \* ticks since the request's start
    hops,      \* redirects followed
    url,       \* the URL of the hop
    armed,     \* callbacks the watchdog holds: <<"header" or "body", request>>
    reply,     \* what client.stream returned: status and location
    cut,       \* the live response was closed under its reader
    ended,     \* the server has ended the response's body
    seen,      \* the chunks the reader has taken
    times,     \* and when, for those with output
    result,    \* the result of the request, NoResult before
    warmup,    \* whether the warmup request was ok
    results,   \* the results of the measured requests: responses.jsonl
    wire,      \* history: what was sent, as <<address, origin, proxied>>
    metrics    \* the metrics of the recorded run, NoMetrics before

slot == <<trial, route, client>>
call == <<now, hops, url, armed, reply, cut, ended, seen, times>>
run == <<warmup, results, metrics>>
vars == <<slot, request, pc, call, result, run, wire>>

Late == now > Deadline
NoRoute == [raises |-> "unset"]
Closed == [open |-> FALSE, route |-> NoRoute, proxied |-> FALSE]
NoResult == FailedResult(0)
NoReply == [status |-> 0, location |-> "none"]
-----------------------------------------------------------------------------
(* The slot: HttpClientPool.__init__ and the end of a lease.                 *)

\* _new_http_client with the pool's route
NewClient(r) ==
    LET trust == PinnedTrustEnv(trial.url, trial.trustEnv, r.pinned, trial.environment)
    IN  [open |-> TRUE, route |-> r,
         proxied |-> trust.trust /\ ProxyApplies(trial.url, trial.environment)]

\* _reject_active_target_proxy
ProxyRefused == trial.trustEnv /\ ProxyApplies(trial.url, trial.environment)

\* _trial_route: the suite's route, or one look-up that must succeed.
TrialRoutes ==
    IF trial.pinned.raises = "no" THEN {trial.pinned}
    ELSE {ResolveRoute(trial.url, a, TRUE, FALSE) : a \in Answers}

CreatePool ==
    /\ pc = "create"
    /\ \/ /\ ProxyRefused
          /\ pc' = "stored"
          /\ UNCHANGED <<route, client>>
       \/ /\ ~ProxyRefused
          /\ \E r \in TrialRoutes :
                 IF r.raises # "no"
                 THEN pc' = "stored" /\ UNCHANGED <<route, client>>
                 ELSE pc' = "idle" /\ route' = r /\ client' = NewClient(r)
    /\ UNCHANGED <<trial, request, call, result, run, wire>>

\* Mutant: a replacement resolves the name again.
Replacements_Resolve == {r \in TrialRoutes : r.raises = "no"}

\* The route a replacement gets: the pool's.
Replacements == {route}

Fresh ==
    /\ now' = 0 /\ hops' = 0 /\ url' = trial.url /\ reply' = NoReply
    /\ cut' = FALSE /\ ended' = FALSE /\ seen' = <<>> /\ times' = <<>>
    /\ result' = NoResult

\* The lease ends: a closed client is replaced.
GiveBack ==
    /\ pc = "finish"
    /\ \/ client.open /\ UNCHANGED client
       \/ ~client.open /\ \E r \in Replacements : client' = NewClient(r)
    /\ IF request = 1
       THEN warmup' = result.ok /\ UNCHANGED results
       ELSE results' = Append(results, result) /\ UNCHANGED warmup
    /\ pc' = IF request = Requests THEN "over" ELSE "idle"
    /\ Fresh
    /\ UNCHANGED <<trial, route, request, armed, wire, metrics>>

-----------------------------------------------------------------------------
(* One request: post_json and _safe_stream.                                  *)

Start ==
    /\ pc = "idle"
    /\ request' = request + 1
    /\ pc' = "hop"
    /\ UNCHANGED <<slot, call, result, run, wire>>

\* The request's result is there and what it had armed is cancelled.
Return(r) ==
    /\ result' = r
    /\ pc' = "finish"
    /\ UNCHANGED <<slot, request, now, hops, url, reply, cut, ended, seen, times,
                   run, wire>>

\* The callbacks the request has armed
Mine == {<<"header", request>>, <<"body", request>>}

\* Mutant: the header callback is not cancelled when client.stream raises.
CancelAll_BodyOnly == armed' = armed \ {<<"body", request>>}

\* Both finally blocks.
CancelAll == armed' = armed \ Mine

\* An exception in the request: post_json makes a failed result of an HTTP error
\* or a timeout, run_requests of every other one.
Fail == CancelAll /\ Return(FailedResult(now))

\* PinnedHttpRoute.request_url and request_headers: the address connected to
\* differs from the origin the Host header names.
Sent(to) == <<client.route.connect, HttpOrigin(to), client.proxied>>

\* The top of the loop of _safe_stream: what is left of the time, the URL,
\* the header callback, and the request goes out.
Hop ==
    /\ pc = "hop"
    /\ \/ /\ Late \/ ~ValidRequestUrl(url, HttpOrigin(trial.url))
          /\ Fail
       \/ /\ ~Late /\ ValidRequestUrl(url, HttpOrigin(trial.url))
          /\ armed' = armed \cup {<<"header", request>>}
          /\ wire' = wire \cup {Sent(url)}
          /\ pc' = "sent"
          /\ UNCHANGED <<slot, request, now, hops, url, reply, cut, ended, seen, times,
                         result, run>>

\* What a server may answer: a final status, or a redirect.
Replies ==
    {[status |-> s, location |-> "none"] : s \in {200, 304, 500}}
        \cup {[status |-> s, location |-> l] : s \in {302, 307}, l \in {"here", "elsewhere"}}

\* The headers arrive.
ReceiveHeaders ==
    /\ pc = "sent"
    /\ reply' \in Replies
    /\ pc' = "answered"
    /\ UNCHANGED <<slot, request, now, hops, url, armed, cut, ended, seen, times,
                   result, run, wire>>

\* client.stream raises: the connection fails, an httpx timeout passes, or the
\* client was closed.
StreamRaises ==
    /\ pc = "sent"
    /\ Fail

Elsewhere == [trial.url EXCEPT !.host = Name(<<"elsewhere">>)]

\* urljoin
Location == IF reply.location = "here" THEN trial.url ELSE Elsewhere

\* After the headers: the callback is cancelled, then the deadline is checked.
Dispatch ==
    /\ pc = "answered"
    /\ LET redirect == reply.location # "none"
           followed == /\ ~Late /\ redirect /\ reply.status = 307
                       /\ ValidRequestUrl(Location, HttpOrigin(trial.url))
       IN  \/ /\ ~Late /\ ~redirect /\ reply.status # 304
              /\ armed' = armed \ {<<"header", request>>}
              /\ pc' = "arm"
              /\ UNCHANGED <<slot, request, now, hops, url, reply, cut, ended, seen,
                             times, result, run, wire>>
           \/ /\ followed /\ hops < MaxRedirects
              /\ armed' = armed \ {<<"header", request>>}
              /\ hops' = hops + 1
              /\ url' = Location
              /\ pc' = "hop"
              /\ UNCHANGED <<slot, request, now, reply, cut, ended, seen, times,
                             result, run, wire>>
           \/ /\ \/ Late
                 \/ redirect /\ ~(followed /\ hops < MaxRedirects)
                 \/ ~redirect /\ reply.status = 304
              /\ Fail

\* Mutant: the body is read without a callback that would close it.
ArmBody_Not ==
    /\ pc = "arm"
    /\ \/ Late /\ Fail
       \/ /\ ~Late
          /\ pc' = "reading"
          /\ UNCHANGED <<slot, request, now, hops, url, armed, reply, cut, ended, seen,
                         times, result, run, wire>>

\* _response_deadline
ArmBody ==
    /\ pc = "arm"
    /\ \/ Late /\ Fail
       \/ /\ ~Late
          /\ armed' = armed \cup {<<"body", request>>}
          /\ pc' = "reading"
          /\ UNCHANGED <<slot, request, now, hops, url, reply, cut, ended, seen, times,
                         result, run, wire>>

-----------------------------------------------------------------------------
(* The response's body: _iter_bounded_lines and _read_bounded_text with the  *)
(* readers of both protocols.                                                *)

\* What a chunk of the body may carry: visible text with or without the
\* expected fragment, visible white space, reasoning, an error object, bytes
\* that are no JSON.  Chunks that carry nothing are not events.  A trial says
\* which of them its server sends.
Events == {"fragment", "text", "blank", "reasoning", "error", "garbage"}
Output == {"fragment", "text", "blank", "reasoning"}
Streaming == trial.stream /\ reply.status = 200

\* The stream readers parse line by line; only Ollama's minds an error object.
ReaderRaises(event) ==
    /\ Streaming
    /\ event = "garbage" \/ (event = "error" /\ trial.protocol = "ollama")

\* A chunk arrives.  Its arrival after the deadline, too many bytes and a line
\* the reader cannot use raise.  The reader looks at the clock again for an
\* output's time, which may be a tick after the deadline was looked at.
ReadChunk ==
    /\ pc = "reading"
    /\ \/ Late /\ Fail
       \/ ~Late /\ Len(seen) = MaxEvents /\ Fail
       \/ /\ ~Late /\ Len(seen) < MaxEvents
          /\ \E event \in trial.sends :
                 \/ ReaderRaises(event) /\ Fail
                 \/ /\ ~ReaderRaises(event)
                    /\ seen' = Append(seen, event)
                    /\ \/ /\ event \in Output
                          /\ now' \in {now, now + 1}
                          /\ times' = Append(times, now')
                       \/ event \notin Output /\ UNCHANGED <<now, times>>
                    /\ UNCHANGED <<slot, request, pc, hops, url, armed, reply, cut,
                                   ended, result, run, wire>>

\* The tick of the first event of a kind, for a stream
FirstTime(kinds) ==
    LET output == Chosen(seen, {i \in DOMAIN seen : seen[i] \in Output})
        at == {i \in 1..Len(output) : output[i] \in kinds}
    IN  IF Streaming /\ at # {} THEN times[CHOOSE i \in at : \A j \in at : i <= j]
        ELSE Absent

\* The readers' RequestResult
Read ==
    [ok |-> TRUE, check |-> "none", latency |-> now,
     ttft |-> FirstTime(Output),
     visible |-> FirstTime({"fragment", "text", "blank"}),
     reasoning |-> FirstTime({"reasoning"}),
     itl |-> IF Streaming /\ times # <<>>
             THEN [i \in 1..(Len(times) - 1) |-> times[i + 1] - times[i]] ELSE <<>>]

\* Mutant: reasoning counts as an answer.
Checked_Reasoning(r) ==
    LET wanted == trial.expects
    IN  IF ToSet(seen) \cap Output = {}
        THEN [r EXCEPT !.ok = FALSE, !.check = IF wanted THEN "failed" ELSE "none"]
        ELSE IF wanted /\ "fragment" \notin ToSet(seen)
             THEN [r EXCEPT !.ok = FALSE, !.check = "failed"]
             ELSE [r EXCEPT !.check = IF wanted THEN "passed" ELSE "none"]

\* with_check_result
Checked(r) ==
    LET wanted == trial.expects
    IN  IF ToSet(seen) \cap {"fragment", "text"} = {}
        THEN [r EXCEPT !.ok = FALSE, !.check = IF wanted THEN "failed" ELSE "none"]
        ELSE IF wanted /\ "fragment" \notin ToSet(seen)
             THEN [r EXCEPT !.ok = FALSE, !.check = "failed"]
             ELSE [r EXCEPT !.check = IF wanted THEN "passed" ELSE "none"]

\* Mutant: the deadline is not looked at once more after the last chunk.
EndOfBody_Unchecked ==
    /\ pc = "reading"
    /\ ended' = TRUE \/ (cut /\ UNCHANGED ended)
    /\ pc' = "read"
    /\ UNCHANGED <<slot, request, now, hops, url, armed, reply, cut, seen, times, result,
                   run, wire>>

\* The iterator ends, with the body or because the response was closed, and the
\* deadline is looked at for the last time.
EndOfBody ==
    /\ pc = "reading"
    /\ ended' = TRUE \/ (cut /\ UNCHANGED ended)
    /\ IF Late THEN CancelAll /\ result' = FailedResult(now) /\ pc' = "finish"
       ELSE pc' = "read" /\ UNCHANGED <<armed, result>>
    /\ UNCHANGED <<slot, request, now, hops, url, reply, cut, seen, times, run, wire>>

\* The status and the parsed body decide.
Accepted ==
    IF reply.status = 500 \/ "garbage" \in ToSet(seen)
    THEN FailedResult(now) ELSE Checked(Read)

\* The reader's result, or the error's: its latency is read without a look at the
\* deadline, which may have passed meanwhile.
TakeResult ==
    /\ pc = "read"
    /\ CancelAll
    /\ Return(Accepted)

\* The iterator raises: the connection fails, an httpx timeout passes, or the
\* response was closed, which need not raise an error of httpx's.
ReadRaises ==
    /\ pc = "reading"
    /\ Fail

-----------------------------------------------------------------------------
(* The clock and the watchdog.                                               *)

InFlight == pc \in {"hop", "sent", "answered", "arm", "reading", "read"}

Tick ==
    /\ InFlight /\ ~Late
    /\ now' = now + 1
    /\ UNCHANGED <<slot, request, pc, hops, url, armed, reply, cut, ended, seen, times,
                   result, run, wire>>

\* A callback runs once its deadline has passed: client.close, or expire()
\* closing the response.
Fire ==
    /\ \E token \in armed :
           /\ token[2] = request => Late
           /\ armed' = armed \ {token}
           /\ client' = [client EXCEPT !.open = @ /\ token[1] # "header"]
           /\ cut' = (cut \/ token = <<"body", request>>)
    /\ UNCHANGED <<trial, route, request, pc, now, hops, url, reply, ended, seen, times,
                   result, run, wire>>

-----------------------------------------------------------------------------
(* The recorded run: runner.py, and a later recomputation of its metrics.    *)

NoMetrics == [request_count |-> 0]

\* The warmup's failures are counted apart.
Recorded ==
    LET summary == Summarize(results)
    IN  [f \in DOMAIN summary \cup {"warmup_error_count"} |->
            IF f \in DOMAIN summary THEN summary[f] ELSE IF warmup THEN 0 ELSE 1]

\* _run_one_http_load after its batches
Record ==
    /\ pc = "over"
    /\ metrics' = Recorded
    /\ pc' = "stored"
    /\ UNCHANGED <<slot, request, call, result, warmup, results, wire>>

\* reparse_http_load_run, from the results in responses.jsonl
Reparse ==
    /\ pc = "stored" /\ metrics # NoMetrics
    /\ metrics' = Summarize(results)
    /\ UNCHANGED <<slot, request, pc, call, result, warmup, results, wire>>

-----------------------------------------------------------------------------
Init ==
    /\ trial \in Trials /\ trial.sends \subseteq Events
    /\ route = NoRoute /\ client = Closed
    /\ request = 0 /\ pc = "create"
    /\ now = 0 /\ hops = 0 /\ url = trial.url /\ armed = {}
    /\ reply = NoReply /\ cut = FALSE /\ ended = FALSE /\ seen = <<>> /\ times = <<>>
    /\ result = NoResult /\ warmup = FALSE /\ results = <<>>
    /\ wire = {} /\ metrics = NoMetrics

\* What the worker does without waiting for anyone.
Worker == CreatePool \/ Start \/ Hop \/ Dispatch \/ ArmBody \/ TakeResult \/ GiveBack

\* A read or a wait for headers whose connection was closed comes back.
Interrupted == (~client.open /\ StreamRaises) \/ (cut /\ ReadRaises)

Next ==
    \/ Worker \/ ReceiveHeaders \/ StreamRaises \/ ReadChunk \/ EndOfBody \/ ReadRaises
    \/ Tick \/ Fire \/ Record \/ Reparse

Spec == Init /\ [][Next]_vars

\* The server owes nothing: it may send a byte now and then for ever, which
\* also keeps httpx's own timeouts from passing.
FairSpec == Spec /\ WF_vars(Worker) /\ WF_vars(Interrupted) /\ WF_vars(Tick) /\ WF_vars(Fire)

-----------------------------------------------------------------------------
(* Properties                                                                *)

\* A request counts as ok only when the server ended the body itself, every output
\* was read before the deadline, and what was read holds visible text, the expected
\* fragment and no error an Ollama stream reported: a response the watchdog closed,
\* whose reader just sees an end, is never taken for a complete one.  Its latency
\* may pass the deadline: it is read after the last look at it.
OkResultIsComplete ==
    pc = "finish" /\ result.ok =>
        /\ ended /\ \A i \in DOMAIN times : times[i] <= Deadline
        /\ ToSet(seen) \cap {"fragment", "text"} # {} /\ "garbage" \notin ToSet(seen)
        /\ Streaming /\ trial.protocol = "ollama" => "error" \notin ToSet(seen)
        /\ trial.expects => "fragment" \in ToSet(seen) /\ result.check = "passed"

\* Whatever the resolver answers over time, whatever is redirected or replaced:
\* all requests of a trial go to the configured origin, at one address, which is
\* not this machine's unless the URL says so, and none goes through a proxy.
RequestsStayOnTarget ==
    \A w \in wire :
        /\ w[2] = HttpOrigin(trial.url) /\ ~w[3]
        /\ w[1] # NoAddress \/ ExplicitLoopback(trial.url.host)
        /\ ~ClientLocal(w[1])
        /\ \A v \in wire : v[1] = w[1]

\* Nothing is closed under a request that has time left: no path through a
\* request leaves a callback armed that would cut one of its successors.
NoEarlyCut ==
    /\ ~client.open /\ pc \notin {"create", "stored"} => Late
    /\ cut /\ InFlight => Late

\* The stored metrics, recorded or recomputed, are ordered as distributions are
\* (summarize_request_results), count every measured request once, have no first
\* output of a successful request after the deadline, none after the request's end
\* and no visible output before the first output.
MetricsDescribeResults ==
    metrics # NoMetrics =>
        /\ \A d \in Distributions : Ordered(metrics[d])
        /\ metrics.request_count = Requests - 1
        /\ metrics.success_count + metrics.failed_latency.count = metrics.request_count
        /\ metrics.ttft.count > 0 => /\ metrics.ttft.max <= 100 * Deadline
                                     /\ metrics.ttft.max <= metrics.latency.max
        /\ metrics.visible_ttft.count > 0 => metrics.ttft.min <= metrics.visible_ttft.min

\* Every request ends, although the server may trickle bytes for ever.
RequestEnds == pc = "hop" ~> pc = "finish"
=============================================================================
