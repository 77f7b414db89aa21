---------------------------- MODULE LmEvalRelay ----------------------------
(***************************************************************************)
(* benchmarks/lm_eval/runner.py, _lm_eval_target: the loopback relay that  *)
(* lm-eval's requests go through, around the processes of ProcessGroup.    *)
(*                                                                         *)
(* Every connection gets a handler thread, which opens a client of its own *)
(* for the upstream request and arms a timer that closes it.  When the run *)
(* is recorded the relay is closed: it refuses new clients, closes those   *)
(* it has, stops accepting, and joins the handlers for a bounded time.     *)
(* What is under _RelayState's condition is one step.                      *)
(***************************************************************************)
EXTENDS ProcessGroup

CONSTANT Handlers    \* bound: connections the relay is sent

VARIABLES
    relay,       \* "serving", "closing", "stopping", "joining" or "closed"
    recorded,    \* the outcome the run was recorded with, "none" before
    closing,     \* _RelayState._closing
    clients,     \* _RelayState._clients, as the handlers they belong to
    toclose,     \* begin_shutdown: clients it has still to close
    pc,          \* each handler
    client,      \* its client: "none", "open" or "closed"
    timer        \* its timer: "off", "armed", "expiring" or "over"

handler == <<pc, client, timer>>
relayVars == <<relay, recorded, closing, clients, toclose, handler>>
vars == <<groupVars, relayVars>>

-----------------------------------------------------------------------------
(* A handler thread.                                                         *)

Goto(h, step) == pc' = [pc EXCEPT ![h] = step]
Close(h) == client' = [client EXCEPT ![h] = "closed"]

\* process_request: whoever is alive connects.
Accept(h) ==
    /\ relay \in {"serving", "closing", "stopping"}
    /\ pc[h] = "new" /\ alive # {}
    /\ Goto(h, "read")
    /\ UNCHANGED <<groupVars, relay, recorded, closing, clients, toclose, client, timer>>

\* The request is read, which takes as long as its sender likes; one that is not
\* allowed is answered at once.
Read(h) ==
    /\ pc[h] = "read"
    /\ \/ Goto(h, "add") /\ client' = [client EXCEPT ![h] = "open"]
       \/ Goto(h, "done") /\ UNCHANGED client
    /\ UNCHANGED <<groupVars, relay, recorded, closing, clients, toclose, timer>>

\* Mutant: whether the relay is closing is not looked at.
AddClient_Unchecked(h) ==
    /\ pc[h] = "add"
    /\ clients' = clients \cup {h}
    /\ timer' = [timer EXCEPT ![h] = "armed"]
    /\ Goto(h, "stream")
    /\ UNCHANGED <<groupVars, relay, recorded, closing, toclose, client>>

\* add_client: refused once the relay is closing.
AddClient(h) ==
    /\ pc[h] = "add"
    /\ \/ /\ ~closing
          /\ clients' = clients \cup {h}
          /\ timer' = [timer EXCEPT ![h] = "armed"]
          /\ Goto(h, "stream")
          /\ UNCHANGED client
       \/ /\ closing
          /\ Close(h)
          /\ Goto(h, "done")
          /\ UNCHANGED <<clients, timer>>
    /\ UNCHANGED <<groupVars, relay, recorded, closing, toclose>>

\* The upstream request is over: answered, failed or refused by a closed client.
StreamEnds(h) ==
    /\ pc[h] = "stream"
    /\ Goto(h, "reply")
    /\ UNCHANGED <<groupVars, relay, recorded, closing, clients, toclose, client, timer>>

\* The answer, or a 502, is written; then the finally-block cancels the timer.
Reply(h) ==
    /\ pc[h] = "reply"
    /\ timer' = [timer EXCEPT ![h] = IF @ = "armed" THEN "over" ELSE @]
    /\ Goto(h, "join")
    /\ UNCHANGED <<groupVars, relay, recorded, closing, clients, toclose, client>>

\* The timer is joined, the client closed and forgotten, and the thread ends.
Cleanup(h) ==
    /\ pc[h] = "join" /\ timer[h] = "over"
    /\ Close(h)
    /\ clients' = clients \ {h}
    /\ Goto(h, "done")
    /\ UNCHANGED <<groupVars, relay, recorded, closing, toclose, timer>>

\* The timer's thread: request_timeout_s has passed, and the client is closed.
Expire(h) ==
    /\ timer[h] = "armed"
    /\ timer' = [timer EXCEPT ![h] = "expiring"]
    /\ UNCHANGED <<groupVars, relay, recorded, closing, clients, toclose, pc, client>>

\* Mutant: the callback only notes that the time is over.
Expired_Flag(h) ==
    /\ timer[h] = "expiring"
    /\ timer' = [timer EXCEPT ![h] = "over"]
    /\ UNCHANGED <<groupVars, relay, recorded, closing, clients, toclose, pc, client>>

Expired(h) ==
    /\ timer[h] = "expiring"
    /\ Close(h)
    /\ timer' = [timer EXCEPT ![h] = "over"]
    /\ UNCHANGED <<groupVars, relay, recorded, closing, clients, toclose, pc>>

-----------------------------------------------------------------------------
(* The main thread.                                                          *)

Process == Parent /\ UNCHANGED relayVars

\* run.complete(), or the session's exit when the process call raised.
Record ==
    /\ Gone /\ recorded = "none"
    /\ recorded' = IF parent = "raised" THEN "raised"
                   ELSE IF reason = "timeout" THEN "timeout" ELSE "completed"
    /\ UNCHANGED <<groupVars, relay, closing, clients, toclose, handler>>

\* The target's context ends: begin_shutdown takes the clients it has to close.
BeginShutdown ==
    /\ recorded # "none" /\ relay = "serving"
    /\ closing' = TRUE
    /\ toclose' = clients
    /\ relay' = "closing"
    /\ UNCHANGED <<groupVars, recorded, clients, handler>>

CloseClient(h) ==
    /\ relay = "closing" /\ h \in toclose
    /\ Close(h)
    /\ toclose' = toclose \ {h}
    /\ UNCHANGED <<groupVars, relay, recorded, closing, clients, pc, timer>>

ClientsClosed ==
    /\ relay = "closing" /\ toclose = {}
    /\ relay' = "stopping"
    /\ UNCHANGED <<groupVars, recorded, closing, clients, toclose, handler>>

\* server.shutdown() and server_close()
StopServer ==
    /\ relay = "stopping"
    /\ relay' = "joining"
    /\ UNCHANGED <<groupVars, recorded, closing, clients, toclose, handler>>

\* Mutant: the handlers are joined without a time limit.
JoinHandlers_Unbounded ==
    /\ relay = "joining"
    /\ \A h \in Handlers : pc[h] \in {"new", "done"}
    /\ relay' = "closed"
    /\ UNCHANGED <<groupVars, recorded, closing, clients, toclose, handler>>

\* join_handlers: they have all ended, or the time for it is over.
JoinHandlers ==
    /\ relay = "joining"
    /\ relay' = "closed"
    /\ UNCHANGED <<groupVars, recorded, closing, clients, toclose, handler>>

Shutdown == BeginShutdown \/ (\E h \in Handlers : CloseClient(h)) \/ ClientsClosed
            \/ StopServer \/ JoinHandlers

Init ==
    /\ GroupInit
    /\ relay = "serving"
    /\ recorded = "none"
    /\ closing = FALSE
    /\ clients = {} /\ toclose = {}
    /\ pc = [h \in Handlers |-> "new"]
    /\ client = [h \in Handlers |-> "none"]
    /\ timer = [h \in Handlers |-> "off"]

Handler(h) == Accept(h) \/ Read(h) \/ AddClient(h) \/ StreamEnds(h) \/ Reply(h) \/ Cleanup(h)

Timer(h) == Expire(h) \/ Expired(h)

Next ==
    \/ Process \/ Record \/ Shutdown
    \/ (Processes \/ Interrupts) /\ UNCHANGED relayVars
    \/ \E h \in Handlers : Handler(h) \/ Timer(h)

Spec == Init /\ [][Next]_vars

\* The main thread and the timers run.  A request ends once its client is closed: by
\* the error that follows, at the next chunk or by httpx's own timeout.  Nothing else
\* is sure to happen.
FairSpec ==
    /\ Spec
    /\ WF_vars(Process \/ Record \/ Shutdown)
    /\ \A h \in Handlers : WF_vars(Timer(h)) /\ WF_vars(client[h] = "closed" /\ StreamEnds(h))

-----------------------------------------------------------------------------
TypeOK ==
    /\ GroupTypeOK
    /\ relay \in {"serving", "closing", "stopping", "joining", "closed"}
    /\ recorded \in {"none", "completed", "timeout", "raised"}
    /\ closing \in BOOLEAN
    /\ clients \subseteq Handlers /\ toclose \subseteq Handlers
    /\ pc \in [Handlers -> {"new", "read", "add", "stream", "reply", "join", "done"}]
    /\ client \in [Handlers -> {"none", "open", "closed"}]
    /\ timer \in [Handlers -> {"off", "armed", "expiring", "over"}]

\* The shutdown reaches every upstream client: once it has closed those it knew of,
\* the only open client is one that is still to be refused, whatever handlers were
\* doing meanwhile; and no handler leaves a client or a timer behind.
EveryClientIsClosed ==
    \A h \in Handlers :
        /\ relay \in {"stopping", "joining", "closed"} /\ client[h] = "open" => pc[h] = "add"
        /\ pc[h] = "done" =>
               client[h] # "open" /\ h \notin clients /\ timer[h] \in {"off", "over"}

\* runner.py: a descendant cannot keep issuing requests after the run is marked
\* failed for its deadline, unless it has left the process group.
NoRequestsAfterTimeout ==
    [][\A h \in Handlers :
          recorded = "timeout" /\ pc[h] = "new" /\ pc'[h] # "new" => alive \ group # {}]_vars

\* docs/dgx-spark.md: request_timeout_s is an absolute deadline of every request, an
\* upstream that never answers included.
RequestsEnd == \A h \in Handlers : pc[h] = "stream" ~> pc[h] # "stream"

\* The target's context ends whatever its requests and processes do, unless a
\* process that left the group keeps the output open.
TrialEnds == <>(relay = "closed" \/ Writers \ group # {})
=============================================================================
