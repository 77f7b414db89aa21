---------------------------- MODULE RequestBatch ----------------------------
(***************************************************************************)
(* One http_load trial: benchmarks/http_load/runner.py,                    *)
(* _run_one_http_load, over transport.py, run_requests and HttpClientPool. *)
(*                                                                         *)
(* The trial runs two batches, warmup and measured, through one pool of    *)
(* persistent clients.  A batch is a thread pool of as many workers as the *)
(* pool has clients; its first wave of requests is held at a barrier until *)
(* every worker has leased a client.  A deadline that passes while a       *)
(* request waits for its headers closes the client under it                *)
(* (DeadlineWatchdog: only while the worker holds it), and the worker puts *)
(* a fresh client in its place when it gives the lease back.               *)
(***************************************************************************)
EXTENDS Naturals, Sequences, FiniteSets, SequencesExt

CONSTANTS
    Concurrency,   \* clients of the pool and worker threads
    Warmup,        \* warmup requests the scenario asks for
    Requests,      \* measured requests
    Faults         \* which of "deadline", "replacement", "interrupt" happen

\* http_load/config.py refuses more workers than measured requests.
ASSUME BatchAssumption ==
    /\ Concurrency \in Nat \ {0}
    /\ Warmup \in Nat
    /\ Requests \in Nat /\ Requests >= Concurrency

Workers == 1..Concurrency

\* effective_warmup_requests: every slot is warmed.
Batches == [warmup |-> IF Warmup >= Concurrency THEN Warmup ELSE Concurrency,
            measured |-> Requests]

VARIABLES
    batch,       \* the batch being run: "warmup" or "measured"
    main,        \* the main thread: "submit", "collect", "raising" or "closed"
    submitted,   \* requests of the batch submitted to the thread pool
    taken,       \* and taken off its queue, in order
    pc,          \* each worker: "idle", "lease", "barrier", "request" or "release"
    task,        \* the request it works on
    held,        \* the client it has leased, NoClient before it has
    answer,      \* the outcome of its request
    outcome,     \* what each request's future holds, "none" until it is done
    owned,       \* _clients: the client of every slot
    available,   \* the idle clients; the one put last is leased first
    opened,      \* how many clients were ever opened; they are numbered
    closed,      \* the clients that are closed
    warm,        \* history: clients a warmup request went through
    measured,    \* history: clients a measured request went through
    status       \* the status of the completed run, "none" before

pool == <<owned, available, opened, closed>>
thread == <<pc, task, held, answer>>
vars == <<batch, main, submitted, taken, thread, outcome, pool, warm, measured, status>>

NoClient == 0
Count == Batches[batch]
-----------------------------------------------------------------------------
(* The main thread: run_requests.                                            *)

Submit ==
    /\ main = "submit" /\ submitted < Count
    /\ submitted' = submitted + 1
    /\ UNCHANGED <<batch, main, taken, thread, outcome, pool, warm, measured, status>>

AllSubmitted ==
    /\ main = "submit" /\ submitted = Count
    /\ main' = "collect"
    /\ UNCHANGED <<batch, submitted, taken, thread, outcome, pool, warm, measured, status>>

\* The thread pool has run everything that was submitted.
Drained == taken = submitted /\ \A w \in Workers : pc[w] = "idle"

\* run_requests returns a result for every future, and the next batch starts.
NextBatch ==
    /\ main = "collect" /\ batch = "warmup" /\ Drained
    /\ batch' = "measured"
    /\ main' = "submit"
    /\ submitted' = 0
    /\ taken' = 0
    /\ UNCHANGED <<thread, outcome, pool, warm, measured, status>>

\* Mutant: failed warmup requests do not count.
RunStatus_IgnoresWarmup ==
    IF \A i \in 1..Batches.measured : outcome["measured"][i] = "ok" THEN "ok" ELSE "failed"

\* _run_one_http_load: "ok" takes every warmup and every measured request.
RunStatus ==
    IF \A b \in DOMAIN Batches : \A i \in 1..Batches[b] : outcome[b][i] = "ok"
    THEN "ok" ELSE "failed"

\* HttpClientPool.close
ClosePool == closed' = closed \cup ToSet(owned)

\* Both batches are over: the pool is closed and the run completed.
Finish ==
    /\ main = "collect" /\ batch = "measured" /\ Drained
    /\ ClosePool
    /\ main' = "closed"
    /\ status' = RunStatus
    /\ UNCHANGED <<batch, submitted, taken, thread, outcome, owned, available, opened,
                   warm, measured>>

\* Ctrl-C reaches the main thread: the executor's exit still waits for what was
\* submitted.
Interrupt ==
    /\ "interrupt" \in Faults
    /\ main \in {"submit", "collect"}
    /\ main' = "raising"
    /\ UNCHANGED <<batch, submitted, taken, thread, outcome, pool, warm, measured, status>>

AbandonTrial ==
    /\ main = "raising" /\ Drained
    /\ ClosePool
    /\ main' = "closed"
    /\ UNCHANGED <<batch, submitted, taken, thread, outcome, owned, available, opened,
                   warm, measured, status>>

-----------------------------------------------------------------------------
(* A worker: _execute_with_client under HttpClientPool.lease.                *)

Take(w) ==
    /\ pc[w] = "idle" /\ taken < submitted
    /\ taken' = taken + 1
    /\ task' = [task EXCEPT ![w] = taken']
    /\ pc' = [pc EXCEPT ![w] = "lease"]
    /\ UNCHANGED <<batch, main, submitted, held, answer, outcome, pool, warm, measured, status>>

\* The first requests of a batch, one for each slot, wait for each other.
FirstWave(i) == Concurrency > 1 /\ i <= Concurrency

\* Mutant: the first wave is not held.
Lease_NoBarrier(w) ==
    /\ pc[w] = "lease" /\ available # <<>>
    /\ held' = [held EXCEPT ![w] = Last(available)]
    /\ available' = Front(available)
    /\ pc' = [pc EXCEPT ![w] = "request"]
    /\ UNCHANGED <<batch, main, submitted, taken, task, answer, outcome, owned, opened, closed,
                   warm, measured, status>>

\* Waits for a client; the one that was put back last comes first.
Lease(w) ==
    /\ pc[w] = "lease" /\ available # <<>>
    /\ held' = [held EXCEPT ![w] = Last(available)]
    /\ available' = Front(available)
    /\ pc' = [pc EXCEPT ![w] = IF FirstWave(task[w]) THEN "barrier" ELSE "request"]
    /\ UNCHANGED <<batch, main, submitted, taken, task, answer, outcome, owned, opened, closed,
                   warm, measured, status>>

\* Barrier.wait: the last of the wave lets all of them go.
PassBarrier ==
    /\ \A w \in Workers : pc[w] = "barrier"
    /\ pc' = [w \in Workers |-> "request"]
    /\ UNCHANGED <<batch, main, submitted, taken, task, held, answer, outcome, pool, warm,
                   measured, status>>

\* execute_http_request: the request goes through its client and succeeds, or
\* fails or raises; a header deadline also closes the client.
Request(w) ==
    /\ pc[w] = "request"
    /\ \E result \in {"ok", "failed"} :
          /\ answer' = [answer EXCEPT ![w] = result]
          /\ \/ UNCHANGED closed
             \/ /\ "deadline" \in Faults /\ result = "failed"
                /\ closed' = closed \cup {held[w]}
    /\ pc' = [pc EXCEPT ![w] = "release"]
    /\ warm' = IF batch = "warmup" THEN warm \cup {held[w]} ELSE warm
    /\ measured' = IF batch = "measured" THEN measured \cup {held[w]} ELSE measured
    /\ UNCHANGED <<batch, main, submitted, taken, task, held, outcome, owned, available, opened,
                   status>>

\* The future is done and the worker looks for the next request.
Done(w, result) ==
    /\ outcome' = [outcome EXCEPT ![batch][task[w]] = result]
    /\ held' = [held EXCEPT ![w] = NoClient]
    /\ pc' = [pc EXCEPT ![w] = "idle"]
    /\ UNCHANGED <<batch, main, submitted, taken, task, answer, warm, measured, status>>

\* Mutant: the client is put back after the with-block, not in its finally.
GiveBack_NoFinally(w) ==
    /\ pc[w] = "release" /\ (held[w] \notin closed \/ main = "closed")
    /\ available' = IF answer[w] = "ok" THEN Append(available, held[w]) ELSE available
    /\ Done(w, answer[w])
    /\ UNCHANGED <<owned, opened, closed>>

\* The lease ends and the client is put back.
GiveBack(w) ==
    /\ pc[w] = "release" /\ (held[w] \notin closed \/ main = "closed")
    /\ available' = Append(available, held[w])
    /\ Done(w, answer[w])
    /\ UNCHANGED <<owned, opened, closed>>

\* Mutant: the fresh client is not entered among the pool's own.
Replace_NotOwned(w) ==
    /\ pc[w] = "release" /\ held[w] \in closed /\ main # "closed"
    /\ opened' = opened + 1
    /\ available' = Append(available, opened')
    /\ Done(w, answer[w])
    /\ UNCHANGED <<owned, closed>>

\* A closed client is replaced by a fresh one in its slot, which is put back.
Replace(w) ==
    /\ pc[w] = "release" /\ held[w] \in closed /\ main # "closed"
    /\ opened' = opened + 1
    /\ owned' = [owned EXCEPT ![CHOOSE s \in Workers : owned[s] = held[w]] = opened']
    /\ available' = Append(available, opened')
    /\ Done(w, answer[w])
    /\ UNCHANGED closed

\* _new_http_client raises (a certificate bundle or a descriptor is missing): the
\* exception replaces the result, and nothing is put back.
ReplacementFails(w) ==
    /\ "replacement" \in Faults
    /\ pc[w] = "release" /\ held[w] \in closed /\ main # "closed"
    /\ Done(w, "failed")
    /\ UNCHANGED pool

Worker(w) == Take(w) \/ Lease(w) \/ Request(w) \/ GiveBack(w) \/ Replace(w)
             \/ ReplacementFails(w)

Main == Submit \/ AllSubmitted \/ NextBatch \/ Finish \/ AbandonTrial

Init ==
    /\ batch = "warmup"
    /\ main = "submit"
    /\ submitted = 0
    /\ taken = 0
    /\ pc = [w \in Workers |-> "idle"]
    /\ task = [w \in Workers |-> 0]
    /\ held = [w \in Workers |-> NoClient]
    /\ answer = [w \in Workers |-> "none"]
    /\ outcome = [b \in DOMAIN Batches |-> [i \in 1..Batches[b] |-> "none"]]
    /\ owned = [s \in Workers |-> s]
    /\ available = owned
    /\ opened = Concurrency
    /\ closed = {}
    /\ warm = {}
    /\ measured = {}
    /\ status = "none"

Next == Main \/ Interrupt \/ PassBarrier \/ \E w \in Workers : Worker(w)

Spec == Init /\ [][Next]_vars

\* Threads run, and a request ends: its deadline sees to that (DeadlineWatchdog).
FairSpec ==
    /\ Spec
    /\ WF_vars(Main)
    /\ WF_vars(PassBarrier)
    /\ \A w \in Workers : WF_vars(Worker(w))

-----------------------------------------------------------------------------
TypeOK ==
    /\ batch \in DOMAIN Batches
    /\ main \in {"submit", "collect", "raising", "closed"}
    /\ submitted \in 0..Count /\ taken \in 0..submitted
    /\ pc \in [Workers -> {"idle", "lease", "barrier", "request", "release"}]
    /\ task \in [Workers -> Nat]
    /\ held \in [Workers -> 0..opened]
    /\ answer \in [Workers -> {"none", "ok", "failed"}]
    /\ \A b \in DOMAIN Batches : outcome[b] \in [1..Batches[b] -> {"none", "ok", "failed"}]
    /\ owned \in [Workers -> 1..opened]
    /\ available \in Seq(1..opened)
    /\ closed \subseteq 1..opened
    /\ warm \subseteq 1..opened /\ measured \subseteq 1..opened
    /\ status \in {"none", "ok", "failed"}

Leased == {w \in Workers : held[w] # NoClient}
Kept == ToSet(available) \cup {held[w] : w \in Leased}

\* A client the pool owns that is neither idle nor leased, because its worker could
\* not open the fresh one: its slot is never leased again.
Lost == ToSet(owned) \ Kept

\* Every client the pool owns is either leased to one worker or waiting to be
\* leased, once: no client serves two workers, and none that is open is lost.
EachClientOnce ==
    /\ Len(available) + Cardinality(Leased) = Cardinality(Kept)
    /\ Kept \subseteq ToSet(owned)
    /\ Lost \subseteq closed

\* A run is "ok" only if every connection it measured had been warmed.
OkRunWasWarm == status = "ok" => measured \subseteq warm

\* Ctrl-C in the middle of submitting the first wave: the workers wait at the
\* barrier for requests that will not come.
Marooned == main = "raising" /\ submitted \in 1..(Concurrency - 1)

\* The trial comes to an end: no request, lease or barrier is waited for for ever,
\* unless a slot was lost with the client that could not be replaced.
TrialEnds == <>(main = "closed" \/ Marooned \/ Lost \cap closed # {})

\* transport.py says that it converts worker bugs into stored errors, and that the
\* first wave waits until every slot has leased its client: a worker that fails to
\* replace its client should cost a failed request, and the trial should end.
WorkerFailuresAreStored == <>(main = "closed" \/ Marooned)
=============================================================================
