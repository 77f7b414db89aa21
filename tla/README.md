# TLA+ models of LLM Refinery

LLM Refinery measures language models that somebody else serves: it loads them
over HTTP, runs lm-eval, llama-bench, DABStep and GeoAnalystBench against them, and
keeps every run in one DuckDB file. This directory holds TLA+ modules that model the
parts of the program where order, failure and concurrency decide whether a result can
be trusted, TLC configurations that check them on small instances, and proofs, checked
by TLAPS, that the most important properties hold for every instance.

Paths of code are relative to `src/llm_refinery/`.

## 1. Inventory

| Component | State it keeps | Operations | What is hard |
|---|---|---|---|
| Run session (`application/run_session.py`) | the run it is of, its artifacts and claims, its outcome | enter, artifact, set_target_json, complete, exit, resume | exceptions and Ctrl-C inside nested with-blocks; resuming from a row that may be stale |
| Result store (`storage/duckdb.py`, `core/runs.py`) | tables `runs`, `metrics`, `artifacts`, `samples`; one connection | record_run (one transaction), record_sample, update_run_metrics, backfill, queries | a statement that fails or is interrupted inside the transaction; a crash between any two |
| Migrations (`storage/migrations.py`) | schema marker, columns, the rows they rewrite | initialize_schema | statement-by-statement changes outside a transaction, applied again after a crash |
| HTTP client pool (`benchmarks/http_load/transport.py`) | a client per slot, the queue of idle ones | lease, give back, replace, close | deadlines that close a leased client; a replacement that fails; the first-wave barrier |
| HTTP request (same file) | one response, its chunks, the callbacks armed for it | resolve, redirect, send, read, accept | every error path between arming and cancelling; a stream that is cut and looks ended |
| Deadline watchdog (same file) | a heap of deadlines, callbacks pending and running, one condition | schedule, cancel, the daemon thread | two kinds of waiters on one condition; a callback racing the end of its request |
| HTTP load runner (`benchmarks/http_load/runner.py`) | a trial's warmup and measured results | the two batches, the outcome | a connection that is measured cold; Ctrl-C during a batch |
| HTTP load metrics (`metrics.py`, `parser.py`, `core/metrics.py`) | none | percentiles, rates, reparse | empty samples, failed samples, a reparse that knows less than the run did |
| HTTP routes (`core/http_safety.py`, `core/endpoints.py`) | routes that were pinned | resolve, classify addresses, decide on a proxy, validate a redirect | a name server that changes its answer; a resolver that cannot be cancelled |
| Chat client (`providers/openai_chat.py`) | none | one completion under a timer | a timer that closes the client |
| DABStep runner (`benchmarks/dabstep/runner.py`) | answers.jsonl, measurement.json, samples, upstream directories | the retry loop, merge, checkpoint, resume | three stores written one after the other; a crash anywhere |
| lm-eval runner (`benchmarks/lm_eval/runner.py`) | a process group; a relay with handler threads, clients and timers | run with a deadline, terminate the group, forward a request, shut down | a leader that exits before its descendants; a shutdown racing handlers and timers |
| llama-bench runner (`benchmarks/llama_bench/`) | one trial and its process | sweep, build a command, run, keep going | failures of single trials; Ctrl-C between two waits |
| Agent benchmark (`benchmarks/agent/`) | response file, error, sample, measurement, row | ask, store, score, reparse | five stores written one after the other |
| Target discovery (`application/target_discovery.py`) | routes it has pinned | inspect, resolve, snapshot_host | several checks of host and service that decide together; what is put up with and what is fatal |
| Endpoint discovery (`providers/openai_discovery.py`) | one client, a timer per request | discover, metrics | a timer's callback that outlives its request |
| SSH adapter and probe (`adapters/ssh.py`, `probes/`) | a bounded child process | collect_host_profile | deadline, output bound, helpers of the leader |
| Host identity (`utils/system.py`, `application/run_context.py`, the probe) | none | fingerprints, aliases, what a pin is verified by | identifiers that are missing, placeholders or shared; fingerprints of older releases |
| Suite workflow (`workflows/suite.py`) | its own session, the evidence, the children | preflight, quality, load, evidence, outcome | a child that raises, records nothing or is interrupted; evidence after any failure |
| Comparison (`compare.py`, `commands/reporting.py`) | none | latest rows per configuration, reparse, backfill | which of two rows is the later one of the same configuration and host |
| Configuration and command line (`cli.py`, `commands/`, `*/config.py`, `core/targets.py`, `quality_compare.py`) | none | parse, validate | strictness; no state |

How they interact. A command opens one `ResultStore`, which takes DuckDB's lock on
the file, so there is one process at a time, and migrates it. Every benchmark runs
inside the with-block of a `RunSession`, which records the run as running, then as ok
or failed. A suite is itself such a session and starts the lm-eval and HTTP children
inside its own block, after it has looked at the host (through SSH or locally) and asked
the service. The HTTP runner owns a client pool and worker threads for one trial; all
requests of the process share one watchdog thread. The lm-eval runner starts a relay,
which the processes it starts send their requests through. DABStep is a subprocess
that writes into a directory the runner merges from. Comparisons, reparses and
backfills read what any earlier command has left, finished or not.

What makes each component correct:

- a run's row, metrics and artifacts belong together at every instant; every session
  that ends records one outcome; an outcome that was returned is the one committed;
  resuming never changes what run a row is and forgets no artifact;
- no request runs beyond its deadline, and no deadline touches a client that was given
  to somebody else; every client is leased once; only warm connections are measured;
  what is counted as complete is complete and went to the target; a trial ends;
- an answer on disk is never lost or promised too early, an ok run has every answer, and
  every invocation ends;
- a suite is ok only if all of its steps were, on the target it asked for; its counts
  are those of the rows under it; its evidence is complete however it ended; a probe
  ends and leaves nothing behind;
- when lm-eval is timed out nothing of it goes on sending requests; closing the relay
  reaches every client and ends;
- an interrupted migration, sweep or evaluation leaves what the next command can go on
  from, and a comparison shows the latest row of each machine and configuration.

## 2. Modules

| Module | Models | Variables and actions |
|---|---|---|
| `RunLifecycle` | what the store promises about a status (abstract) | `status`; Start, Finish, Reopen, Demote |
| `RunSession` | `RunSession` over `ResultStore.record_run` | committed and visible tables, open transaction, artifact files, the stack of sessions, the call in progress, the exception propagating; one action per session operation and one per SQL statement |
| `RunSessionProofs` | theorems about `RunSession` | |
| `DeadlineWatchdog` | `_DeadlineWatchdog` | the heap, the pending and running callbacks, the watchdog's and the callers' positions; one action per block under the condition |
| `DeadlineWatchdogProofs` | theorems about `DeadlineWatchdog` | |
| `RequestBatch` | `HttpClientPool`, `run_requests`, a trial of `_run_one_http_load` | the batch, the futures, the workers, the pool; one action per step of the main thread and of a worker |
| `RequestBatchProofs` | theorems about `RequestBatch` | |
| `HttpRoutes` | `core/http_safety.py` | operators: addresses, proxies, a pinned route, a redirect |
| `SequenceParts` | the comprehension with a condition, which several modules use | operator: what is chosen of a sequence |
| `LoadMetrics` | `metrics.py`, `core/metrics.py`, the http_load parser | operators over integers: the summary of results |
| `HttpRequest` | one client slot: `pooled_http_client`, `_execute_with_client`, the stream readers, the record and a reparse | the route, the hop, the chunks read, the callbacks armed, the results |
| `HttpRequestProofs` | theorems about `HttpRequest` and `LoadMetrics` | |
| `Dabstep` | `run_dabstep` | the durable files and rows, and the local variables of an invocation; one action per step between two durable effects |
| `DabstepProofs` | theorems about `Dabstep` | |
| `ProcessGroup` | `_run_lm_eval_process`, `_terminate_process_group` | the processes, their group and pipes, where the caller is |
| `LmEvalRelay` | `_lm_eval_target`, `_RelayState`, `RelayHandler` (composed with `ProcessGroup`) | the relay's phase, its clients, each handler with its client and timer |
| `LmEvalRelayProofs` | theorems about `ProcessGroup` and `LmEvalRelay` | |
| `HostIdentity` | fingerprints of `utils/system.py`, `probes/linux_dgx_probe.py` and `core/targets.py`, the host a run is recorded on | operators over the facts a machine gives about itself |
| `HostProbe` | `adapters/ssh.py`, `_run_bounded_process` (uses the processes of `ProcessGroup`) | time left, output read, where the parent is |
| `ServiceDiscovery` | `OpenAIDiscoveryClient.discover`, `_get_bounded_response` | the request, its timer, the clients, what was found; one action per step of the caller and of a timer's thread |
| `TargetDiscovery` | `TargetResolver.inspect` | operators: from what was captured and found to what is concluded |
| `Suite` | `BenchmarkSuiteWorkflow.execute` (composes the four before) | where it is, the exception, the evidence, the children's rows, its own outcome |
| `SuiteProofs` | theorems about `Suite`, `HostProbe` and `ServiceDiscovery` | |
| `RunsTable` | the table `runs` as the commands see it, and the command that is given | `runs`, `files`, `todo`, `command` |
| `Migrations` | `storage/migrations.py` | the schema and the statement that comes next |
| `LlamaBench` | the sweep, its trials and the bench process | the trial, its row, the processes that live |
| `AgentEval` | `run_agent_eval` | the task, the five stores |
| `Comparison` | `compare.py`, `commands/reporting.py`, the backfill | the rows shown, the reparse in progress |
| `Commands` | the last five on one database, killed anywhere | `kills` |
| `CommandsProofs` | theorems about `Migrations`, `LlamaBench`, `AgentEval` and `Comparison`, for any script of commands | |
| `MC*` | instances for TLC | |

Composition. `Suite` EXTENDS `HostProbe`, `ServiceDiscovery` and `TargetDiscovery`: it
waits for the probe, then for the requests, and `Inspect` decides its path by what the
two left; its children are single steps of what `RunSession`, `RequestBatch` and
`LmEvalRelay` take apart. `LmEvalRelay` EXTENDS `ProcessGroup`, whose processes send its
requests. `Commands` composes `Migrations`, `LlamaBench`, `AgentEval` and `Comparison`
over `RunsTable`. `HttpRequest` is one slot of `RequestBatch` taken apart, over
`HttpRoutes` and `LoadMetrics`; both rest on `DeadlineWatchdog` for the claim that an
armed callback fires when it is due and never after it was cancelled, and `Dabstep` on
`RunSession` for its status. `RunSession` implements `RunLifecycle` under the mapping of
a run's status to "absent" when it has no row, and so does `Dabstep` with the one run it
is of. `SequenceParts` and `LoadMetrics` write selections, sums and sorting as recursive
functions, because the proofs speak of them.

Conventions. A constant `Faults` says which disturbances the environment has: crashes
("crash"), Ctrl-C ("interrupt"), failing statements ("store"), unwritable files
("disk") and so on. A variable called "history" in its module exists for the
properties only. Operators whose name ends in `_Something` and whose comment begins
with "Mutant" are plausible bugs: `PROJECT.json` pairs each property with one, and
substituting it makes TLC refute the property. A `TypeOK` states the types; where it
is the first conjunct of a proof's invariant the proofs establish it, and no run lists
it.

### How state and actions correspond to the code

*RunSession.* `disk` is what a second process would read, `view` what the connection
reads; they differ only while `intxn`. The field `arts` of a row is history: the
artifacts of the record that wrote it, so that the artifacts table can be held against
the call. `record_run` is `Begin`, `WriteRun`,
`WriteMetrics`, `WriteArtifacts`, `Commit`, `Return`; a statement can fail
(`StatementFails`, which rolls back as `except Exception` does) and Ctrl-C can arrive
between any two of them (`InterruptCall`, which does not). `sess` is the stack of open
with-blocks, `exc` what propagates through them, `HandleError` the places that catch
an Exception. A run specification is one value, because resuming compares all of it.
Two details are worth knowing: Ctrl-C between the COMMIT and `self._completed = ...`
makes the exit record a second, failed outcome (`Demote` in `RunLifecycle`); and
`BEGIN TRANSACTION` stands before the try-block, so it raises, and nothing is rolled
back, when an interrupted call left a transaction open.

*DeadlineWatchdog.* Each `with self._condition` block is one step, ended by `wait`.
`notify` wakes one waiter of either kind, as `threading.Condition` does. The clock is
a variable; a timed wait may also end late.

*RequestBatch.* A client is a number; the pool keeps the client of each slot (`owned`)
and a stack of idle ones (`available`), as `LifoQueue` does. Requests are taken in
order; the first `Concurrency` of a batch wait at the barrier. A deadline may close a
client while its request runs; giving a closed client back replaces it, which may fail.
The pool is closed by the main thread's exit stack whatever the batch did.

*HttpRequest.* One slot makes its warmup request and then its measured ones. `armed`
holds the header and body callbacks of every request so far, so that one which is
forgotten can be seen to fire later. A response is a sequence of chunks of a few kinds
(visible text, the expected fragment, reasoning, blank, an error inside the stream,
garbage); `ended` is the server's own end, `cut` the watchdog's. The last look at the
deadline (`EndOfBody`) and the reading of the latency (`TakeResult`) are two steps, as
an output's time is read after the look before it, so the clock may pass the deadline in
between and a result may be ok with a latency beyond it. An error object inside a stream
fails the request in Ollama's protocol only; the OpenAI reader ignores it, and so does
the model. A resolver's answer is
one of `Answers`, another one each time it is asked. The metrics are computed from the
stored results and again by a reparse.

*Dabstep.* An answer is its task. The output directory of an attempt is found by the
number of measured attempts, as `_run_token` does; a directory in `torn` has a last
line that was cut. `subprocess.run` kills only the process it started and a killed
command kills none, so an upstream process may outlive its call (`orphan`) and answer
into the directory of its attempt, even while the next one runs there.

*LmEvalRelay.* `Popen`, `Communicated`, `Terminate`, `Kill` and `Drain` are the steps
of the process call, `Fork`, `Redirect`, `Escape` and `ProcessExits` what processes do.
A handler reads a request, opens a client, registers it or is refused, streams,
replies, joins its timer and cleans up. `begin_shutdown` takes the clients under the
condition and closes them one by one outside it.

*HostProbe.* The selector loop reads until nobody holds the output pipes (`ReadAll`),
then waits for ssh (`Completed`); the deadline, the output limit or Ctrl-C ends it by
`GiveUp`, whose SIGTERM some processes survive, `KillRest` and `Reap`. A process that
holds the output pipes is taken to hold the input as well. The fallback for a
`killpg` that is refused is left out: the processes are the caller's own. The second
probe, after the run, is one step of `Suite`, since how it ends changes nothing.

*ServiceDiscovery.* Four requests go one after the other over `client`. `waiting` and
`firing` are the timers as pairs of a request and the client its callback closes; the
callback sets its event and later closes the client, which the caller may meet at any
point: before it sends, the first time or after a redirect (httpx then raises a
RuntimeError, which is not converted, ends `discover` and is caught by `inspect`; such a
request is cut off as well), while it reads, between cancel and join. What the server
says is one of `Servers`, and each request may also fail in any of the ways the module's
head lists. Ctrl-C during the requests is the suite's; the finally-blocks then cancel
and join the timer, and its client is used by nobody else.

*TargetDiscovery.* `Inspect` follows `inspect()` in order. `RightHost` and
`RightService` are written from what a specification asks for and from the machine and
the server there really were, without following the code: they are what
`RunsOnlyOnVerifiedTarget` compares with. A machine's name is known to the model only;
the code sees its facts. That identifiers are unique, and that a sighting has just the
fields of `Facts`, is the named assumption `TargetDiscoveryAssumption`, and digests are
not assumed to collide: a fingerprint is what it is made of.

*Suite.* Each step of the try-block and of the finally-block is an action; the
exception in `exc` leads from the former to the latter. `claimed` are the artifact
roles. The session's own records and the children are single steps. `seen_host` is set
when a profile is captured, `host` when `inspect()` returns with it. The merge of the
children is that of `_merge_linked_children`: the outcomes the steps returned, and over
them what `comparison_runs` finds linked to the suite, among the rows of an earlier
suite (`Earlier`), of this one and of its children.

*Commands.* Each command opens the database, which applies the migrations, and then
takes its steps: a statement, a file or a process each. `Kill` ends a command at any of
them. Rows are records of the columns a comparison, a reparse or a migration looks at. A
sweep's bench prints nothing that can be parsed, or its results, and its exit code alone
says whether the trial is ok. An evaluation opens its session, claims its three
artifacts one by one, each of which makes an empty file, and then asks. A reparse takes
an empty measurement and a torn line for errors; without a measurement it takes the
run's duration, which like every duration is left out, so it gives metrics to a run that
was interrupted before it claimed one. `TargetIdentityJson` has the route of a target,
and its schema version. An evaluation with a target is `run_agent_eval` called with a
`run_context`, as its callers in Python may; the command line passes none. Comparisons
have the host identities of `HostIdentity`, made from the facts of their machines.

## 3. Runs

| Run | Instance | What it shows |
|---|---|---|
| `session` | two scopes in one: two runs with sessions two deep; one run resumed with two specifications, two hosts and unknown, a target and two roles; crashes, Ctrl-C, failing statements, lost files | the committed tables always agree; a running row is open or was cut off; a returned outcome stays; resuming keeps artifacts whose file exists, the specification and a known host; `RunSession` implements `RunLifecycle` |
| `session_interrupt` | two runs, Ctrl-C only | a counterexample: see findings |
| `dabstep` | two tasks, one retry, three measured launches, crashes, exceptions, torn files and processes left behind | the checkpoints never promise too much nor lose an answer; an ok run is complete; an invocation ends |
| `dabstep_torn` | the same, torn files only | a counterexample: see findings |
| `watchdog` | two threads, three deadlines, timeouts 1 and 2, time to 4 | ownership of callbacks, no late or stolen wake-up, effects only when due, every due request interrupted, every cancel returns |
| `request_batch` | two workers, three measured requests, warmup raised to two, deadlines, Ctrl-C and failing replacements | clients are leased once, only warm connections count, the trial ends |
| `request_lost` | the same without Ctrl-C, two requests | a counterexample: see findings |
| `http_request` | five trials (named, loopback and pinned targets, two protocols, with and without proxies), seven answers of the resolver, three requests, two chunks that carry something, one redirect | an ok result was read to its end in time and holds what it must; a request stays on the target; no callback cuts another request; the metrics describe the results, at once and reparsed; a request ends |
| `lm_eval_relay` | leader and one descendant, two connections, Ctrl-C, escapes and a failing start | the shutdown reaches every client, a timed-out group sends no more requests, requests and the target's context end |
| `lm_eval_orphan` | the same without faults, one connection | a counterexample: see findings |
| `suite` | a fixed endpoint or any of 44 kinds of target, eight sightings of three machines, five pins, six servers, three plans, ssh with a helper, an earlier suite with a failed child in the store, all faults | outcome, counts, evidence and target of a suite; a deadline of the discovery cuts only its own request, which never reads as a refusal; the probe ends |
| `commands` | nine scripts of one to four commands on a database of before version 2, three hosts, two directories, one target at two addresses, a sweep that repeats a trial, two kills | migrations converge; a sweep accounts for every trial and leaves no process; what an evaluation stores agrees; a comparison shows the latest |

Bounds, and why they are enough. Two runs are a suite and its child, or a run and the
next; deeper nesting does not occur in the code, and the proofs cover any depth. One
run suffices for resuming because records touch their own run only; the state
constraint `Scope` keeps the two scopes of `session` apart. Two hosts let a
resume come from the wrong one, two specifications likewise. Two tasks let one be
answered and the other not; three launches are an invocation with a retry and one
without, in either order. Two threads and three deadlines are the least in which a
thread arms a nearer deadline than the one the watchdog sleeps towards, while the
other's callback runs; the proofs cover any number. Two workers and three requests give
a full wave and a request after it. A third request of one slot can be hit by what the
first two forgot; one redirect is a hop after which everything happens once more, and
the next one is refused. Two connections give one that is registered while the other is
closed. Two trials after a quality run let a child fail, be followed or be the last.
One helper outlives ssh or does not, and holds the pipes or does not. The machines of
`suite` are two that share name and make, one of which is seen with and without its
identifiers and reinstalled, so that every strength of identity meets a right and a
wrong machine. Two kills let a command be interrupted and its repetition too. Runs where
the system may really stop (a command is over, a bound is reached) do not check for
deadlock; that nothing stops early is what the liveness properties say.

Bounds in the guards: `MaxAttempts` (Dabstep: launches over all invocations; one
attempt of a run leaves processes behind), `MaxTokens` and `MaxTime` (DeadlineWatchdog:
deadlines and ticks), `MaxDepth` (RunSession: nesting), `Requests`, `MaxEvents` and
`Deadline` (HttpRequest: requests of the slot, chunks, ticks), `Handlers` (LmEvalRelay:
connections), `Procs` (ProcessGroup: processes), `MaxKills` (Commands). `MaxOutput` and
`CommandTimeout` (HostProbe) and `MaxRedirects` are limits of the code, made small. A
run identifier in `RunIds` is used once.

### Fairness

- `Dabstep`: the steps of an invocation are taken; the upstream process ends because
  `timeout_s` ends it. A new invocation, an answer, a crash need not happen.
- `DeadlineWatchdog`: the daemon thread runs whenever it can, a thread that has begun
  to cancel goes on, and time passes. That a request ends by itself is not assumed.
- `RequestBatch`: the main thread and each worker run, the barrier opens when it is
  full, and a request ends, which `DueIsInterrupted` and `RequestEnds` justify. Ctrl-C
  and closed clients need not happen.
- `HttpRequest`: the worker's own steps, time, the watchdog's callbacks
  (`DueIsInterrupted`) and the end of a read whose response was closed, for which httpx's
  read timeout answers. The server owes nothing: it may stay silent or trickle for ever.
- `LmEvalRelay`: the main thread runs (the deadline of `communicate`, the grace of
  `wait` and the limit of `join_handlers` pass), timers expire, and a request ends once
  its client is closed, through the error that follows, the check at the next chunk or
  httpx's own timeout. That a process exits, reads, writes or sends is not assumed.
- `Suite`: the parent's own steps around its probe, time included. Neither ssh nor a
  helper has to read, write or exit.

All fairness is weak: none of these steps is enabled and disabled for ever.

### Findings

Runs whose expected result is a violation show where the code and its own words part.

1. `session_interrupt`. `record_run` rolls back on `except Exception` only. Ctrl-C
   between two statements of the record of an outcome leaves the transaction open; the
   failed record that `__exit__` then tries raises at `BEGIN TRANSACTION`, and the
   command ends with that error while the run stays running. `docs/architecture.md` says
   that unexpected exceptions and interruptions are recorded as failed runs. The property
   speaks of commands that end in this way. Ctrl-C at the return of `__enter__`, after
   its COMMIT, leaves a running row too, because `__exit__` is never called; no code of a
   context manager can prevent that, and it is no part of the finding.
2. `dabstep_torn`. A process that is killed while it writes leaves a cut last line, and
   the merge refuses the file as a whole; the complete answers before it are in no
   checkpoint. `docs/dabstep.md` says that answers already written are checkpointed.
3. `request_lost`. When the replacement of a closed client cannot be opened, its slot
   is lost; the next batch leases one client fewer than its barrier waits for, and the
   trial never ends. The comments in `transport.py` promise stored errors.
4. `lm_eval_orphan`. The process group is ended only after a deadline or an exception.
   When the leader exits and a descendant without its output pipes lives, nothing ends
   it; the docstring says "no orphaned descendants".

Further observations are states of the models, not findings, because no document of the
repository says otherwise; the properties except them:

- Ctrl-C while the first wave is being submitted leaves the workers at the barrier for
  ever (`Marooned` in `RequestBatch`).
- A process that has left the group with the output pipe keeps the `communicate()` that
  follows the kill waiting (`TrialEnds` of `LmEvalRelay`).
- Ctrl-C while the service is asked takes the captured profile along, since
  `workflows/suite.py:112` catches only `Exception` and the profile is nowhere but in
  `inspect()`: the suite then makes no profile after the run (`EvidenceKept`).
- A deadline that closes the client before a redirect is followed ends the whole
  discovery with httpx's RuntimeError (`providers/openai_discovery.py:327`, `:370`),
  which a preflight reports as a service that cannot be reached
  (`DeadlinesAreTimeouts`).
- The latency of a result that is ok may exceed the deadline, because it is read after
  the last look at it (`benchmarks/http_load/transport.py:642`, `:671` against `:739`,
  `:783`, `:842`, `:877`); what was read in time is all of the body
  (`OkResultIsComplete`).
- A bench that exits with 0 and prints nothing that can be parsed is recorded as ok,
  without metrics (`SweepIsAccounted` asks none).
- `reparse --include-failed` counts an evaluation that was interrupted after it claimed
  its measurement as an error, and gives one that was interrupted before that metrics
  of no request (`AgentRecordsAgree`).

## 4. Proofs

Eight modules are checked by TLAPS, for all values of the constants that satisfy the
named assumptions: `RunSessionProofs`, `DeadlineWatchdogProofs`, `RequestBatchProofs`,
`HttpRequestProofs`, `DabstepProofs`, `LmEvalRelayProofs`, `SuiteProofs` and
`CommandsProofs`. They have one form: an inductive invariant that is the conjunction of
named parts, a lemma per action, a lemma for `Next`, and the theorems. TLC has checked
each invariant on the instance of the component's run. Most assumptions say only that a
bound is a number; those that say more are named below with what justifies them.

**RunSession.** Assumptions: `MaxDepthAssumption` (nesting is at least one) and
`NullsAssumption` (the values for "no row", "no call" and so on are none of what they
stand for the absence of). Proved:

- `RunSessionTypeCorrect`: `Spec => []TypeOK`;
- `CommittedTablesAgree`, `OnlyOpenOrCutRunsAreRunning`, `CompletionIsDurable`: the
  three invariants of the run `session`;
- `ImplementsLifecycle`: every behaviour, with its statuses seen through the refinement
  mapping, is a behaviour of `RunLifecycle`;
- `ArtifactsAlwaysKept`, `ProvenanceNeverChanges`: the action properties of the run, about
  what resuming may not lose or change.

`TablesAgree` says of metrics and of artifacts that they are those of the record that
wrote the row. None of the three invariants is inductive. That a commit leaves the
tables in agreement needs to know what the call has written so far: `TxnInv` says, for
each statement, how `view` differs from `disk`. That a completed outcome stays needs to
know that the calls still to come are not of that session: `CallInv` (a call is of a
session that remembers no outcome, and its status fits the operation) and `StackInv`
(open sessions are of different runs; all but the innermost are in the middle of their
blocks). That a failed or interrupted session cannot leave ok behind needs `LeavingInv`
and `StatusInv` (the committed status of every open session's run). `SessionInv` is
their conjunction with `TypeOK`, `TablesAgree`, `RunningIsOpenOrCut` and
`CompletedIsDurable`; the proof has a lemma per action. For the refinement, only
`Commit` and `UpdateRunMetrics` change `disk` from an invariant state, and `StatusInv`
says which transition a commit is.

The action properties need a second invariant, `KeepingInv`: an open session continues
the row that is committed (`Continues`: it knows every artifact whose file exists, and has
the row's specification and its host, once that is known), and so does the call that is
about to commit. Resuming establishes it: `__init__` takes the row over after
`_validate_resume_state` and `_validate_resume_provenance`. The rest of the code has only
to leave it alone, most of it by `QuietContinues`.

**DeadlineWatchdog.** Assumption: `WatchdogAssumption` (timeouts and bounds are natural
numbers). Proved: `WatchdogTypeCorrect`, `CallbacksAlwaysOwned`,
`WatchdogNeverOversleeps`, `WakeupsReachTheWatchdog` and the action property
`CallbacksFireWhenDue`. The inductive invariant `WatchdogInv` adds to the type, the
ownership and the sleeping invariant that tokens are given out in order
(`TokensGivenOut`), that a pending callback has its entry in the heap at the deadline
its thread armed (`PendingInHeap`), and that a running callback is due and only such a
callback is waited for (`RunningIsDue`). The last is why no wake-up can be stolen:
while the watchdog sleeps nothing runs, so nobody waits in cancel.

**RequestBatch.** Assumption: `BatchAssumption` (at least one worker, and at least as many
requests as workers, which the configuration demands). Proved: `BatchTypeCorrect`,
`ClientsServeOnce` (`EachClientOnce`), `OkRunsAreWarm` (`OkRunWasWarm`), and
`OutcomesStayFinal`, an action property of the proofs' own: a future is resolved once.
In `BatchInv`, `ClientsInv` says where the pool's clients are: idle and leased ones are
distinct, and any other one is closed. `TasksInv` says that each request taken is one
worker's. That an ok run was warm has the longest argument. The first wave of the warmup
leases every slot, because no worker is past the barrier until as many have taken a
request as there are clients (`WaveGathers`); when it opens they hold all of them
(`WavePassed`). From there on a cold client can only be one that replaced another, and
clients are closed and replaced only by a failure (`FreshInv`), after which the run is
not ok (`WarmInv`).

**HttpRequest.** Assumption: `RequestAssumption`. Beside the bounds, a resolver answers
with addresses, and a route that is handed to the trial is one `ResolveRoute` makes of
the trial's own URL and an answer that was not an error, as
`application/target_discovery.py:232-243` does. Proved: `OkResultsAreComplete`,
`RequestsStayPut` (`RequestsStayOnTarget`), `NothingIsCutEarly` (`NoEarlyCut`). The
lemmas about `HttpRoutes` say that a route that is not refused leads to the origin at one
acceptable address, and that a redirect that is followed stays there. In `RequestInv`,
`ArmedInv` says that the watchdog holds at most the callback of the phase the request
is in, so that none is left to cut the next request, and `CutInv` that what was closed
was closed at its deadline.

`MetricsAreOfResults` (`MetricsDescribeResults`) says of any results, and not of a few
lists of numbers, that what is stored, at once or by a reparse, describes them: the mean
and the percentiles of each distribution lie between its minimum and its maximum, the
percentiles in their order, every measured request is counted once, the first output of
a successful request comes before its deadline and before its end, and no visible output
precedes the first. (Its latency may exceed the deadline.) `MetricsInv` adds to
`RequestInv` that the times the reader has noted rise, one for each chunk with output
(`TimesInv`); that a result which was accepted has its times in order and its counts in
their bounds (`ResultsInv`); and that what is stored is the summary of the results there
are (`StoredInv`). Under it lie lemmas about the model's operators for every sequence:
sorting by insertion returns an ascending sequence of the same members, an interpolated
percentile lies between its neighbours and rises with its rank, a sum of natural numbers
is at least each of them, and a selection keeps what is chosen and nothing else. Each is
an induction, made by hand from the least length at which the claim would fail.

**Dabstep.** Assumption: `DabstepAssumption` (the bounds; there are tasks). Proved:
`DabstepTypeCorrect`, `OkRunsAreComplete` (`OkMeansComplete`), `CheckpointsAreHonest`
(`OkSampleHasAnswer`), `MeasuredOutputIsMerged` (`RecordedOutputIsMerged`) and the
action property `ProgressIsAlwaysKept` (`ProgressIsKept`). `ImplementsRunLifecycle` says
that the status of its run, through every resume, failure and crash, lives as
`RunLifecycle` promises of a run that nothing interrupts after its commit. `DabstepInv`
adds that an invocation is of a running row, with in memory what answers.jsonl has
(`InvocationInv`); that when an attempt is measured the readable output of its process
has been merged (`MergedInv`); and that the final loop has given each task before `next`
its row (`FinalSampleInv`), from which an ok run is complete.

**LmEvalRelay.** Assumption: `ProcessGroupAssumption` (the leader is a process). Proved:
`RelayTypeCorrect`, `ShutdownClosesEveryClient` (`EveryClientIsClosed`),
`TimedOutGroupIsEmpty`, `NoRequestsFollowTimeout` (`NoRequestsAfterTimeout`). `GroupInv`
says that the group is empty from SIGKILL on, since nobody is left to fork into it.
`HandlersInv` says at each step of a handler what it has registered, opened and armed;
with it `ShutdownInv` is inductive: `begin_shutdown` took every client there was, and a
handler that comes later is refused.

**Suite.** Assumptions: `SuiteAssumption` and `ServiceDiscoveryAssumption` (what a plan
and a server are), `HostProbeAssumption` (limits are numbers), and
`TargetDiscoveryAssumption`, which only the theorem about targets needs: identifiers are
unique to a machine, as the fingerprints suppose. Proved: `SuiteTypeCorrect`,
`OkSuitesRanEverything` (`OkSuiteMeansAllRan`), `CountsAlwaysMatchRows`
(`CountsMatchRows`), `EvidenceIsKept` (`EvidenceKept`), `BenchmarksRunOnTheirTarget`
(`RunsOnlyOnVerifiedTarget`), `DeadlinesCutAsTimeouts` (`DeadlinesAreTimeouts`), and
`GivenUpProbeIsGone`, what `ProbeEnds` says apart from that the probe ends. The counts
match because every outcome that was returned has its row (`Len(returned) <=
Len(rows)`), because the rows of the children are all linked to the suite, and because
nobody else's row is, which `SuiteAssumption` says of the rows there were. The probe and
the discovery have invariants of their own, kept by their steps, and each step of the
suite is one of theirs, starts them anew or leaves them alone. `ProbeInv` says that
nobody of the group is left after SIGKILL. `DiscoveryInv` says that the timers which
wait or fire are those of the current request and that a client is closed only after its
timer fired, so that the next request never meets an earlier one's deadline
(`TimersInv`, `ClientInv`; the theorem states it of the pending timers), and that what
was found is what the server has (`FoundInv`). `SuiteInv` says place by place how many
children there are, what is claimed and from where on the target is verified. The last
rests on lemmas about `HostIdentity`: a pin that is recognised was made of an
identifier, and who shares that is the same machine.

**Commands.** Assumptions: `LegacyAssumption` (rows of before version 2 have the columns
such a database has, and no specification), `CommandsAssumption` (scripts are
sequences), `ConfigsAssumption` (what loading a configuration sees to: its lists are
lists, those of prompt variants and response types are not empty, the names of models
are unique, which `config.py` checks, and so are the swept keys, which are those of a
mapping), and `ComparisonAssumption`, which only comparisons need: what identifies a
host, or its name where nothing does, belongs to no other machine, as in `Suite`;
measured speeds are numbers; and two old rows with one name are of one suite, because
their hash holds the name but not the suite, and the names of those versions begin with
it (`legacy-suite/local/short` in `tests/test_storage_migrations.py`). Proved, for any
old database, any scripts of commands and any number of kills:
`OpenDatabasesAreMigrated` (`MigrationConverges`), `BenchesEndWithTheirTrial`
(`NoBenchLeftBehind`), `EvaluationRecordsAgree` (`AgentRecordsAgree`),
`SweepRowsAreOfTrials`, `TrialsAreThoseMeant`, `SweepsAreAccounted` (`SweepIsAccounted`)
and `ComparisonsShowLatest` (`ComparisonShowsLatest`).

`MigrationConverges` speaks of an open database only, so the invariant says what an
opening that was cut off leaves: until version 2 is marked, each row is as found or
migrated as a whole (`LegacyInv`), and migrating a row twice is migrating it once
(`FetchedRow` and the lemmas before it); the artifacts of the old paths are one per
role (`ArtifactsInv`); and of the rows an opening fetched, those before the next are done
(`RowsInv`), also when another opening had done some of them already. For the benches,
`BenchesInv` says that a process left by a kill belongs to an earlier command and to a
row that is not ok, and `ExecutingInv` that nothing else runs while the database is being
opened.

`AgentRecordsAgree` holds wherever an evaluation is cut off, so `RecordsInv` says at
each of its steps which of its stores have the last result already (`Progress`, in
`CurrentInv`), and of every evaluation whether or not it still runs what its stores have
in common (`Accounted`, in `EvalsInv`): among it that nothing was asked before the
measurement was claimed, from which a reparse that finds none makes metrics of no
request. The other commands must not disturb that: each works on rows of its own, a
reparse on rows whose kind it has looked at (`ReparsesRows`) and whose metrics it makes
from the very responses, and every row has its directory (`FilesInv`).

`SweepInv` follows a sweep: between two trials the rows after the first `before` ones
are those of the trials it came to and could build, in order, all of them over, and
there is a failure exactly if one was not built or is not ok (`BetweenTrials`); the same
but for the last row while a trial is under way (`InTrial`); and what is left of that
when the sweep is over (`AfterTrials`). `SweepRowsAreOfTrials` is what follows for any
configuration.

`TrialsAreThoseMeant` is about `ExpandTrials` alone. The product of the swept values is,
for each prefix of the swept keys, the list of what those keys can be assigned
(`CombinationsAreAssigned`, by the least prefix that is an exception); the four nested
lists have the elements of their parts, each once if the parts have no element in common
and repeat none (`FlattenedParts`, `NestedOnce`); what remains after the updates and the
omissions is the value of the narrowest scope (`ParamsAreScoped`), and tells the
assignment unless the command's own parameters or `omit_params` hide a swept key
(`ParamsTellAssignment`). So the trials are always among those that are meant (`Meant`,
which says it without loops or updates), all of them if the limit cuts nothing off, and
each once where `RepeatsNothing`. Without that the code does repeat trials: nothing
rejects a configuration that sweeps a value twice, lists a size twice or sweeps a key it
also omits. `SweepsAreAccounted` assumes nothing of the kind: it holds of every
configuration that can be loaded, and a script of the run repeats a size.

`ComparisonShowsLatest` has three parts. What the table says: `ColumnsInv` says of each
row, in whatever order it was recorded, migrated, parsed again or given a profile, that
its profile is a host's, that its speeds, if it has any, are numbers, and that the rest
of its columns is what a command makes or what the old row had; an open database adds
that old rows are migrated, and then a row is known (`IsKnown`). What a signature says:
two known rows with one hash are of one trial, whichever of the two kinds of hash they
have (`SpecTellsTrial`), and with one identity of host and target on one machine, if
what there is of it identifies one (`AllIdentified`), and of one service at one route
(`HostTellsMachine`, `TargetTellsMachine`); conversely rows that must merge have one
signature (`SignatureTells`, `MergedSignature`). Rows of a target at two addresses must
not merge, as `tests/test_compare.py:270` asks. What the list says: a selection keeps
the order of the identifiers, so that the first row of a signature is the latest
(`LatestFirst`); and the place of a row in the sorted list is the number of rows that
come before it, which for a strict order puts each row in one place (`Ranking`).
`ShownInv` carries the list from the step that prints it to the end of the command.

**Only model-checked.** Liveness under fairness (`InvocationEnds`, `DueIsInterrupted`,
`CancelReturns`, `TrialEnds` of both kinds, `RequestsEnd`, `RequestEnds`, `ProbeEnds`),
which is out of the prover's reach, as ENABLED is. Every safety property and action
property of a passing run is stated by a theorem. Of operators that take an operator
(`SelectSeq`, `SortSeq`, folds) the provers know nothing, not even what they make of an
empty sequence; where a proof needed a selection, a sum or a sort, it is a recursive
function or a choice in the model.

## 5. What is not modelled

- The text of errors, logs, prompts, answers, names and durations; floating-point
  arithmetic (the metrics are computed over integers).
- Parsing and validation of configurations, target files, manifests and result files,
  the command line, `quality_compare.py` and the listing queries: pure functions of their
  input. What a configuration may be is the assumption on the constants of the module
  that uses it.
- The inside of a chat completion (`providers/openai_chat.py`): one request on a client
  of its own, closed by its timer and by nobody else; an evaluation sees an answer or an
  error.
- The parsing of what a server answers to discovery, and its depth and size limits: a
  choice of outcomes in `ServiceDiscovery`.
- The inventory a host probe reads besides what identifies the machine.
- Downloads of `llama_bench/assets.py`: a file under a fresh name that replaces the
  final one at once.
- Exceptions that `discover` does not foresee (`inspect` lets them through without an
  inspection, like a host probe that raises one).
- llama-bench processes have no deadline, so nothing says that a sweep ends.
- A second process on the database: DuckDB's lock excludes it while the first has it.

## 6. Plan

Modelled, in the order of importance, with what is proved about each:

1. `RunLifecycle`, `RunSession`: the abstract specification and the detailed one; runs
   `session*`; type, safety, action properties and refinement proved.
2. `DeadlineWatchdog`: run `watchdog`; safety proved.
3. `RequestBatch`, `HttpRoutes`, `LoadMetrics`, `HttpRequest`: runs `request_*`,
   `http_request`; safety and metrics proved.
4. `Dabstep`: runs `dabstep*`; safety, action property and refinement proved.
5. `HostIdentity`, `HostProbe`, `ServiceDiscovery`, `TargetDiscovery`, `Suite`: run
   `suite`; safety proved.
6. `ProcessGroup`, `LmEvalRelay`: runs `lm_eval_*`; safety proved.
7. `RunsTable`, `Migrations`, `LlamaBench`, `AgentEval`, `Comparison`, `Commands`: run
   `commands`; migrations, processes, evaluations, sweeps and comparisons proved.

What remains: no safety property of a passing run is without a theorem, and liveness
stays with the runs.
