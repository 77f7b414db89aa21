----------------------------- MODULE LlamaBench -----------------------------
(***************************************************************************)
(* `llama bench`: benchmarks/llama_bench/config.py expands a configuration *)
(* into trials, command_builder.py makes a command line of each, runner.py *)
(* runs them one after the other and process.py waits for each process,    *)
(* drawing a progress bar between two waits when it has a terminal.        *)
(*                                                                         *)
(* Parameters are a function from names to values.  What the tool prints   *)
(* is a sequence of results: prompt and generation size (one of them 0)    *)
(* and speed.  The server sub-command and its assets are left out.         *)
(***************************************************************************)
EXTENDS RunsTable, Functions

CONSTANTS
    PrivateKeys,   \* parameters whose name begins with "_"
    MissingHeads,  \* MTP heads that have no source and no file
    Speeds         \* what a bench can measure

VARIABLES
    sweep,      \* the sweep: its step, the trial it is at, the messages of
                \* the failed trials and the first row it made
    benches     \* the bench processes that run: row and sweep

NoSweep == [step |-> "none", next |-> 0, failures |-> <<>>, first |-> 0]

-----------------------------------------------------------------------------
(* config.py and command_builder.py                                          *)

\* dict.update: of two values of a key the new one counts.
Updated(params, new) ==
    [key \in DOMAIN params \cup DOMAIN new |->
        IF key \in DOMAIN new THEN new[key] ELSE params[key]]

\* itertools.product of the swept values: the last key turns fastest.
Combinations(swept) ==
    LET upto[n \in 0..Len(swept)] ==
            IF n = 0 THEN <<[key \in {} |-> ""]>>
            ELSE FlattenSeq([i \in DOMAIN upto[n - 1] |->
                     [j \in DOMAIN swept[n].values |->
                         Updated(upto[n - 1][i], [key \in {swept[n].key} |-> swept[n].values[j]])]])
    IN  upto[Len(swept)]

\* Mutant: what is omitted is taken out before the command's own parameters.
TrialParams_OmitFirst(config, model, combination) ==
    LET all == Updated(Updated(config.defaults, model.params), combination)
    IN  Updated([key \in DOMAIN all \ config.omit |-> all[key]], config.params)

\* Later updates win, and what is omitted is taken out at the end.
TrialParams(config, model, combination) ==
    LET all == Updated(Updated(Updated(config.defaults, model.params), combination), config.params)
    IN  [key \in DOMAIN all \ config.omit |-> all[key]]

Each(seq, trials(_)) == FlattenSeq([i \in DOMAIN seq |-> trials(seq[i])])

\* expand_trials
AllTrials(config) ==
    Each(config.models, LAMBDA model :
      Each(Combinations(config.swept), LAMBDA combination :
        Each(config.prompts, LAMBDA p :
          [i \in DOMAIN config.gens |->
              [model |-> model, params |-> TrialParams(config, model, combination),
               prompt_tokens |-> p, gen_tokens |-> config.gens[i]]])))

\* The trials of a sweep, of which `limit` takes a prefix.
ExpandTrials(config, limit) ==
    SubSeq(AllTrials(config), 1, IF limit < Len(AllTrials(config)) THEN limit
                                 ELSE Len(AllTrials(config)))

\* flag_for_key, and the flag of mtp_head
FlagAliases == [gpu_layers |-> "n_gpu_layers", mtp_head |-> "model_draft"]
Flag(key) == IF key \in DOMAIN FlagAliases THEN FlagAliases[key] ELSE key

\* params_args: what is private, null or false is left out.
ParamsArgs(params) ==
    {<<Flag(key), params[key]>> :
        key \in {k \in DOMAIN params : k \notin PrivateKeys /\ params[k] \notin {"null", "false"}}}

\* build_bench_command, which raises for a head it cannot resolve
CannotBuild(trial) ==
    "mtp_head" \in DOMAIN trial.params /\ trial.params["mtp_head"] \in MissingHeads

BenchCommand(config, trial) ==
    {<<trial.model.source, trial.model.name>>, <<"-p", trial.prompt_tokens>>,
     <<"-n", trial.gen_tokens>>, <<"-r", config.repetitions>>} \cup ParamsArgs(trial.params)

TrialRow(config, trial) ==
    NewRow("llama_bench", config.name, <<config.name, trial.model.name>>,
           BenchCommand(config, trial),
           [model |-> trial.model.name, params |-> trial.params,
            prompt_tokens |-> trial.prompt_tokens, gen_tokens |-> trial.gen_tokens])

-----------------------------------------------------------------------------
(* parser.py: a result's numbers are named by its sizes.                     *)

Prefix(result) == IF result.n_prompt > 0 THEN <<"pp", result.n_prompt>> ELSE <<"tg", result.n_gen>>

Leaf(result) == [n_prompt |-> result.n_prompt, n_gen |-> result.n_gen,
                 tokens_per_second |-> result.avg_ts]

\* Of two results of the same sizes the later one counts.
LlamaBenchMetrics(printed) ==
    LET of(i) == {Prefix(printed[i]) \o <<leaf>> : leaf \in DOMAIN Leaf(printed[i])}
        latest(name) == Max({i \in DOMAIN printed : name \in of(i)})
    IN  [name \in UNION {of(i) : i \in DOMAIN printed} |-> Leaf(printed[latest(name)])[name[3]]]

-----------------------------------------------------------------------------
(* runner.py and process.py                                                  *)

Trials == ExpandTrials(command.config, command.limit)
SweepId == Len(todo)
ThisBench == [run |-> Current, sweep |-> SweepId]

StartSweep ==
    /\ command.name = "bench" /\ sweep.step = "none"
    /\ sweep' = [step |-> "next", next |-> 1, failures |-> <<>>, first |-> Current + 1]
    /\ UNCHANGED <<table, given, benches>>

\* The trial is over: the loop takes the next one.
Continued == [sweep EXCEPT !.step = "next", !.next = @ + 1]

\* An exception leaves the trial: _run_bench_trials collects it or lets it out.
Raised ==
    IF command.keep_going THEN [Continued EXCEPT !.failures = Append(@, sweep.next)]
    ELSE [sweep EXCEPT !.step = "raised"]

\* The command line is made before the session is opened, which records the row.
BeginTrial ==
    /\ sweep.step = "next" /\ sweep.next <= Len(Trials)
    /\ LET trial == Trials[sweep.next]
       IN  IF CannotBuild(trial) THEN sweep' = Raised /\ UNCHANGED table
           ELSE /\ Begin(TrialRow(command.config, trial))
                /\ sweep' = [sweep EXCEPT !.step = "starting"]
    /\ UNCHANGED <<given, benches>>

StartBench ==
    /\ sweep.step = "starting"
    /\ benches' = benches \cup {ThisBench}
    /\ sweep' = [sweep EXCEPT !.step = "waiting"]
    /\ UNCHANGED <<table, given>>

\* The executable is missing: Popen raises and the session records it.
CannotStart ==
    /\ sweep.step = "starting"
    /\ runs' = Ended("failed", NoMetrics)
    /\ sweep' = Raised
    /\ UNCHANGED <<files, given, benches>>

\* communicate() has timed out; without a progress bar nothing has a timeout.
Draw ==
    /\ sweep.step = "waiting" /\ command.progress
    /\ sweep' = [sweep EXCEPT !.step = "drawing"]
    /\ UNCHANGED <<table, given, benches>>

Drawn ==
    /\ sweep.step = "drawing"
    /\ sweep' = [sweep EXCEPT !.step = "waiting"]
    /\ UNCHANGED <<table, given, benches>>

\* What can be parsed of what the tool prints of a trial: nothing, or a result for
\* each of its two tests.
Printed(trial, speed) ==
    <<[n_prompt |-> trial.prompt_tokens, n_gen |-> 0, avg_ts |-> 2 * speed],
      [n_prompt |-> 0, n_gen |-> trial.gen_tokens, avg_ts |-> speed]>>

Outputs(trial) == {<<>>} \cup {Printed(trial, speed) : speed \in Speeds}

\* Mutant: a trial that fails is not added to the failures.
BenchEnds_FailureForgotten ==
    /\ sweep.step = "waiting"
    /\ benches' = benches \ {ThisBench}
    /\ \E ok \in BOOLEAN, printed \in Outputs(Trials[sweep.next]) :
           /\ files' = [files EXCEPT ![Current].printed = printed]
           /\ runs' = Ended(IF ok THEN "ok" ELSE "failed", LlamaBenchMetrics(printed))
           /\ sweep' = IF ok \/ command.keep_going THEN Continued ELSE Raised
    /\ UNCHANGED given

\* The process ends: its output is saved and parsed, the run recorded, and a
\* failed trial raises after that.  Only the exit code says whether it failed: one
\* that fails may have printed results, and one that does not may have none that
\* can be parsed.
BenchEnds ==
    /\ sweep.step = "waiting"
    /\ benches' = benches \ {ThisBench}
    /\ \E ok \in BOOLEAN, printed \in Outputs(Trials[sweep.next]) :
           /\ files' = [files EXCEPT ![Current].printed = printed]
           /\ runs' = Ended(IF ok THEN "ok" ELSE "failed", LlamaBenchMetrics(printed))
           /\ sweep' = IF ok THEN Continued ELSE Raised
    /\ UNCHANGED given

\* Mutant: keep_going catches KeyboardInterrupt.
Interrupted_KeptGoing == Raised

\* KeyboardInterrupt leaves the trial: its session records it as failed and the
\* loop does not catch it.
Interrupted == [sweep EXCEPT !.step = "interrupted"]

\* Ctrl-C while communicate() waits.  With a progress bar the process is asked to
\* terminate; without one subprocess.run kills it.
InterruptWait ==
    /\ sweep.step = "waiting"
    /\ IF command.progress
       THEN /\ sweep' = [sweep EXCEPT !.step = "terminating"]
            /\ UNCHANGED <<runs, benches>>
       ELSE /\ runs' = Ended("failed", NoMetrics)
            /\ benches' = benches \ {ThisBench}
            /\ sweep' = Interrupted
    /\ UNCHANGED <<files, given>>

\* It terminates within 5 s or is killed.
Terminated ==
    /\ sweep.step = "terminating"
    /\ runs' = Ended("failed", NoMetrics)
    /\ benches' = benches \ {ThisBench}
    /\ sweep' = Interrupted
    /\ UNCHANGED <<files, given>>

\* Ctrl-C where no handler ends the process: while the bar is drawn, which the
\* TimeoutExpired handler does, or again while it terminates.
InterruptHandler ==
    /\ sweep.step \in {"drawing", "terminating"}
    /\ runs' = Ended("failed", NoMetrics)
    /\ sweep' = Interrupted
    /\ UNCHANGED <<files, given, benches>>

\* Ctrl-C before a trial, after the last one, or before the process is there.  At
\* the return of the session's enter nothing records it (RunSession).
InterruptTrial ==
    /\ \/ sweep.step \in {"next", "starting"} /\ UNCHANGED runs
       \/ sweep.step = "starting" /\ runs' = Ended("failed", NoMetrics)
    /\ sweep' = Interrupted
    /\ UNCHANGED <<files, given, benches>>

\* run_bench: the failures of a sweep that went on make it fail at its end.
EndSweep ==
    /\ sweep.step = "next" /\ sweep.next > Len(Trials)
    /\ sweep' = [sweep EXCEPT !.step = IF sweep.failures = <<>> THEN "ok" ELSE "raised"]
    /\ UNCHANGED <<table, given, benches>>

LeaveSweep ==
    /\ sweep.step \in {"ok", "raised", "interrupted"}
    /\ sweep' = NoSweep /\ Over
    /\ UNCHANGED <<table, todo, benches>>

\* A process that was left behind ends by itself.
OrphanEnds ==
    /\ \E b \in benches : (command.name # "bench" \/ b # ThisBench) /\ benches' = benches \ {b}
    /\ UNCHANGED <<table, given, sweep>>

Bench ==
    \/ StartSweep \/ BeginTrial \/ StartBench \/ CannotStart \/ Draw \/ Drawn \/ BenchEnds
    \/ InterruptTrial \/ InterruptWait \/ Terminated \/ InterruptHandler \/ EndSweep
    \/ LeaveSweep \/ OrphanEnds

-----------------------------------------------------------------------------
\* What the swept keys can be assigned
Assignments(swept) ==
    LET keys == {item.key : item \in Range(swept)}
        values(key) == Range((CHOOSE item \in Range(swept) : item.key = key).values)
    IN  {f \in [keys -> UNION {values(key) : key \in keys}] :
            \A key \in keys : f[key] \in values(key)}

\* The value the narrowest scope gives each parameter
Scoped(config, model, f) ==
    LET scopes == <<config.params, f, model.params, config.defaults>>
    IN  [key \in (UNION {DOMAIN scopes[i] : i \in 1..4}) \ config.omit |->
            LET i == CHOOSE i \in 1..4 : /\ key \in DOMAIN scopes[i]
                                         /\ \A j \in 1..i-1 : key \notin DOMAIN scopes[j]
            IN  scopes[i][key]]

\* The trials a configuration means: one for every model, assignment of the swept
\* keys and pair of sizes.
Meant(config) ==
    {[model |-> model, params |-> Scoped(config, model, f), prompt_tokens |-> p, gen_tokens |-> g] :
        model \in Range(config.models), f \in Assignments(config.swept),
        p \in Range(config.prompts), g \in Range(config.gens)}

\* What makes every trial another one: no size and no swept value twice, and no
\* swept key that the command's own parameters or what is omitted make idle.
RepeatsNothing(config) ==
    /\ IsInjective(config.prompts) /\ IsInjective(config.gens)
    /\ \A item \in Range(config.swept) :
           IsInjective(item.values) /\ item.key \notin DOMAIN config.params \cup config.omit

\* The trials of a sweep are among those that its configuration means, all of them
\* if the limit cuts nothing off, and each once if nothing repeats.
TrialsAreMeant(config, limit) ==
    /\ Range(ExpandTrials(config, limit)) \subseteq Meant(config)
    /\ limit >= Len(AllTrials(config)) => Range(ExpandTrials(config, limit)) = Meant(config)
    /\ RepeatsNothing(config) => IsInjective(ExpandTrials(config, limit))

\* The rows of the sweep, and the trials it came to for which there is a command line.
Made == SubSeq(runs, sweep.first, Current)
CameTo == SubSeq(Trials, 1, IF sweep.next <= Len(Trials) THEN sweep.next ELSE Len(Trials))
Built(trials) == Chosen(trials, {i \in DOMAIN trials : ~CannotBuild(trials[i])})

RowsAreOfTrials ==
    /\ Len(Made) <= Len(Built(CameTo))
    /\ Len(Made) >= Len(Built(CameTo)) - (IF sweep.next > Len(Trials) THEN 0 ELSE 1)
    /\ \A i \in DOMAIN Made :
           /\ Made[i].config.params = Built(CameTo)[i].params
           /\ Made[i].config.model = Built(CameTo)[i].model.name
           /\ Made[i].status = "running" => sweep.step = "interrupted" /\ i = Len(Made)
           /\ i < Len(Made) /\ ~command.keep_going => Made[i].status = "ok"
    /\ LET perfect == Len(Made) = Len(Trials) /\ \A i \in DOMAIN Made : Made[i].status = "ok"
       IN  (sweep.step = "ok" => perfect) /\ (sweep.step = "raised" => ~perfect)

\* When a sweep is over, the table accounts for it: its trials are those the
\* configuration means; each trial it came to has one row, in order, unless its
\* command line could not be made; no row is left running, except the last one of an
\* interrupted sweep; it succeeds only if it ran every trial and every trial did, and
\* unless it is interrupted it fails only if not.
SweepIsAccounted ==
    sweep.step \in {"ok", "raised", "interrupted"} =>
        TrialsAreMeant(command.config, command.limit) /\ RowsAreOfTrials

\* A bench process runs only while its own trial does, or after an interrupt ended
\* its sweep: none is measured beside another of its sweep, and none outlives a
\* trial that is recorded as measured.
NoBenchLeftBehind ==
    /\ \A b, c \in benches : b.sweep = c.sweep => b = c
    /\ \A b \in benches : runs[b.run].status # "ok"
    /\ sweep.step \in {"next", "starting", "ok"} => \A b \in benches : b.sweep # SweepId
=============================================================================
