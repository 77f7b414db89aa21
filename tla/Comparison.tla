----------------------------- MODULE Comparison -----------------------------
(***************************************************************************)
(* The commands that read the table (commands/reporting.py and compare.py) *)
(* or repair it: `compare` shows the latest run of every trial on every    *)
(* host, `reparse` makes the metrics anew from the artifacts, and          *)
(* `backfill-system-metadata` gives a profile to the rows without one.     *)
(* Columns, formats and filters by size are left out, and so are the       *)
(* parsers of the benchmarks that have modules of their own.               *)
(***************************************************************************)
EXTENDS Migrations, LlamaBench, AgentEval

CONSTANTS Content      \* what the file at each of the places Files printed

VARIABLES
    shown,     \* the table `compare` has printed: whether it has, and the rows
    reparse    \* the candidates `reparse` has not come to, and how it fared

reporting == <<shown, reparse>>
NothingShown == [done |-> FALSE, rows |-> <<>>]
NoReparse == [step |-> "none", left |-> {}, errors |-> 0]

-----------------------------------------------------------------------------
(* storage/duckdb.comparison_runs and compare.py                             *)

\* The latest rows first, and only those that are ok unless failed ones are wanted.
ComparisonRuns(include_failed) ==
    LET latest == Reverse(runs)
    IN  Chosen(latest, {i \in DOMAIN latest : include_failed \/ latest[i].status = "ok"})

FilterCompareRuns(rows, suites) ==
    Chosen(rows, {i \in DOMAIN rows : suites = {} \/ rows[i].suite \in suites})

Signature(row) ==
    <<row.spec, SystemHostIdentity(row.system), TargetIdentity(row.target, row.system),
      TopologyIdentity(row.target)>>

\* Mutant: the last row of a configuration is kept, which is the oldest.
DedupeLatestConfigs_Oldest(rows) ==
    Chosen(rows, {i \in DOMAIN rows :
                     \A j \in (i + 1)..Len(rows) : Signature(rows[j]) # Signature(rows[i])})

\* _dedupe_latest_configs: the first row of each signature.
DedupeLatestConfigs(rows) ==
    Chosen(rows, {i \in DOMAIN rows : \A j \in 1..(i - 1) : Signature(rows[j]) # Signature(rows[i])})

IsSpeed(name) == name[1] = "tg" /\ name[3] = "tokens_per_second"

\* generation_tokens_per_second: the test of the row's size, or another one.
Generation(row) ==
    LET direct == <<"tg", row.config.gen_tokens, "tokens_per_second">>
        other == {name \in DOMAIN row.metrics : IsSpeed(name)}
    IN  IF direct \in other THEN {row.metrics[direct]}
        ELSE IF other = {} THEN {} ELSE {row.metrics[CHOOSE name \in other : TRUE]}

\* _sort_key: a row without the metric is last.
Before(a, b, ascending) ==
    \/ Generation(a) # {} /\ Generation(b) = {}
    \/ \E x \in Generation(a), y \in Generation(b) : IF ascending THEN x < y ELSE x > y

\* list.sort is stable: a row comes after those that are better, and after those
\* before it in the list that are not worse.
Sorted(rows, ascending) ==
    LET earlier(i) == {j \in DOMAIN rows :
                          \/ Before(rows[j], rows[i], ascending)
                          \/ j < i /\ ~Before(rows[i], rows[j], ascending)}
    IN  [k \in DOMAIN rows |-> rows[CHOOSE i \in DOMAIN rows : Cardinality(earlier(i)) = k - 1]]

\* build_compare_rows
BuildCompareRows(rows, options) ==
    LET kept == IF options.all_runs THEN rows ELSE DedupeLatestConfigs(rows)
        sorted == Sorted(kept, options.ascending)
    IN  SubSeq(sorted, 1, IF options.limit < Len(sorted) THEN options.limit ELSE Len(sorted))

Compare ==
    /\ command.name = "compare" /\ ~shown.done
    /\ LET rows == FilterCompareRuns(ComparisonRuns(command.include_failed), command.suites)
       IN  shown' = [done |-> TRUE, rows |-> BuildCompareRows(rows, command)]
    /\ UNCHANGED <<table, given, reparse>>

LeaveCompare ==
    /\ shown.done
    /\ shown' = NothingShown /\ Over
    /\ UNCHANGED <<table, todo, reparse>>

-----------------------------------------------------------------------------
(* reparse                                                                   *)

\* The artifact that a legacy row's parser reads.
LegacyOutput(row) == {a \in artifacts : a.run = row.id /\ a.role = StdoutRole(row.kind)}
IsLegacy(row) == row.id \in DOMAIN Legacy
Candidate(row) == row.listed \/ (IsLegacy(row) /\ \E a \in artifacts : a.run = row.id)

NotReparsed(how) == [how |-> how, metrics |-> NoMetrics]

\* reparse_llama_bench_run of a row from before version 2
ReparsedLegacy(row) ==
    IF \A a \in LegacyOutput(row) : a.place \notin Files THEN NotReparsed("missing")
    ELSE IF row.kind # "llama_bench" THEN NotReparsed("error")
    ELSE [how |-> "parsed",
          metrics |-> LlamaBenchMetrics(Content[(CHOOSE a \in LegacyOutput(row) : TRUE).place])]

\* Mutant: a measurement that is empty counts as none.
ReparsedEval_EmptyIsNone(file) ==
    IF ~HasResponses(file) THEN NotReparsed("missing")
    ELSE IF file.torn THEN NotReparsed("error")
    ELSE [how |-> "parsed", metrics |-> Counted(file.responses)]

\* reparse_agent_eval_run: a line that is torn and a measurement that is still empty
\* are no JSON; without a measurement the run's duration, left out here, stands for it.
ReparsedEval(file) ==
    IF ~HasResponses(file) THEN NotReparsed("missing")
    ELSE IF file.torn \/ (HasMeasurement(file) /\ ~file.measured) THEN NotReparsed("error")
    ELSE [how |-> "parsed", metrics |-> Counted(file.responses)]

\* reparse_run: the parser of the row's kind, on the row's files.
ReparseRun(row) ==
    IF IsLegacy(row) THEN ReparsedLegacy(row)
    ELSE IF row.kind = "llama_bench"
    THEN [how |-> "parsed", metrics |-> LlamaBenchMetrics(files[row.id].printed)]
    ELSE ReparsedEval(files[row.id])

StartReparse ==
    /\ command.name = "reparse" /\ reparse.step = "none"
    /\ reparse' = [NoReparse EXCEPT
                      !.step = "rows",
                      !.left = {row \in Range(runs) : /\ command.include_failed \/ row.status = "ok"
                                                      /\ Candidate(row)}]
    /\ UNCHANGED <<table, given, shown>>

\* The latest row first.  Metrics are replaced in one transaction, and kept where
\* nothing was parsed unless the command insists.
ReparseRow ==
    /\ reparse.step = "rows"
    /\ \E row \in reparse.left :
           LET result == ReparseRun(row)
               replace == result.how = "parsed" /\ (result.metrics # NoMetrics \/ command.force)
           IN  /\ \A other \in reparse.left : other.id <= row.id
               /\ runs' = IF replace THEN [runs EXCEPT ![row.id].metrics = result.metrics] ELSE runs
               /\ reparse' = [reparse EXCEPT
                                 !.left = @ \ {row},
                                 !.errors = @ + (IF result.how = "error" THEN 1 ELSE 0)]
    /\ UNCHANGED <<files, given, shown>>

LeaveReparse ==
    /\ reparse.step = "rows" /\ reparse.left = {}
    /\ reparse' = NoReparse /\ Over
    /\ UNCHANGED <<table, todo, shown>>

-----------------------------------------------------------------------------
\* backfill_system_json: one UPDATE, of the rows without a profile or of all.
Backfill ==
    /\ command.name = "backfill"
    /\ runs' = [i \in DOMAIN runs |->
                   IF command.overwrite \/ runs[i].system = NoProfile
                   THEN [runs[i] EXCEPT !.system = command.host] ELSE runs[i]]
    /\ Over
    /\ UNCHANGED <<files, todo, reporting>>

Report ==
    \/ Compare \/ LeaveCompare \/ StartReparse \/ ReparseRow \/ LeaveReparse \/ Backfill

-----------------------------------------------------------------------------
\* What a row measured, apart from when and where.
Trial(row) ==
    <<row.spec.scheme, row.kind, row.suite, row.name.label, row.work,
      IF "execution_target" \in DOMAIN row.config
      THEN [row.config EXCEPT !.execution_target = NoTarget] ELSE row.config>>

\* The machine a row was executed on and the one it measured, and whether the
\* profiles of the two tell them from others.
Identified(profile) == profile.fingerprint # NoFingerprint \/ profile.hostname # None
Machines(row) ==
    <<row.system.machine, IF row.target = NoTarget THEN row.system.machine
                          ELSE row.target.profile.machine>>
AllIdentified(row) ==
    Identified(row.system) /\ (row.target # NoTarget => Identified(row.target.profile))

\* What served a row's target, and by which route.
Served(row) ==
    IF row.target = NoTarget THEN <<>>
    ELSE <<row.target.service, row.target.route, row.target.model, row.target.topology>>

\* Two rows the comparison must take for the same: of one trial on the same machines,
\* executed under one profile, of a target that is local or pinned by one binding.
MustMerge(a, b) ==
    /\ Trial(a) = Trial(b) /\ a.system = b.system /\ Machines(a) = Machines(b)
    /\ \/ a.target = b.target
       \/ /\ NoTarget \notin {a.target, b.target}
          /\ Bound(a.target) /\ Bound(b.target)
          /\ a.target.binding.expected = b.target.binding.expected
          /\ [a.target EXCEPT !.profile = b.target.profile, !.binding = b.target.binding] = b.target

\* A comparison shows, best first, the latest eligible run of every trial on every
\* machine it can tell from the others: no run of another machine, or of a service at
\* another address, takes its place, and no older one of the same is shown beside it.
ComparisonShowsLatest ==
    shown.done =>
        LET rows == Range(shown.rows)
            eligible == {r \in Range(runs) : /\ command.include_failed \/ r.status = "ok"
                                             /\ command.suites = {} \/ r.suite \in command.suites}
        IN  /\ rows \subseteq eligible /\ Len(shown.rows) = Cardinality(rows)
            /\ Len(shown.rows) < command.limit =>
                   \A r \in eligible :
                       \/ r \in rows
                       \/ /\ ~command.all_runs
                          /\ \E s \in rows :
                                 /\ s.id > r.id /\ Trial(s) = Trial(r) /\ Served(s) = Served(r)
                                 /\ AllIdentified(r) => Machines(s) = Machines(r)
            /\ ~command.all_runs =>
                   \A s \in rows, r \in eligible : MustMerge(s, r) => s.id >= r.id
            /\ \A i, j \in DOMAIN shown.rows :
                   i < j => ~Before(shown.rows[j], shown.rows[i], command.ascending)
=============================================================================
