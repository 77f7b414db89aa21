----------------------------- MODULE MCCommands -----------------------------
(***************************************************************************)
(* A database of before version 2 with two rows, on which one to four      *)
(* commands are given, on three hosts and from two directories.            *)
(***************************************************************************)
EXTENDS Commands, TLC

Facts(machine, name, ids, uuids) ==
    [system |-> "Linux", machine_ids |-> ids, uuids |-> uuids, hostname |-> name,
     hardware |-> "spark", machine |-> machine]

\* A machine, the same after a new installation, and two of the same make without
\* an identifier.
FactsA == Facts("A", "a", <<"i1">>, <<"u1">>)
FactsA2 == Facts("A", "a", <<"placeholder", "i2">>, <<"u1">>)
HostA == CurrentHostIdentity(FactsA)
HostB == CurrentHostIdentity(Facts("B", "b", <<>>, <<>>))
HostC == CurrentHostIdentity(Facts("C", "c", <<None>>, <<None>>))

\* A target that is pinned by its hardware, as run_agent_eval is given one in a
\* run_context; `agent eval` on the command line passes none.
Target(facts, address) ==
    [schema_version |-> 1, name |-> "target", profile |-> MachineFingerprint(facts),
     destination |-> "lab", service |-> "ollama",
     route |-> [logical_origin |-> "http://lab:11434", selected_address |-> address,
                authority |-> "lab:11434"],
     model |-> "m", topology |-> "remote_client_to_server",
     binding |-> HostIdentityBinding(HardwareIdentity(FactsA), "ssh", MachineFingerprint(facts))]

-----------------------------------------------------------------------------
OldConfig == [provider |-> None, protocol |-> None, benchmark |-> None, scenario |-> None,
              model |-> "old", prompt_tokens |-> 4, gen_tokens |-> 2]

\* Before fingerprints a profile had only what they are made of.
OldProfile == [NoProfile EXCEPT !.hostname = "a", !.machine = "A"]

OldRow(id, config, system, stdout, stderr) ==
    [id |-> id, kind |-> None, spec |-> NoSpec, suite |-> "suite",
     name |-> [label |-> "old", suffixes |-> <<>>], work |-> {<<"old", ToString(id)>>},
     config |-> config, system |-> system, target |-> NoTarget, status |-> "ok",
     metrics |-> NoMetrics, listed |-> FALSE, cwd |-> "home", stdout |-> stdout, stderr |-> stderr]

LegacyRows ==
    <<OldRow(1, OldConfig, NoProfile, [absolute |-> FALSE, name |-> "out1"], [absolute |-> FALSE, name |-> "err1"]),
      OldRow(2, [OldConfig EXCEPT !.provider = "ollama", !.scenario = "chat"], OldProfile,
             [absolute |-> TRUE, name |-> "out2"], NoPath)>>

FoundSchema == {"runs", "metrics", "paths"}
FilePlaces == {<<"database", "out1">>, <<"work", "err1">>}
FileContent == [place \in FilePlaces |-> <<[n_prompt |-> 0, n_gen |-> 2, avg_ts |-> 1]>>]

-----------------------------------------------------------------------------
Bench1 ==
    [name |-> "suite", models |-> <<[name |-> "m1", source |-> "-hf", params |-> ("threads" :> "2" @@ "_note" :> "x")],
                                    [name |-> "m2", source |-> "-m", params |-> [mtp_head |-> "gone"]]>>,
     defaults |-> [threads |-> "1", flash_attn |-> "false", mlock |-> "true"],
     swept |-> <<[key |-> "gpu_layers", values |-> <<"0", "99">>]>>,
     params |-> [mlock |-> "true"], omit |-> {"mlock"},
     prompts |-> <<4>>, gens |-> <<2>>, repetitions |-> 3]

BenchOn(host, keep_going, progress, limit) ==
    [name |-> "bench", cwd |-> "work", host |-> host, target |-> NoTarget, config |-> Bench1,
     keep_going |-> keep_going, progress |-> progress, limit |-> limit]
Repeating(bench) == [bench EXCEPT !.config.prompts = <<4, 4>>]

Task(id) == [id |-> id, open |-> id # 2, length |-> 2, imports |-> {"geopandas"},
             calls |-> {"read_file", "plot"}]
Eval1 ==
    [name |-> "suite", tasks |-> <<Task(1), Task(2), Task(3)>>, open_source_only |-> TRUE,
     task_ids |-> {}, limit |-> 1, prompt_variants |-> <<"domain">>,
     response_types |-> <<"workflow", "code">>, retries |-> 1, max_tokens |-> 8,
     targets |-> <<[name |-> "e", model |-> "m"]>>]

EvalOn(host, target, config, keep_going) ==
    [name |-> "agent", cwd |-> "home", host |-> host, target |-> target, config |-> config,
     keep_going |-> keep_going]

CompareWith(include_failed, all_runs, limit) ==
    [name |-> "compare", cwd |-> "home", host |-> HostA, include_failed |-> include_failed,
     all_runs |-> all_runs, suites |-> {"suite"}, ascending |-> FALSE, limit |-> limit]
Reparse(force) == [name |-> "reparse", cwd |-> "home", host |-> HostA, include_failed |-> TRUE,
                   force |-> force]
BackfillOn(host, overwrite) == [name |-> "backfill", cwd |-> "work", host |-> host,
                                overwrite |-> overwrite]

\* A table of what is given: a sweep that goes on and one that does not and that
\* makes one trial twice, the same trial on two hosts, an evaluation of one pinned
\* target discovered twice, and of one at two addresses.
GivenScripts ==
    {<<BenchOn(HostA, TRUE, TRUE, 4), Reparse(FALSE)>>,
     <<Repeating(BenchOn(HostA, FALSE, FALSE, 2)), Reparse(TRUE), CompareWith(TRUE, TRUE, 9)>>,
     <<BenchOn(HostB, FALSE, FALSE, 1), BenchOn(HostC, FALSE, TRUE, 1), CompareWith(FALSE, FALSE, 9)>>,
     <<BenchOn(HostA, FALSE, FALSE, 2), BenchOn(HostA, TRUE, FALSE, 2), BackfillOn(HostB, FALSE),
       CompareWith(FALSE, FALSE, 2)>>,
     <<EvalOn(HostA, NoTarget, Eval1, TRUE), Reparse(FALSE), CompareWith(TRUE, FALSE, 9)>>,
     <<EvalOn(HostA, Target(FactsA, "one"), [Eval1 EXCEPT !.response_types = <<"code">>], FALSE),
       EvalOn(HostA, Target(FactsA2, "one"), [Eval1 EXCEPT !.response_types = <<"code">>], FALSE),
       CompareWith(FALSE, FALSE, 9)>>,
     <<EvalOn(HostA, Target(FactsA, "one"), [Eval1 EXCEPT !.response_types = <<"workflow">>], FALSE),
       EvalOn(HostA, Target(FactsA, "two"), [Eval1 EXCEPT !.response_types = <<"workflow">>], FALSE),
       CompareWith(FALSE, FALSE, 9)>>,
     <<EvalOn(HostC, NoTarget, [Eval1 EXCEPT !.response_types = <<"workflow">>,
                                             !.targets = Append(@, [name |-> "f", model |-> "m"])], TRUE),
       BackfillOn(HostA, TRUE), CompareWith(FALSE, FALSE, 1)>>,
     <<EvalOn(HostA, NoTarget, [Eval1 EXCEPT !.task_ids = {2}], FALSE)>>}

Reply == [status |-> 200, json |-> TRUE, late |-> FALSE, lines |-> <<"number", "prose", "bullet">>,
          tokens |-> 3, code |-> [syntax |-> TRUE, model |-> TRUE, imports |-> {"geopandas"},
                                  calls |-> {"plot"}]]
GivenReplies ==
    {Reply, [Reply EXCEPT !.lines = <<>>], [Reply EXCEPT !.status = 500],
     [Reply EXCEPT !.lines = <<"bullet">>, !.code.syntax = FALSE]}
=============================================================================
