------------------------------ MODULE AgentEval ------------------------------
(***************************************************************************)
(* `agent eval`: benchmarks/agent/runner.py asks a chat endpoint every     *)
(* request of a GeoAnalystBench selection, scores each answer, appends it  *)
(* to the responses of the run, records a sample of it, and summarizes     *)
(* what it has; parser.py makes the same metrics of the responses later.   *)
(*                                                                         *)
(* A text is its lines, by how they begin ("number", "bullet" or "prose"), *)
(* and the code in it: whether it parses and defines model(), what it      *)
(* imports and what it calls.  Latencies and response sizes are left out;  *)
(* an average is kept as its sum and its count.                            *)
(***************************************************************************)
EXTENDS RunsTable, HostIdentity, Functions

CONSTANTS Replies      \* what the endpoint can answer

VARIABLES
    eval,       \* the evaluation: its step, target, request, attempt, the
                \* results of the target and the targets that failed
    samples     \* the samples table: run, number and result

NoEval == [step |-> "none", target |-> 0, request |-> 0, attempt |-> 0, results |-> <<>>,
           failures |-> <<>>]

-----------------------------------------------------------------------------
(* geoanalystbench_data.py and geoanalystbench_prompts.py                    *)

IsUnknown(config) ==
    config.task_ids \notin
        SUBSET {t.id : t \in {t \in Range(config.tasks) : t.open \/ ~config.open_source_only}}

\* select_geoanalyst_tasks: the limit applies last.
Selected(config) ==
    LET open(t) == t.open \/ ~config.open_source_only
        wanted(t) == config.task_ids = {} \/ t.id \in config.task_ids
        tasks == Chosen(config.tasks, {i \in DOMAIN config.tasks : /\ open(config.tasks[i])
                                                                  /\ wanted(config.tasks[i])})
    IN  SubSeq(tasks, 1, IF config.limit < Len(tasks) THEN config.limit ELSE Len(tasks))

\* It raises for a task it does not find and for an empty selection.
CannotSelect(config) == IsUnknown(config) \/ Selected(config) = <<>>

\* expand_geoanalyst_requests
ExpandRequests(config) ==
    FlattenSeq([t \in DOMAIN Selected(config) |->
        FlattenSeq([v \in DOMAIN config.prompt_variants |->
            [r \in DOMAIN config.response_types |->
                [task |-> Selected(config)[t], prompt_variant |-> config.prompt_variants[v],
                 response_type |-> config.response_types[r]]]])])

-----------------------------------------------------------------------------
(* providers/openai_chat.py: a reply is a status, a body and whether the     *)
(* time is up before its last chunk; a body that is no JSON has no text.     *)

\* complete and post_json_body raise: the body of an error is not even read.
Raises(reply) == reply.status >= 300 \/ reply.late \/ ~reply.json

NoScore == [steps |-> 0, error |-> 0, syntax |-> FALSE, model |-> FALSE,
            imports |-> <<0, 0>>, calls |-> <<0, 0>>]

Failure(request, why) ==
    [request |-> request, ok |-> FALSE, tokens |-> 0, score |-> NoScore, error |-> why]

\* _complete_once: an answer that is blank is a failure, and is not retried.
Answer(request, reply) ==
    IF reply.lines = <<>> THEN [Failure(request, "empty") EXCEPT !.tokens = reply.tokens]
    ELSE [request |-> request, ok |-> TRUE, tokens |-> reply.tokens, score |-> NoScore,
          error |-> "none"]

-----------------------------------------------------------------------------
(* geoanalystbench_scoring.py                                                *)

CountOf(lines, how) == Len(SelectSeq(lines, LAMBDA line : line = how))

\* extract_workflow_step_count: bullets count only when no line has a number.
WorkflowSteps(lines) ==
    IF CountOf(lines, "number") > 0 THEN CountOf(lines, "number") ELSE CountOf(lines, "bullet")

Distance(a, b) == IF a < b THEN b - a ELSE a - b

\* _set_recall: how many of how many, nothing of nothing when there is no reference.
\* Code that does not parse has no imports and no calls.
Recall(generated, reference) == <<Cardinality(generated \cap reference), Cardinality(reference)>>
Names(code, what) == IF code.syntax THEN code[what] ELSE {}

\* score_geoanalyst_result
Scored(result, reply) ==
    LET task == result.request.task
        steps == WorkflowSteps(reply.lines)
        code == reply.code
    IN  IF ~result.ok THEN result
        ELSE IF result.request.response_type = "workflow"
        THEN [result EXCEPT !.score.steps = steps, !.score.error = Distance(steps, task.length)]
        ELSE [result EXCEPT !.score =
                 [@ EXCEPT !.syntax = code.syntax, !.model = code.syntax /\ code.model,
                           !.imports = Recall(Names(code, "imports"), task.imports),
                           !.calls = Recall(Names(code, "calls"), task.calls)]]

\* The sum of one number of each result.
Sum_(results, number(_)) == FoldLeft(LAMBDA sum, result : sum + number(result), 0, results)
Times(condition) == IF condition THEN 1 ELSE 0

\* The recalls that are known, in 6ths.
Recalls(results, recall(_)) ==
    LET known == SelectSeq(results, LAMBDA r : recall(r)[2] > 0)
    IN  <<Len(known), Sum_(known, LAMBDA r : (6 * recall(r)[1]) \div recall(r)[2])>>

\* What both ends count of the results that are ok.
Counted(results) ==
    LET ok == SelectSeq(results, LAMBDA r : r.ok)
        workflows == SelectSeq(ok, LAMBDA r : r.request.response_type = "workflow")
        codes == SelectSeq(ok, LAMBDA r : r.request.response_type = "code")
        imports == Recalls(codes, LAMBDA r : r.score.imports)
        calls == Recalls(codes, LAMBDA r : r.score.calls)
        counts ==
            [request_count |-> Len(results),
             response_count |-> Len(ok),
             error_count |-> Cardinality({i \in DOMAIN results : ~results[i].ok}),
             completion_tokens_total |-> Sum_(ok, LAMBDA r : r.tokens),
             workflow_count |-> Len(workflows),
             workflow_step_count |-> Sum_(workflows, LAMBDA r : r.score.steps),
             workflow_step_abs_error |-> Sum_(workflows, LAMBDA r : r.score.error),
             code_count |-> Len(codes),
             code_syntax_valid_count |-> Sum_(codes, LAMBDA r : Times(r.score.syntax)),
             code_contract_pass_count |-> Sum_(codes, LAMBDA r : Times(r.score.model)),
             code_reference_import_recall_comparison_count |-> imports[1],
             code_reference_import_recall |-> imports[2],
             code_reference_call_recall_comparison_count |-> calls[1],
             code_reference_call_recall |-> calls[2]]
    IN  [name \in {<<field>> : field \in DOMAIN counts} |-> counts[name[1]]]

-----------------------------------------------------------------------------
(* runner.py                                                                 *)

Requests == ExpandRequests(command.config)
Endpoints == command.config.targets
Request == Requests[eval.request]

EvalRow(config, endpoint) ==
    NewRow("agent_eval", config.name, <<config.name, endpoint.name>>,
           {<<"agent-eval", endpoint.name>>},
           [endpoint |-> endpoint, requests |-> Requests, model |-> endpoint.model,
            execution_target |-> IF command.target = NoTarget THEN NoTarget
                                 ELSE TargetIdentityJson(command.target),
            prompt_tokens |-> 0, gen_tokens |-> config.max_tokens])

StartEval ==
    /\ command.name = "agent" /\ eval.step = "none"
    /\ eval' = [NoEval EXCEPT !.step = "target", !.target = 1]
    /\ UNCHANGED <<table, given, samples>>

\* Its session opens, which records the row.
BeginTarget ==
    /\ eval.step = "target" /\ eval.target <= Len(Endpoints)
    /\ Begin(EvalRow(command.config, Endpoints[eval.target]))
    /\ eval' = [eval EXCEPT !.step = "claim", !.request = 1, !.attempt = 0, !.results = <<>>]
    /\ UNCHANGED <<given, samples>>

\* The artifacts of an evaluation are claimed one by one: the responses, the errors
\* and the measurement.  A claim makes an empty file.
HasResponses(file) == file.claimed >= 1
HasMeasurement(file) == file.claimed >= 3

ClaimArtifact ==
    /\ eval.step = "claim"
    /\ files' = [files EXCEPT ![Current].claimed = @ + 1]
    /\ eval' = [eval EXCEPT !.step = IF files[Current].claimed = 2 THEN "ask" ELSE "claim"]
    /\ UNCHANGED <<runs, given, samples>>

Got(result) == [eval EXCEPT !.step = "response", !.results = Append(@, result), !.attempt = 0]

\* Mutant: a blank answer is an answer.
Ask_Blank ==
    /\ eval.step = "ask"
    /\ \E reply \in Replies :
           eval' = IF ~Raises(reply)
                   THEN Got(Scored([Answer(Request, reply) EXCEPT !.ok = TRUE], reply))
                   ELSE IF eval.attempt < command.config.retries
                   THEN [eval EXCEPT !.attempt = @ + 1]
                   ELSE Got(Failure(Request, "raised"))
    /\ UNCHANGED <<table, given, samples>>

\* complete: an attempt that raises is made again while there are retries.
Ask ==
    /\ eval.step = "ask"
    /\ \E reply \in Replies :
           eval' = IF ~Raises(reply) THEN Got(Scored(Answer(Request, reply), reply))
                   ELSE IF eval.attempt < command.config.retries
                   THEN [eval EXCEPT !.attempt = @ + 1]
                   ELSE Got(Failure(Request, "raised"))
    /\ UNCHANGED <<table, given, samples>>

AppendResponse ==
    /\ eval.step = "response"
    /\ files' = [files EXCEPT ![Current].responses = Append(@, Last(eval.results))]
    /\ eval' = [eval EXCEPT !.step = IF Last(eval.results).error # "none" THEN "error" ELSE "sample"]
    /\ UNCHANGED <<runs, given, samples>>

AppendError ==
    /\ eval.step = "error"
    /\ files' = [files EXCEPT ![Current].errors = Append(@, Last(eval.results).error)]
    /\ eval' = [eval EXCEPT !.step = "sample"]
    /\ UNCHANGED <<runs, given, samples>>

RecordSample ==
    /\ eval.step = "sample"
    /\ samples' = samples \cup {[run |-> Current, number |-> eval.request,
                                 result |-> Last(eval.results)]}
    /\ eval' = IF eval.request < Len(Requests)
               THEN [eval EXCEPT !.step = "ask", !.request = @ + 1]
               ELSE [eval EXCEPT !.step = "measure"]
    /\ UNCHANGED <<table, given>>

Measure ==
    /\ eval.step = "measure"
    /\ files' = [files EXCEPT ![Current].measured = TRUE]
    /\ eval' = [eval EXCEPT !.step = "complete"]
    /\ UNCHANGED <<runs, given, samples>>

NextTarget == [eval EXCEPT !.step = "target", !.target = @ + 1]
EvalRaised ==
    IF command.keep_going THEN [NextTarget EXCEPT !.failures = Append(@, eval.target)]
    ELSE [eval EXCEPT !.step = "raised"]

\* Mutant: an evaluation with any answer is ok.
Complete_AnyAnswer ==
    /\ eval.step = "complete"
    /\ LET metrics == Counted(eval.results)
           ok == metrics[<<"response_count">>] > 0
       IN  /\ runs' = Ended(IF ok THEN "ok" ELSE "failed", metrics)
           /\ eval' = IF ok THEN NextTarget ELSE EvalRaised
    /\ UNCHANGED <<files, given, samples>>

\* The run is recorded, and one that failed raises after that.
Complete ==
    /\ eval.step = "complete"
    /\ LET metrics == Counted(eval.results)
           ok == metrics[<<"error_count">>] = 0 /\ eval.results # <<>>
       IN  /\ runs' = Ended(IF ok THEN "ok" ELSE "failed", metrics)
           /\ eval' = IF ok THEN NextTarget ELSE EvalRaised
    /\ UNCHANGED <<files, given, samples>>

\* Ctrl-C, which keep_going does not catch: the session of a target that is being
\* evaluated records it as failed, with no metrics and the artifacts it has claimed.
\* At the return of the session's enter nothing records it (RunSession).
InterruptEval ==
    /\ eval.step \notin {"none", "ok", "raised"}
    /\ \/ eval.step # "target" /\ runs' = Ended("failed", NoMetrics)
       \/ /\ eval.step = "target" \/ (eval.step = "claim" /\ files[Current].claimed = 0)
          /\ UNCHANGED runs
    /\ eval' = [eval EXCEPT !.step = "raised"]
    /\ UNCHANGED <<files, given, samples>>

EndEval ==
    /\ eval.step = "target" /\ eval.target > Len(Endpoints)
    /\ eval' = [eval EXCEPT !.step = IF eval.failures = <<>> THEN "ok" ELSE "raised"]
    /\ UNCHANGED <<table, given, samples>>

LeaveEval ==
    /\ eval.step \in {"ok", "raised"}
    /\ eval' = NoEval /\ Over
    /\ UNCHANGED <<table, todo, samples>>

Evaluate ==
    \/ StartEval \/ BeginTarget \/ ClaimArtifact \/ Ask \/ AppendResponse \/ AppendError \/ RecordSample
    \/ Measure \/ Complete \/ InterruptEval \/ EndEval \/ LeaveEval

-----------------------------------------------------------------------------
\* The records of an evaluation agree whenever it was cut off: its samples are the
\* responses, of which the last may not have become one; its errors are the errors
\* of the responses; the metrics it has are what a reparse makes of its files, and it
\* has them only if every request was measured or, by a reparse, if it was interrupted
\* before it claimed a measurement and asked anything; and a run is ok only if every
\* request was answered with some text.
AgentRecordsAgree ==
    \A i \in {i \in DOMAIN runs : runs[i].kind = "agent_eval" /\ runs[i].spec.scheme = 1} :
        LET row == runs[i]
            responses == files[i].responses
            mine == {s \in samples : s.run = i}
            wrong == Chosen(responses, {j \in DOMAIN responses : ~responses[j].ok})
            errors == [j \in DOMAIN wrong |-> wrong[j].error]
        IN  /\ Cardinality(mine) \in {Len(responses) - 1, Len(responses)}
            /\ \A s \in mine : s.number <= Len(responses) /\ s.result = responses[s.number]
            /\ Len(errors) - Len(files[i].errors) \in {0, 1}
            /\ files[i].errors = SubSeq(errors, 1, Len(files[i].errors))
            /\ files[i].measured => Len(responses) = Len(row.config.requests)
            /\ ~HasMeasurement(files[i]) => responses = <<>>
            /\ row.metrics # NoMetrics =>
                   /\ files[i].measured \/ ~HasMeasurement(files[i])
                   /\ row.metrics = Counted(responses)
            /\ row.status = "ok" =>
                   /\ files[i].measured /\ ~files[i].torn /\ files[i].errors = <<>>
                   /\ \A r \in Range(responses) : r.ok
=============================================================================
