------------------------------- MODULE Dabstep -------------------------------
(***************************************************************************)
(* benchmarks/dabstep: one DABStep run, invoked and resumed until every    *)
(* selected task is answered.                                              *)
(*                                                                         *)
(* Each invocation launches the upstream process at most Retries + 1       *)
(* times.  A process writes answers into an output directory named after   *)
(* the run and the attempt number; the runner merges them into             *)
(* answers.jsonl, appends the attempt to measurement.json and checkpoints  *)
(* one samples row per task, in that order.  Every step can be the last    *)
(* one: the command may be killed, or an exception (a failing store, a     *)
(* full disk, Ctrl-C outside the process) may end it.  subprocess.run ends *)
(* only the process it started, and a killed command ends none: an         *)
(* upstream process may outlive the call and go on writing.                *)
(*                                                                         *)
(* The row in the runs table is the variable `status`: RunSession says how *)
(* it is recorded.  An answer is its task id.                              *)
(***************************************************************************)
EXTENDS Naturals, Sequences

CONSTANTS
    NTasks,        \* the selected tasks are 1..NTasks, in manifest order
    Retries,       \* dabstep.retries
    MaxAttempts,   \* bound: launches over all the invocations of the run
    Faults         \* "crash", "raise", "torn" (a killed writer's last line)
                   \* and "orphan" (an upstream process outlives its call)

ASSUME DabstepAssumption ==
    /\ NTasks \in Nat \ {0}
    /\ Retries \in Nat
    /\ MaxAttempts \in Nat \ {0}

VARIABLES
    \* Durable: the run's row, its artifacts and its samples.
    status, answers, attempts, samples,
    \* Durable: the upstream output directory of each attempt, as the set of
    \* answers in it; a directory in `torn` has an unreadable answers file.
    source, torn,
    \* The tasks a process of an attempt that outlived its call may still answer.
    orphan,
    \* The invocation in progress.
    pc, mem, remaining, tries, next, code, ran

durable == <<status, answers, attempts, samples, source, torn, orphan>>
local == <<pc, mem, remaining, tries, next, code, ran>>
vars == <<durable, local>>

Tasks == 1..NTasks

\* How the last process of an invocation ended: it exited with status zero or
\* not, hit timeout_s, was interrupted, or could not be started.
Codes == {"zero", "nonzero", "timeout", "interrupt", "oserror"}

Attempt == [ids : SUBSET Tasks, code : Codes, retry : BOOLEAN]

PCs == {"idle", "loop", "launch", "running", "collect", "measure",
        "sample", "finish", "final_sample"}

\* The output directory the next process gets.  _run_token depends on the run and
\* on the number of attempts measured so far.
artifact_attempt == Len(attempts) + 1

\* source_answers.exists()
Exists(k) == source[k] # {} \/ k \in torn

\* No invocation: its variables are gone.
NoInvocation ==
    /\ pc' = "idle"
    /\ mem' = {} /\ remaining' = {} /\ tries' = 0 /\ next' = 1 /\ code' = "zero" /\ ran' = FALSE

-----------------------------------------------------------------------------
\* Only a task with both an ok sample and an answer is skipped.
RemainingOnStart == Tasks \ {t \in answers : samples[t] = "ok"}

\* The session is entered and the artifacts are read back.  A run that is ok
\* cannot be resumed.  The bound leaves room for the whole invocation.
Start ==
    /\ pc = "idle"
    /\ status \in {"absent", "running", "failed"}
    /\ Len(attempts) + Retries + 1 <= MaxAttempts
    /\ status' = "running"
    /\ mem' = answers
    /\ remaining' = RemainingOnStart
    /\ tries' = 0
    /\ code' = "zero"
    /\ ran' = FALSE
    /\ pc' = "loop"
    /\ UNCHANGED <<answers, attempts, samples, source, torn, orphan, next>>

\* An exception leaves the with-block: RunSession records the run as failed.
Fail ==
    /\ status' = "failed"
    /\ NoInvocation

\* Mutant: the merged file holds the answers of this invocation only.
Merge_ForgetsFile(k) ==
    /\ mem' = (IF tries = 0 THEN {} ELSE mem) \cup source[k]
    /\ answers' = mem'

\* _merge_source_answers and write_dabstep_answers, the write being atomic.
Merge(k) ==
    /\ mem' = mem \cup source[k]
    /\ answers' = mem'

\* The head of the while-loop.  Output of an attempt that was cut off before it
\* was measured is merged first, and the tasks it answered are not run again.
Loop ==
    /\ pc = "loop"
    /\ \/ /\ remaining = {} \/ tries > Retries
          /\ pc' = "finish"
          /\ UNCHANGED <<status, answers, mem, remaining, tries, next, code, ran>>
       \/ /\ remaining # {} /\ tries <= Retries
          /\ ~Exists(artifact_attempt)
          /\ pc' = "launch"
          /\ UNCHANGED <<status, answers, mem, remaining, tries, next, code, ran>>
       \/ /\ remaining # {} /\ tries <= Retries
          /\ artifact_attempt \in torn
          /\ Fail
          /\ UNCHANGED answers
       \/ /\ remaining # {} /\ tries <= Retries
          /\ Exists(artifact_attempt) /\ artifact_attempt \notin torn
          /\ Merge(artifact_attempt)
          /\ remaining' = Tasks \ mem'
          /\ pc' = IF remaining' = {} THEN "finish" ELSE "launch"
          /\ UNCHANGED <<status, tries, next, code, ran>>
    /\ UNCHANGED <<attempts, samples, source, torn, orphan>>

\* The environment variables are looked up (a ConfigError is a Raise) and the
\* process starts, or cannot be started.
Launch ==
    /\ pc = "launch"
    /\ Len(attempts) < MaxAttempts
    /\ ran' = TRUE
    /\ \/ pc' = "running" /\ UNCHANGED code
       \/ pc' = "collect" /\ code' = "oserror"
    /\ UNCHANGED <<durable, mem, remaining, tries, next>>

\* The upstream process appends an answer to its output.
UpstreamAnswers(t) ==
    /\ pc = "running"
    /\ t \in remaining
    /\ source' = [source EXCEPT ![artifact_attempt] = @ \cup {t}]
    /\ UNCHANGED <<status, answers, attempts, samples, torn, orphan, local>>

\* A process that outlived its call does the same.
OrphanAnswers(k, t) ==
    /\ t \in orphan[k] \ source[k]
    /\ source' = [source EXCEPT ![k] = @ \cup {t}]
    /\ UNCHANGED <<status, answers, attempts, samples, torn, orphan, local>>

\* The upstream process of this attempt is left behind, or none is.  Bound: one
\* attempt of a run leaves processes behind.
LeaveBehind ==
    \/ UNCHANGED orphan
    \/ /\ "orphan" \in Faults
       /\ \A k \in DOMAIN orphan \ {artifact_attempt} : orphan[k] = {}
       /\ orphan' = [orphan EXCEPT ![artifact_attempt] = @ \cup remaining]

\* subprocess.run is over.  A process that is killed may have been writing, and
\* when it is killed by subprocess.run a process it started may live on.
ProcessEnds(c) ==
    /\ pc = "running"
    /\ c # "oserror"
    /\ code' = c
    /\ pc' = "collect"
    /\ IF c \in {"timeout", "interrupt"} THEN LeaveBehind ELSE UNCHANGED orphan
    /\ \/ UNCHANGED torn
       \/ /\ "torn" \in Faults /\ c \in {"nonzero", "timeout", "interrupt"}
          /\ torn' = torn \cup {artifact_attempt}
    /\ UNCHANGED <<status, answers, attempts, samples, source, mem, remaining, tries, next, ran>>

\* Mutant: only a process that succeeded is worth merging.
Collect_OnlyOnSuccess ==
    /\ pc = "collect"
    /\ IF code = "zero" THEN Merge(artifact_attempt) ELSE UNCHANGED <<answers, mem>>
    /\ pc' = "measure"
    /\ UNCHANGED <<status, attempts, samples, source, torn, orphan, remaining, tries, next, code, ran>>

\* Merge what the process wrote; an unreadable file raises DabstepOutputError.
Collect ==
    /\ pc = "collect"
    /\ \/ /\ artifact_attempt \in torn
          /\ Fail
          /\ UNCHANGED answers
       \/ /\ artifact_attempt \notin torn
          /\ Merge(artifact_attempt)
          /\ pc' = "measure"
          /\ UNCHANGED <<status, remaining, tries, next, code, ran>>
    /\ UNCHANGED <<attempts, samples, source, torn, orphan>>

\* Append the attempt to measurement.json, atomically replaced.
Measure ==
    /\ pc = "measure"
    /\ attempts' = Append(attempts, [ids |-> remaining, code |-> code, retry |-> tries > 0])
    /\ next' = 1
    /\ pc' = "sample"
    /\ UNCHANGED <<status, answers, samples, source, torn, orphan, mem, remaining, tries, code, ran>>

\* Mutant: a task a process was asked to solve is checkpointed as answered.
SampleStatus_Attempted(t) == IF t \in mem \cup remaining THEN "ok" ELSE "failed"

\* _record_samples: the status of one task's row.
SampleStatus(t) == IF t \in mem THEN "ok" ELSE "failed"

\* record_sample for the next task: each row commits on its own.
Sample ==
    /\ pc \in {"sample", "final_sample"}
    /\ next <= NTasks
    /\ samples' = [samples EXCEPT ![next] = SampleStatus(next)]
    /\ next' = next + 1
    /\ UNCHANGED <<status, answers, attempts, source, torn, orphan, pc, mem, remaining, tries, code, ran>>

\* Mutant: a launch that could not start does not count as a try.
NextTry_FreeRestart ==
    /\ pc = "sample" /\ next > NTasks
    /\ remaining' = Tasks \ mem
    /\ tries' = IF code = "oserror" THEN tries ELSE tries + 1
    /\ pc' = IF code = "interrupt" THEN "finish" ELSE "loop"
    /\ UNCHANGED <<durable, mem, next, code, ran>>

\* The end of the loop's body; an interrupted process ends the loop.
NextTry ==
    /\ pc = "sample" /\ next > NTasks
    /\ remaining' = Tasks \ mem
    /\ tries' = tries + 1
    /\ pc' = IF code = "interrupt" THEN "finish" ELSE "loop"
    /\ UNCHANGED <<durable, mem, next, code, ran>>

\* After the loop the answers are read back and every task is sampled again.
Finish ==
    /\ pc = "finish"
    /\ mem' = answers
    /\ next' = 1
    /\ pc' = "final_sample"
    /\ UNCHANGED <<durable, remaining, tries, code, ran>>

\* Mutant: the exit status of the last process decides alone.
Success_ExitCode == code = "zero"

\* missing == 0, not interrupted, and the last process, if any ran, exited with 0.
Success == answers = Tasks /\ code # "interrupt" /\ (ran => code = "zero")

\* parse_dabstep_metrics and run.complete().
Complete ==
    /\ pc = "final_sample" /\ next > NTasks
    /\ status' = IF Success THEN "ok" ELSE "failed"
    /\ NoInvocation
    /\ UNCHANGED <<answers, attempts, samples, source, torn, orphan>>

\* Anything in the with-block raises, Ctrl-C outside the process included.
Raise ==
    /\ "raise" \in Faults
    /\ pc # "idle"
    /\ pc # "running"
    /\ Fail
    /\ UNCHANGED <<answers, attempts, samples, source, torn, orphan>>

\* The command is killed, the upstream process with it or not: what was written
\* stays, the last line perhaps cut.
Crash ==
    /\ "crash" \in Faults
    /\ pc # "idle"
    /\ NoInvocation
    /\ \/ UNCHANGED torn
       \/ /\ "torn" \in Faults /\ pc = "running"
          /\ torn' = torn \cup {artifact_attempt}
    /\ IF pc = "running" THEN LeaveBehind ELSE UNCHANGED orphan
    /\ UNCHANGED <<status, answers, attempts, samples, source>>

Init ==
    /\ status = "absent"
    /\ answers = {}
    /\ attempts = <<>>
    /\ samples = [t \in Tasks |-> "none"]
    /\ source = [k \in 1..MaxAttempts + 1 |-> {}]
    /\ torn = {}
    /\ orphan = [k \in 1..MaxAttempts + 1 |-> {}]
    /\ pc = "idle"
    /\ mem = {}
    /\ remaining = {}
    /\ tries = 0
    /\ next = 1
    /\ code = "zero"
    /\ ran = FALSE

\* The steps an invocation takes once it has started, none of which waits for
\* anything but the upstream process, which timeout_s ends.
Step == \/ Loop \/ Launch \/ Collect \/ Measure \/ Sample \/ NextTry \/ Finish \/ Complete
        \/ \E c \in Codes : ProcessEnds(c)

Next ==
    \/ Start
    \/ Step
    \/ \E t \in Tasks : UpstreamAnswers(t)
    \/ \E k \in DOMAIN orphan, t \in Tasks : OrphanAnswers(k, t)
    \/ Raise
    \/ Crash

Spec == Init /\ [][Next]_vars

FairSpec == Spec /\ WF_vars(Step)

-----------------------------------------------------------------------------
TypeOK ==
    /\ status \in {"absent", "running", "failed", "ok"}
    /\ answers \subseteq Tasks
    /\ attempts \in Seq(Attempt)
    /\ Len(attempts) <= MaxAttempts
    /\ samples \in [Tasks -> {"none", "failed", "ok"}]
    /\ source \in [1..MaxAttempts + 1 -> SUBSET Tasks]
    /\ torn \subseteq 1..MaxAttempts + 1
    /\ orphan \in [1..MaxAttempts + 1 -> SUBSET Tasks]
    /\ pc \in PCs
    /\ mem \subseteq Tasks
    /\ remaining \subseteq Tasks
    /\ tries \in 0..Retries + 1
    /\ next \in 1..NTasks + 1
    /\ code \in Codes
    /\ ran \in BOOLEAN

\* A run recorded as ok has an answer and an ok sample for every selected task,
\* however many invocations, failures and crashes it took.
OkMeansComplete ==
    status = "ok" => answers = Tasks /\ \A t \in Tasks : samples[t] = "ok"

\* A checkpoint never promises an answer that is not on disk: answers.jsonl is
\* written before the samples that say so, whatever instant the command dies at.
OkSampleHasAnswer ==
    \A t \in Tasks : samples[t] = "ok" => t \in answers

\* What an attempt wrote is in answers.jsonl before the attempt is measured: a
\* resume numbers its output directories from the measured attempts, so it never
\* looks into the directory of a measured one again.  (What a process that
\* outlived its call adds later is in no checkpoint, nor is a torn file.)
RecordedOutputIsMerged ==
    \A k \in DOMAIN attempts : k \notin torn => source[k] \ orphan[k] \subseteq answers

\* Resuming only adds: an answer once in answers.jsonl stays, a task once
\* checkpointed as completed stays so, and measured attempts are kept.
ProgressIsKept ==
    [][/\ answers \subseteq answers'
       /\ \A t \in Tasks : samples[t] = "ok" => samples'[t] = "ok"
       /\ attempts = SubSeq(attempts', 1, Len(attempts))]_vars

\* Every invocation ends: the loop cannot go round more than Retries + 1 times.
InvocationEnds == pc # "idle" ~> pc = "idle"

\* docs/dabstep.md: if a process fails, times out, or is interrupted, answers
\* already written by the official baseline are checkpointed.  When an invocation
\* that nothing else disturbed has ended, no written answer is left behind.
WrittenAnswersAreCheckpointed ==
    pc = "idle" => \A k \in DOMAIN source : source[k] \subseteq answers
=============================================================================
