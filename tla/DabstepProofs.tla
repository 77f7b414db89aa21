---------------------------- MODULE DabstepProofs ----------------------------
(***************************************************************************)
(* Dabstep keeps its safety properties for any number of tasks, retries    *)
(* and launches and for every combination of faults.                       *)
(***************************************************************************)
EXTENDS Dabstep, SequenceTheorems, TLAPS

\* An invocation in progress is of a run recorded as running, has the answers of
\* answers.jsonl in memory, and is within its bounds where it uses them.
InvocationInv ==
    /\ pc # "idle" => status = "running" /\ mem = answers
    /\ pc \in {"launch", "running", "collect", "measure", "sample"} => tries <= Retries
    /\ pc \in {"running", "collect", "measure"} => Len(attempts) < MaxAttempts

\* What the last process wrote has been merged when the attempt is measured.
MergedInv ==
    pc = "measure" =>
        source[artifact_attempt] \ orphan[artifact_attempt] \subseteq answers

\* The last loop over the tasks has given each its row up to the next one.
FinalSampleInv ==
    pc = "final_sample" =>
        \A t \in Tasks : t < next => samples[t] = SampleStatus(t)

DabstepInv ==
    /\ TypeOK
    /\ InvocationInv
    /\ MergedInv
    /\ FinalSampleInv
    /\ OkMeansComplete
    /\ OkSampleHasAnswer
    /\ RecordedOutputIsMerged

-----------------------------------------------------------------------------
\* The counters start within their bounds.
LEMMA CountersStart == 0 \in 0..Retries + 1 /\ 1 \in 1..NTasks + 1
BY DabstepAssumption

\* The attempts are a sequence, and the next output directory is one of the bound.
LEMMA AttemptsAreMeasured ==
    ASSUME TypeOK
    PROVE  /\ Len(attempts) \in Nat
           /\ DOMAIN attempts = 1..Len(attempts)
           /\ artifact_attempt \in 1..MaxAttempts + 1
           /\ artifact_attempt \notin DOMAIN attempts
<1>1. Len(attempts) \in Nat /\ DOMAIN attempts = 1..Len(attempts)
  BY LenProperties DEF TypeOK
<1> QED
  BY <1>1, DabstepAssumption DEF TypeOK, artifact_attempt

LEMMA DabstepInitInv == Init => DabstepInv
<1> SUFFICES ASSUME Init PROVE DabstepInv
  OBVIOUS
<1>1. attempts \in Seq(Attempt) /\ Len(attempts) = 0 /\ DOMAIN attempts = {}
  BY EmptySeq, LenProperties DEF Init
<1>2. TypeOK
  <2>1. Len(attempts) <= MaxAttempts
    BY <1>1, DabstepAssumption
  <2>2. /\ samples \in [Tasks -> {"none", "failed", "ok"}]
        /\ source \in [1..MaxAttempts + 1 -> SUBSET Tasks]
        /\ orphan \in [1..MaxAttempts + 1 -> SUBSET Tasks]
    BY DEF Init
  <2>3. tries \in 0..Retries + 1 /\ next \in 1..NTasks + 1
    BY CountersStart DEF Init
  <2> QED
    BY <1>1, <2>1, <2>2, <2>3 DEF Init, TypeOK, PCs, Codes
<1> QED
  BY <1>1, <1>2 DEF Init, DabstepInv, InvocationInv, MergedInv, FinalSampleInv,
                    OkMeansComplete, OkSampleHasAnswer, RecordedOutputIsMerged

-----------------------------------------------------------------------------
(* The steps of an invocation.                                               *)

LEMMA StartKeeps == ASSUME DabstepInv, Start PROVE DabstepInv'
<1> USE DEF DabstepInv, Start
<1>1. TypeOK'
  BY CountersStart DEF TypeOK, PCs, Codes, RemainingOnStart
<1> QED
  BY <1>1 DEF InvocationInv, MergedInv, FinalSampleInv,
              OkMeansComplete, OkSampleHasAnswer, RecordedOutputIsMerged

\* The program's own variables are those of no invocation.
LEMMA NoInvocationKeeps ==
    ASSUME DabstepInv, NoInvocation, UNCHANGED <<answers, attempts, samples, source>>,
           status' \in {"absent", "running", "failed", "ok"},
           status' = "ok" => status = "ok" \/ OkMeansComplete',
           torn' \in SUBSET (1..MaxAttempts + 1), torn \subseteq torn',
           orphan' \in [1..MaxAttempts + 1 -> SUBSET Tasks],
           \A k \in 1..MaxAttempts + 1 : orphan[k] \subseteq orphan'[k]
    PROVE  DabstepInv'
<1> USE DEF DabstepInv, NoInvocation
<1>1. TypeOK'
  BY CountersStart DEF TypeOK, PCs, Codes
<1>2. RecordedOutputIsMerged'
  BY AttemptsAreMeasured, DabstepAssumption DEF TypeOK, RecordedOutputIsMerged
<1>3. OkMeansComplete'
  BY DEF OkMeansComplete
<1> QED
  BY <1>1, <1>2, <1>3 DEF InvocationInv, MergedInv, FinalSampleInv, OkSampleHasAnswer

\* An exception leaves the with-block.
LEMMA FailKeeps ==
    ASSUME DabstepInv, Fail, UNCHANGED <<answers, attempts, samples, source, torn, orphan>>
    PROVE  DabstepInv'
BY NoInvocationKeeps DEF Fail, DabstepInv, TypeOK

\* Merging an output directory only adds answers, and leaves none of it out.
LEMMA MergeAdds ==
    ASSUME TypeOK, InvocationInv, pc # "idle", NEW k \in DOMAIN source, Merge(k)
    PROVE  /\ mem' = answers' /\ answers' \in SUBSET Tasks
           /\ answers \subseteq answers' /\ source[k] \subseteq answers'
BY DEF TypeOK, InvocationInv, Merge

LEMMA LoopKeeps == ASSUME DabstepInv, Loop PROVE DabstepInv'
<1> USE DEF DabstepInv
<1>0. pc = "loop" /\ UNCHANGED <<attempts, samples, source, torn, orphan>>
  BY DEF Loop
<1>1. CASE UNCHANGED <<status, answers, mem, remaining, tries, next, code, ran>>
           /\ (pc' = "finish" \/ (pc' = "launch" /\ tries <= Retries))
  <2>1. TypeOK'
    BY <1>0, <1>1 DEF TypeOK, PCs
  <2> QED
    BY <1>0, <1>1, <2>1 DEF InvocationInv, MergedInv, FinalSampleInv, OkMeansComplete,
                            OkSampleHasAnswer, RecordedOutputIsMerged
<1>2. CASE Fail /\ UNCHANGED answers
  BY <1>0, <1>2, FailKeeps
<1>3. CASE /\ tries <= Retries
           /\ Merge(artifact_attempt)
           /\ remaining' = Tasks \ mem'
           /\ pc' = IF remaining' = {} THEN "finish" ELSE "launch"
           /\ UNCHANGED <<status, tries, next, code, ran>>
  <2>1. artifact_attempt \in DOMAIN source
    BY AttemptsAreMeasured DEF TypeOK
  <2>2. /\ mem' = answers' /\ answers' \in SUBSET Tasks
        /\ answers \subseteq answers'
    BY <1>0, <1>3, <2>1, MergeAdds
  <2>3. TypeOK'
    BY <1>0, <1>3, <2>2 DEF TypeOK, PCs
  <2> QED
    BY <1>0, <1>3, <2>2, <2>3 DEF InvocationInv, MergedInv, FinalSampleInv, OkMeansComplete,
                                  OkSampleHasAnswer, RecordedOutputIsMerged
<1> QED
  BY <1>1, <1>2, <1>3 DEF Loop

LEMMA LaunchKeeps == ASSUME DabstepInv, Launch PROVE DabstepInv'
<1> USE DEF DabstepInv, Launch, durable
<1>1. TypeOK'
  BY DEF TypeOK, PCs, Codes
<1> QED
  BY <1>1 DEF InvocationInv, MergedInv, FinalSampleInv, OkMeansComplete,
              OkSampleHasAnswer, RecordedOutputIsMerged

\* A running process writes into a directory no measured attempt has.
LEMMA UpstreamAnswersKeeps ==
    ASSUME DabstepInv, NEW t \in Tasks, UpstreamAnswers(t) PROVE DabstepInv'
<1> USE DEF DabstepInv, UpstreamAnswers, local
<1>1. TypeOK'
  BY DEF TypeOK
<1>2. \A k \in DOMAIN attempts : source'[k] = source[k]
  BY AttemptsAreMeasured, DabstepAssumption DEF TypeOK
<1> QED
  BY <1>1, <1>2 DEF InvocationInv, MergedInv, FinalSampleInv, OkMeansComplete,
                    OkSampleHasAnswer, RecordedOutputIsMerged, SampleStatus

\* A process left behind writes nothing but what it may still write.
LEMMA OrphanAnswersKeeps ==
    ASSUME DabstepInv, NEW k \in DOMAIN orphan, NEW t \in Tasks, OrphanAnswers(k, t)
    PROVE  DabstepInv'
<1> USE DEF DabstepInv, OrphanAnswers, local
<1>1. TypeOK'
  BY DEF TypeOK
<1>2. \A j \in 1..MaxAttempts + 1 : source'[j] \ orphan'[j] = source[j] \ orphan[j]
  BY DEF TypeOK
<1>3. RecordedOutputIsMerged' /\ MergedInv'
  BY <1>2, AttemptsAreMeasured, DabstepAssumption
     DEF TypeOK, RecordedOutputIsMerged, MergedInv, artifact_attempt
<1> QED
  BY <1>1, <1>3 DEF InvocationInv, FinalSampleInv, OkMeansComplete,
                    OkSampleHasAnswer, SampleStatus

\* Leaving a process behind touches no measured attempt's directory.
LEMMA LeaveBehindAdds ==
    ASSUME TypeOK, LeaveBehind
    PROVE  /\ orphan' \in [1..MaxAttempts + 1 -> SUBSET Tasks]
           /\ \A k \in 1..MaxAttempts + 1 : orphan[k] \subseteq orphan'[k]
BY DEF TypeOK, LeaveBehind

LEMMA ProcessEndsKeeps ==
    ASSUME DabstepInv, NEW c \in Codes, ProcessEnds(c) PROVE DabstepInv'
<1> USE DEF DabstepInv
<1>1. /\ pc = "running" /\ pc' = "collect" /\ code' = c
      /\ UNCHANGED <<status, answers, attempts, samples, source, mem, remaining, tries, next, ran>>
      /\ torn \subseteq torn' /\ torn' \in SUBSET (1..MaxAttempts + 1)
  BY AttemptsAreMeasured DEF ProcessEnds, TypeOK
<1>2. /\ orphan' \in [1..MaxAttempts + 1 -> SUBSET Tasks]
      /\ \A k \in 1..MaxAttempts + 1 : orphan[k] \subseteq orphan'[k]
  BY LeaveBehindAdds DEF ProcessEnds, TypeOK
<1>3. TypeOK'
  BY <1>1, <1>2 DEF TypeOK, PCs
<1>4. RecordedOutputIsMerged'
  BY <1>1, <1>2, AttemptsAreMeasured, DabstepAssumption DEF TypeOK, RecordedOutputIsMerged
<1> QED
  BY <1>1, <1>3, <1>4 DEF InvocationInv, MergedInv, FinalSampleInv, OkMeansComplete,
                          OkSampleHasAnswer

LEMMA CollectKeeps == ASSUME DabstepInv, Collect PROVE DabstepInv'
<1> USE DEF DabstepInv
<1>0. pc = "collect" /\ UNCHANGED <<attempts, samples, source, torn, orphan>>
  BY DEF Collect
<1>1. CASE Fail /\ UNCHANGED answers
  BY <1>0, <1>1, FailKeeps
<1>2. CASE /\ Merge(artifact_attempt)
           /\ pc' = "measure"
           /\ UNCHANGED <<status, remaining, tries, next, code, ran>>
  <2>1. artifact_attempt \in DOMAIN source
    BY AttemptsAreMeasured DEF TypeOK
  <2>2. /\ mem' = answers' /\ answers' \in SUBSET Tasks
        /\ answers \subseteq answers' /\ source[artifact_attempt] \subseteq answers'
    BY <1>0, <1>2, <2>1, MergeAdds
  <2>3. TypeOK'
    BY <1>0, <1>2, <2>2 DEF TypeOK, PCs
  <2>4. MergedInv'
    BY <1>0, <2>2 DEF MergedInv, artifact_attempt
  <2> QED
    BY <1>0, <1>2, <2>2, <2>3, <2>4 DEF InvocationInv, FinalSampleInv, OkMeansComplete,
                                        OkSampleHasAnswer, RecordedOutputIsMerged
<1> QED
  BY <1>1, <1>2 DEF Collect

\* Measuring an attempt extends the sequence by one, and keeps the others.
LEMMA MeasureAppends ==
    ASSUME DabstepInv, Measure
    PROVE  /\ attempts' \in Seq(Attempt)
           /\ Len(attempts') = Len(attempts) + 1
           /\ DOMAIN attempts' = DOMAIN attempts \cup {artifact_attempt}
           /\ attempts = SubSeq(attempts', 1, Len(attempts))
<1> DEFINE a == [ids |-> remaining, code |-> code, retry |-> tries > 0]
           kept == SubSeq(attempts', 1, Len(attempts))
<1>1. attempts \in Seq(Attempt) /\ a \in Attempt /\ attempts' = Append(attempts, a)
  BY DEF DabstepInv, TypeOK, Measure, Attempt
<1> HIDE DEF a
<1>2. /\ attempts' \in Seq(Attempt)
      /\ Len(attempts') = Len(attempts) + 1
      /\ \A i \in 1..Len(attempts) : attempts'[i] = attempts[i]
  BY <1>1, AppendProperties, LenProperties
<1>3. Len(attempts) \in Nat /\ DOMAIN attempts = 1..Len(attempts)
      /\ DOMAIN attempts' = 1..Len(attempts')
  BY <1>1, <1>2, LenProperties
<1>4. \A i \in 1..Len(attempts) : attempts'[i] \in Attempt
  BY <1>1, <1>2, <1>3, ElementOfSeq
<1>5. /\ kept \in Seq(Attempt)
      /\ Len(kept) = Len(attempts)
      /\ \A i \in 1..Len(attempts) : kept[i] = attempts[i]
  BY <1>2, <1>3, <1>4, SubSeqProperties, Z3
<1>6. kept = attempts
  BY <1>1, <1>5, SeqEqual
<1>7. DOMAIN attempts' = DOMAIN attempts \cup {artifact_attempt}
  BY <1>2, <1>3 DEF artifact_attempt
<1> QED
  BY <1>2, <1>6, <1>7

LEMMA MeasureKeeps == ASSUME DabstepInv, Measure PROVE DabstepInv'
<1> USE DEF DabstepInv
<1>1. /\ attempts' \in Seq(Attempt)
      /\ Len(attempts') = Len(attempts) + 1
      /\ DOMAIN attempts' = DOMAIN attempts \cup {artifact_attempt}
  BY MeasureAppends
<1>2. /\ pc = "measure" /\ pc' = "sample" /\ next' = 1
      /\ UNCHANGED <<status, answers, samples, source, torn, orphan, mem, remaining, tries,
                     code, ran>>
  BY DEF Measure
<1>3. TypeOK'
  BY <1>1, <1>2, AttemptsAreMeasured, DabstepAssumption DEF TypeOK, PCs, InvocationInv
<1>4. RecordedOutputIsMerged'
  BY <1>1, <1>2 DEF RecordedOutputIsMerged, MergedInv
<1> QED
  BY <1>2, <1>3, <1>4 DEF InvocationInv, MergedInv, FinalSampleInv, OkMeansComplete,
                          OkSampleHasAnswer

LEMMA SampleKeeps == ASSUME DabstepInv, Sample PROVE DabstepInv'
<1> USE DEF DabstepInv
<1>1. /\ pc \in {"sample", "final_sample"} /\ next \in Tasks
      /\ samples' = [samples EXCEPT ![next] = SampleStatus(next)]
      /\ next' = next + 1
      /\ UNCHANGED <<status, answers, attempts, source, torn, orphan, pc, mem, remaining,
                     tries, code, ran>>
  BY DEF Sample, TypeOK, Tasks
<1>2. TypeOK'
  BY <1>1, DabstepAssumption DEF TypeOK, Tasks, SampleStatus
<1>3. OkSampleHasAnswer'
  BY <1>1 DEF TypeOK, OkSampleHasAnswer, SampleStatus, InvocationInv
<1>4. FinalSampleInv'
  BY <1>1, DabstepAssumption DEF TypeOK, Tasks, FinalSampleInv, SampleStatus
<1> QED
  BY <1>1, <1>2, <1>3, <1>4 DEF InvocationInv, MergedInv, OkMeansComplete,
                                RecordedOutputIsMerged, artifact_attempt

LEMMA NextTryKeeps == ASSUME DabstepInv, NextTry PROVE DabstepInv'
<1> USE DEF DabstepInv, NextTry, durable
<1>1. TypeOK'
  BY DabstepAssumption DEF TypeOK, PCs, InvocationInv
<1> QED
  BY <1>1 DEF InvocationInv, MergedInv, FinalSampleInv, OkMeansComplete,
              OkSampleHasAnswer, RecordedOutputIsMerged

LEMMA FinishKeeps == ASSUME DabstepInv, Finish PROVE DabstepInv'
<1> USE DEF DabstepInv, Finish, durable
<1>1. TypeOK'
  BY DabstepAssumption DEF TypeOK, PCs
<1> QED
  BY <1>1 DEF TypeOK, Tasks, InvocationInv, MergedInv, FinalSampleInv, OkMeansComplete,
              OkSampleHasAnswer, RecordedOutputIsMerged

\* The run is ok only if the last loop gave every task an ok row.
LEMMA CompleteKeeps == ASSUME DabstepInv, Complete PROVE DabstepInv'
<1> USE DEF DabstepInv
<1>1. ASSUME status' = "ok" PROVE OkMeansComplete'
  <2>1. answers = Tasks /\ mem = Tasks /\ next > NTasks
    BY <1>1 DEF Complete, Success, InvocationInv
  <2>2. \A t \in Tasks : samples[t] = "ok"
    BY <2>1, DabstepAssumption DEF Complete, FinalSampleInv, SampleStatus, TypeOK, Tasks
  <2> QED
    BY <2>1, <2>2 DEF Complete, OkMeansComplete
<1> QED
  BY <1>1, NoInvocationKeeps DEF Complete, TypeOK

\* The command is killed: the files are what they were.
LEMMA CrashKeeps == ASSUME DabstepInv, Crash PROVE DabstepInv'
<1>1. torn \subseteq torn' /\ torn' \in SUBSET (1..MaxAttempts + 1)
  BY AttemptsAreMeasured DEF DabstepInv, TypeOK, Crash
<1>2. /\ orphan' \in [1..MaxAttempts + 1 -> SUBSET Tasks]
      /\ \A k \in 1..MaxAttempts + 1 : orphan[k] \subseteq orphan'[k]
  BY LeaveBehindAdds DEF DabstepInv, TypeOK, Crash
<1> QED
  BY <1>1, <1>2, NoInvocationKeeps DEF DabstepInv, TypeOK, Crash

LEMMA DabstepNextInv == DabstepInv /\ [Next]_vars => DabstepInv'
<1> SUFFICES ASSUME DabstepInv, [Next]_vars PROVE DabstepInv'
  OBVIOUS
<1>1. CASE Start
  BY <1>1, StartKeeps
<1>2. CASE Step
  BY <1>2, LoopKeeps, LaunchKeeps, CollectKeeps, MeasureKeeps, SampleKeeps, NextTryKeeps,
     FinishKeeps, CompleteKeeps, ProcessEndsKeeps DEF Step
<1>3. ASSUME NEW t \in Tasks, UpstreamAnswers(t) PROVE DabstepInv'
  BY <1>3, UpstreamAnswersKeeps
<1>4. ASSUME NEW k \in DOMAIN orphan, NEW t \in Tasks, OrphanAnswers(k, t) PROVE DabstepInv'
  BY <1>4, OrphanAnswersKeeps
<1>5. CASE Raise
  BY <1>5, FailKeeps DEF Raise
<1>6. CASE Crash
  BY <1>6, CrashKeeps
<1>7. CASE UNCHANGED vars
  BY <1>7 DEF vars, durable, local, DabstepInv, TypeOK, InvocationInv, MergedInv, FinalSampleInv,
              OkMeansComplete, OkSampleHasAnswer, RecordedOutputIsMerged, artifact_attempt,
              SampleStatus
<1> QED
  BY <1>1, <1>2, <1>3, <1>4, <1>5, <1>6, <1>7 DEF Next

LEMMA DabstepInductive == Spec => []DabstepInv
BY DabstepInitInv, DabstepNextInv, PTL DEF Spec

-----------------------------------------------------------------------------
\* The variables keep their types: no run measures more attempts than the bound
\* and no invocation makes more than Retries + 1 tries.
THEOREM DabstepTypeCorrect == Spec => []TypeOK
<1>1. DabstepInv => TypeOK
  BY DEF DabstepInv
<1> QED
  BY <1>1, DabstepInductive, PTL

\* A run recorded as ok has an answer and an ok sample for every selected task.
THEOREM OkRunsAreComplete == Spec => []OkMeansComplete
<1>1. DabstepInv => OkMeansComplete
  BY DEF DabstepInv
<1> QED
  BY <1>1, DabstepInductive, PTL

\* A checkpointed ok sample has its answer in answers.jsonl, at every instant the
\* command can die.
THEOREM CheckpointsAreHonest == Spec => []OkSampleHasAnswer
<1>1. DabstepInv => OkSampleHasAnswer
  BY DEF DabstepInv
<1> QED
  BY <1>1, DabstepInductive, PTL

\* The readable output of a measured attempt is in answers.jsonl, but for what a
\* process that outlived its call may add.
THEOREM MeasuredOutputIsMerged == Spec => []RecordedOutputIsMerged
<1>1. DabstepInv => RecordedOutputIsMerged
  BY DEF DabstepInv
<1> QED
  BY <1>1, DabstepInductive, PTL

\* The samples only change from failed or none to what the answers say.
LEMMA SampleNeverTakesBack ==
    ASSUME DabstepInv, Sample
    PROVE  \A t \in Tasks : samples[t] = "ok" => samples'[t] = "ok"
BY DEF DabstepInv, TypeOK, InvocationInv, OkSampleHasAnswer, Sample, SampleStatus

\* No step of any invocation loses an answer, a checkpointed success or a measured
\* attempt.
THEOREM ProgressIsAlwaysKept == Spec => ProgressIsKept
<1> DEFINE Kept == /\ answers \subseteq answers'
                   /\ \A t \in Tasks : samples[t] = "ok" => samples'[t] = "ok"
                   /\ attempts = SubSeq(attempts', 1, Len(attempts))
<1>1. ASSUME DabstepInv, [Next]_vars PROVE [Kept]_vars
  <2>1. answers \subseteq answers'
    <3>1. \/ UNCHANGED answers
          \/ pc # "idle" /\ Merge(artifact_attempt)
      BY <1>1 DEF Next, Step, Start, Loop, Launch, Collect, Measure, Sample, NextTry, Finish,
                  Complete, ProcessEnds, UpstreamAnswers, OrphanAnswers, Raise, Crash, vars, durable
    <3> QED
      BY <1>1, <3>1 DEF Merge, DabstepInv, InvocationInv
  <2>2. \A t \in Tasks : samples[t] = "ok" => samples'[t] = "ok"
    <3>1. UNCHANGED samples \/ Sample
      BY <1>1 DEF Next, Step, Start, Loop, Launch, Collect, Measure, NextTry, Finish,
                  Complete, ProcessEnds, UpstreamAnswers, OrphanAnswers, Raise, Crash, vars, durable
    <3> QED
      BY <1>1, <3>1, SampleNeverTakesBack
  <2>3. attempts = SubSeq(attempts', 1, Len(attempts))
    <3>1. UNCHANGED attempts \/ Measure
      BY <1>1 DEF Next, Step, Start, Loop, Launch, Collect, Sample, NextTry, Finish,
                  Complete, ProcessEnds, UpstreamAnswers, OrphanAnswers, Raise, Crash, vars, durable
    <3>2. CASE UNCHANGED attempts
      BY <1>1, <3>2, SubSeqFull DEF DabstepInv, TypeOK
    <3> QED
      BY <1>1, <3>1, <3>2, MeasureAppends
  <2> QED
    BY <2>1, <2>2, <2>3
<1> QED
  BY <1>1, DabstepInductive, PTL DEF Spec, ProgressIsKept

-----------------------------------------------------------------------------
(* The runs table of a result store, of which this run is one row.           *)

\* The row's committed status.  An exception that arrives after the completion was
\* committed is the subject of RunSession: here none demotes the run.
TheRun == "dabstep"
Lifecycle == INSTANCE RunLifecycle WITH
    RunIds <- {TheRun}, Interruptible <- FALSE, status <- [r \in {TheRun} |-> status]

\* What any step may do to the status: only Start takes up a run, which is not ok;
\* only an invocation in progress ends one.
LEMMA StatusChanges ==
    ASSUME DabstepInv, Next
    PROVE  \/ UNCHANGED status
           \/ status \in {"absent", "failed"} /\ status' = "running"
           \/ status = "running" /\ status' \in {"ok", "failed"}
<1> USE DEF DabstepInv, InvocationInv
<1>1. CASE Start
  BY <1>1 DEF Start
<1>2. CASE Loop
  BY <1>2 DEF Loop, Fail
<1>3. CASE Collect
  BY <1>3 DEF Collect, Fail
<1>4. CASE Complete
  BY <1>4 DEF Complete
<1>5. CASE Raise
  BY <1>5 DEF Raise, Fail
<1>6. CASE \/ Launch \/ Measure \/ Sample \/ NextTry \/ Finish \/ Crash
           \/ \E c \in Codes : ProcessEnds(c)
           \/ \E t \in Tasks : UpstreamAnswers(t)
           \/ \E k \in DOMAIN orphan, t \in Tasks : OrphanAnswers(k, t)
  BY <1>6 DEF Launch, Measure, Sample, NextTry, Finish, Crash, ProcessEnds,
              UpstreamAnswers, OrphanAnswers, durable
<1> QED
  BY <1>1, <1>2, <1>3, <1>4, <1>5, <1>6 DEF Next, Step

\* run_session.py and the runner's use of it: what a reader of the runs table sees
\* of this run, through resumes, failures and crashes, is the life the result store
\* promises of a run that nothing interrupts after its commit.
THEOREM ImplementsRunLifecycle == Spec => Lifecycle!Spec
<1>1. Init => Lifecycle!Init
  BY DEF Init, Lifecycle!Init
<1>2. DabstepInv /\ [Next]_vars => [Lifecycle!Next]_([r \in {TheRun} |-> status])
  <2> SUFFICES ASSUME DabstepInv, [Next]_vars, status' # status
               PROVE  Lifecycle!Next
    OBVIOUS
  <2> DEFINE shown == [r \in {TheRun} |-> status]
             becomes(s) == [shown EXCEPT ![TheRun] = s]
  <2>1. \/ status \in {"absent", "failed"} /\ status' = "running"
        \/ status = "running" /\ status' \in {"ok", "failed"}
    BY StatusChanges DEF vars, durable
  <2>2. shown[TheRun] = status /\ shown' = becomes(status')
    OBVIOUS
  <2>3. CASE status = "absent" /\ status' = "running"
    BY <2>2, <2>3 DEF Lifecycle!Next, Lifecycle!Start
  <2>4. CASE status = "failed" /\ status' = "running"
    BY <2>2, <2>4 DEF Lifecycle!Next, Lifecycle!Reopen
  <2>5. CASE status = "running" /\ status' \in {"ok", "failed"}
    BY <2>2, <2>5 DEF Lifecycle!Next, Lifecycle!Finish
  <2> QED
    BY <2>1, <2>3, <2>4, <2>5
<1> QED
  BY <1>1, <1>2, DabstepInductive, PTL DEF Spec, Lifecycle!Spec

=============================================================================
