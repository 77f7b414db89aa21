-------------------------------- MODULE Suite --------------------------------
(***************************************************************************)
(* workflows/suite.py, SuiteWorkflow.execute: one run of a suite, its      *)
(* evidence (the artifacts it claims) and its children, the runs of        *)
(* lm_eval and of http_load it starts inside its own session.  A host      *)
(* behind SSH is looked at by a HostProbe, a service by a                  *)
(* ServiceDiscovery, and the suite waits for either.                       *)
(*                                                                         *)
(* The sessions' records are single steps here, and so is the probe after  *)
(* the run, whose end changes nothing; RunSession takes the records        *)
(* apart, with what Ctrl-C or a failing statement does inside one.  A      *)
(* child that cannot record its end stays running.                         *)
(***************************************************************************)
EXTENDS Naturals, Sequences, FiniteSets, TargetDiscovery, HostProbe

CONSTANTS
    Configs,    \* the suites: what they run on, NoTarget for a fixed endpoint, and the
                \* steps they enable, records [quality : BOOLEAN, trials : Nat]
    Earlier,    \* the runs already in the store, by identifier: each one's parent and status
    NoParent    \* the parent_run_id of a run without a parent

\* Of the Faults, "crash", "store" and "disk" are the suite's own.

ASSUME SuiteAssumption ==
    /\ Configs \subseteq (Specs \cup {NoTarget}) \X [quality : BOOLEAN, trials : Nat]
    /\ NoParent \notin Nat
    /\ \A id \in DOMAIN Earlier : id \notin Nat /\ Earlier[id].parent \notin Nat

VARIABLES
    target,          \* config.target
    plan,            \* the steps the configuration enables
    pc,              \* where execute() is
    exc,             \* the exception propagating: "none", "error" or "interrupt"
    child_failure,   \* TRUE when a child step raised
    captured,        \* what the capture of the host leaves to decide by, until it is used
    host,            \* initial_host_snapshot_available
    resolved,        \* _resolved_target is not None
    claimed,         \* the roles of the artifacts the suite has claimed
    rows,            \* the statuses of its children in the store, in order
    returned,        \* children: the statuses of the outcomes the steps returned
    status,          \* the committed status of the suite's own run
    counts,          \* and its metrics, NoCounts when it has none
    seen_host,       \* history: whether a host profile was captured
    verified,        \* history: whether the target was what it should be
    broken           \* history: the finally-block was left by an exception

suite == <<status, counts>>
children == <<rows, returned, child_failure>>
history == <<seen_host, verified, broken>>
suiteVars == <<target, plan, pc, exc, captured, host, resolved, claimed, children, suite, history>>
vars == <<suiteVars, probe, discovery>>

NotCaptured == [host |-> FALSE, raises |-> FALSE, fatal |-> FALSE, ready |-> FALSE]
NoCounts == [children |-> 0, failed |-> 0, recorded |-> FALSE]
Planned == (IF plan.quality THEN 1 ELSE 0) + plan.trials
QualityRows == IF plan.quality /\ rows # <<>> THEN 1 ELSE 0

InTry == pc \in {"before", "inspect", "discover", "validate", "metrics_before", "preflight", "quality",
                 "load", "child"}
\* What may end a step besides its own outcome.
Disturbances == (IF "interrupt" \in Faults THEN {"interrupt"} ELSE {})
                \cup (IF "disk" \in Faults THEN {"error"} ELSE {})

InFinally == pc \in {"server_after", "metrics_after", "system_after"}
-----------------------------------------------------------------------------
\* An exception inside the try-block: its finally-block runs first.
Raise(kind) ==
    /\ exc' = kind
    /\ pc' = "server_after"

\* What a child step raises is kept until the children are summarised.
StepFails ==
    /\ child_failure' = TRUE
    /\ pc' = "server_after"
    /\ UNCHANGED exc

\* The session is entered and its row is running.
Begin ==
    /\ pc = "begin"
    /\ status' = "running"
    /\ pc' = "before"
    /\ UNCHANGED <<target, plan, exc, captured, host, resolved, claimed, children, counts, history>>

SystemBefore ==
    /\ pc = "before"
    /\ \/ /\ claimed' = claimed \cup {"system_before"}
          /\ pc' = IF target = NoTarget THEN "preflight" ELSE "inspect"
          /\ UNCHANGED exc
       \/ /\ Raise("error")
          /\ UNCHANGED claimed
    /\ UNCHANGED <<target, plan, captured, host, resolved, children, suite, history>>

\* _capture_host, for a host behind SSH with the probe, whose failure is a failed
\* capture; Ctrl-C is none.
BehindSsh == pc = "inspect" /\ target.access = "ssh"

ProbeHost == BehindSsh /\ ProbeNext /\ UNCHANGED <<suiteVars, discovery>>

CaptureHost ==
    /\ pc = "inspect"
    /\ BehindSsh => ProbeOver /\ reason \notin {"interrupt", "halfway"}
    /\ \E answer \in {a \in HostAnswers : reason # "none" => a.end = "none"} :
          /\ captured' = Captured(target, answer)
          /\ seen_host' = captured'.host
          /\ verified' = RightHost(target, answer)
    /\ pc' = "discover"
    /\ ProbeTaken
    /\ UNCHANGED <<target, plan, exc, host, resolved, claimed, children, suite, broken, discovery>>

\* The service is asked, unless the host has decided already.
Asks == pc = "discover" /\ ~captured.fatal /\ ~captured.raises

DiscoverService == Asks /\ DiscoveryNext(target.server_info) /\ UNCHANGED <<suiteVars, probe>>

\* The rest of inspect(), which a suite lets end without a service; what was found
\* is kept and recorded whether or not it can be used.  An artifact that cannot be
\* written, or Ctrl-C, may cut the recording short.
InspectTarget ==
    /\ pc = "discover"
    /\ Asks => DiscoveryOver
    /\ LET inspection == Inspect(target, captured, asking, found, TRUE) IN
       /\ host' = inspection.host
       /\ verified' = (verified /\ Asks /\ RightService(target, server))
       /\ \/ /\ claimed' = claimed \cup {"target_discovery", "server_before"}
             /\ resolved' = inspection.resolved
             /\ IF resolved' THEN pc' = "validate" /\ UNCHANGED exc ELSE Raise("error")
          \/ \E kind \in Disturbances, role \in SUBSET {"target_discovery"} :
             /\ claimed' = claimed \cup role
             /\ resolved' = FALSE
             /\ Raise(kind)
    /\ captured' = NotCaptured
    /\ DiscoveryTaken
    /\ UNCHANGED <<target, plan, children, suite, seen_host, broken, probe>>

\* _validate_resolved_target: the steps fit the context of the served model.
Validate ==
    /\ pc = "validate"
    /\ \/ pc' = "metrics_before" /\ UNCHANGED exc
       \/ Raise("error")
    /\ UNCHANGED <<target, plan, captured, host, resolved, claimed, children, suite, history>>

\* An observation: what it cannot read is written into its place.
MetricsBefore ==
    /\ pc = "metrics_before"
    /\ claimed' = IF target.metrics THEN claimed \cup {"vllm_metrics_before"} ELSE claimed
    /\ pc' = "preflight"
    /\ UNCHANGED <<target, plan, exc, captured, host, resolved, children, suite, history>>

\* The server listens, no other one does, and it answers as the expected model.
Preflight ==
    /\ pc = "preflight"
    /\ \/ /\ claimed' = claimed \cup {"preflight"}
          /\ pc' = "quality"
          /\ UNCHANGED exc
       \/ /\ Raise("error")
          /\ UNCHANGED claimed
    /\ UNCHANGED <<target, plan, captured, host, resolved, children, suite, history>>

-----------------------------------------------------------------------------
(* run_quality and run_load.                                                 *)

\* A child's session is entered.
StartChild ==
    /\ rows' = Append(rows, "running")
    /\ pc' = "child"
    /\ UNCHANGED <<exc, child_failure>>

\* run_quality: skipped, or run_lm_eval, which may raise before its session.
Quality ==
    /\ pc = "quality"
    /\ \/ /\ ~plan.quality
          /\ pc' = "load"
          /\ UNCHANGED <<rows, exc, child_failure>>
       \/ plan.quality /\ StartChild
       \/ plan.quality /\ StepFails /\ UNCHANGED rows
    /\ UNCHANGED <<target, plan, captured, host, resolved, claimed, returned, suite, history>>

\* run_load: run_http_load's next trial; or it raises before the trial's session;
\* or it is over, its outcomes are returned and the comparison is printed.
Load ==
    /\ pc = "load"
    /\ LET started == Len(rows) - QualityRows IN
       \/ /\ started < plan.trials
          /\ \/ StartChild
             \/ StepFails /\ UNCHANGED rows
          /\ UNCHANGED returned
       \/ /\ started = plan.trials
          /\ \/ /\ returned' = rows
                /\ pc' = "server_after"
                /\ UNCHANGED <<exc, child_failure>>
             \/ plan.trials > 0 /\ StepFails /\ UNCHANGED returned
          /\ UNCHANGED rows
    /\ UNCHANGED <<target, plan, captured, host, resolved, claimed, suite, history>>

\* A child records its end.  A child that failed raises, as it does when it could
\* not record; a quality run is returned as it ends, a trial with the last one.
ChildEnds ==
    /\ pc = "child"
    /\ \/ /\ rows' = [rows EXCEPT ![Len(rows)] = "ok"]
          /\ returned' = IF plan.quality /\ Len(rows) = 1 THEN <<"ok">> ELSE returned
          /\ pc' = "load"
          /\ UNCHANGED <<exc, child_failure>>
       \/ \E end \in {"failed"} \cup (IF "store" \in Faults THEN {"running"} ELSE {}) :
             /\ rows' = [rows EXCEPT ![Len(rows)] = end]
             /\ StepFails
             /\ UNCHANGED returned
    /\ UNCHANGED <<target, plan, captured, host, resolved, claimed, suite, history>>

\* Ctrl-C in a child: its session records a failure, unless it is hit while it
\* records; `except Exception` lets the interrupt through.
ChildInterrupted ==
    /\ "interrupt" \in Faults
    /\ pc = "child"
    /\ \E end \in {"failed", "running"} : rows' = [rows EXCEPT ![Len(rows)] = end]
    /\ Raise("interrupt")
    /\ UNCHANGED <<target, plan, captured, host, resolved, claimed, returned, child_failure, suite, history>>

-----------------------------------------------------------------------------
(* The finally-block, and what follows it.                                   *)

\* Mutant: only a resolved target is looked at again.
ServerAfter_Resolved ==
    /\ pc = "server_after"
    /\ claimed' = IF target # NoTarget /\ resolved THEN claimed \cup {"server_after"} ELSE claimed
    /\ pc' = "metrics_after"
    /\ UNCHANGED <<target, plan, exc, captured, host, resolved, children, suite, history>>

ServerAfter ==
    /\ pc = "server_after"
    /\ claimed' = IF target # NoTarget /\ host THEN claimed \cup {"server_after"} ELSE claimed
    /\ pc' = "metrics_after"
    /\ UNCHANGED <<target, plan, exc, captured, host, resolved, children, suite, history>>

MetricsAfter ==
    /\ pc = "metrics_after"
    /\ claimed' = IF "vllm_metrics_before" \in claimed /\ resolved
                  THEN claimed \cup {"vllm_metrics_after"} ELSE claimed
    /\ pc' = "system_after"
    /\ UNCHANGED <<target, plan, exc, captured, host, resolved, children, suite, history>>

SystemAfter ==
    /\ pc = "system_after"
    /\ claimed' = claimed \cup {"system_after"}
    /\ pc' = IF exc = "none" THEN "merge" ELSE "exit"
    /\ UNCHANGED <<target, plan, exc, captured, host, resolved, children, suite, history>>

\* ResultStore.comparison_runs, failed and repeated trials included: the rows of
\* whatever ran before, of the suite itself (identifier 0) and of its children, whose
\* identifiers are their places.
StoredRuns ==
    [id \in DOMAIN Earlier \cup {0} \cup DOMAIN rows |->
        IF id = 0 THEN [parent |-> NoParent, status |-> status]
        ELSE IF id \in DOMAIN rows THEN [parent |-> 0, status |-> rows[id]]
        ELSE Earlier[id]]

Linked == {id \in DOMAIN StoredRuns : StoredRuns[id].parent = 0}

\* Mutant: only the outcomes the steps returned are looked at.
Children_Returned == returned

\* Mutant: the rows of other runs are taken for children.
Children_Unlinked ==
    [id \in DOMAIN returned \cup DOMAIN StoredRuns |-> StoredRuns[id].status]

\* _merge_linked_children: the outcomes the steps returned, and over them the rows
\* the store links to the suite.
Children ==
    [id \in DOMAIN returned \cup Linked |->
        IF id \in Linked THEN StoredRuns[id].status ELSE returned[id]]

Unsuccessful == {id \in DOMAIN Children : Children[id] # "ok"}

\* Mutant: a step that raised does not count, only the children do.
Complete_CountsOnly ==
    /\ pc = "merge"
    /\ LET failed == Cardinality(Unsuccessful) IN
       /\ counts' = [children |-> Cardinality(DOMAIN Children), failed |-> failed, recorded |-> TRUE]
       /\ status' = IF failed = 0 THEN "ok" ELSE "failed"
    /\ pc' = "done"
    /\ UNCHANGED <<target, plan, exc, captured, host, resolved, claimed, children, history>>

\* The children are counted and the suite completed: failed when a step raised or
\* a child is anything but ok.
Complete ==
    /\ pc = "merge"
    /\ LET failed == Cardinality(Unsuccessful) IN
       /\ counts' = [children |-> Cardinality(DOMAIN Children), failed |-> failed, recorded |-> TRUE]
       /\ status' = IF ~child_failure /\ failed = 0 THEN "ok" ELSE "failed"
    /\ pc' = "done"
    /\ UNCHANGED <<target, plan, exc, captured, host, resolved, claimed, children, history>>

\* An exception leaves the with-block: RunSession records the run as failed.
Exit ==
    /\ pc = "exit"
    /\ status' = "failed"
    /\ pc' = "done"
    /\ UNCHANGED <<target, plan, exc, captured, host, resolved, claimed, children, counts, history>>

-----------------------------------------------------------------------------
\* Ctrl-C outside a child, or an artifact that cannot be claimed or written.  In
\* the finally-block it ends the block.
Disturbed(kind) ==
    /\ \/ InTry /\ pc # "child" /\ pc' = "server_after" /\ UNCHANGED broken
       \/ InFinally /\ pc' = "exit" /\ broken' = TRUE
       \/ pc = "merge" /\ pc' = "exit" /\ UNCHANGED broken
    /\ exc' = kind /\ captured' = NotCaptured
    /\ UNCHANGED <<target, plan, host, resolved, claimed, children, suite, seen_host, verified>>

Interrupt ==
    /\ "interrupt" \in Faults
    /\ ProbeIdle \/ ProbeOver
    /\ Disturbed("interrupt")
    /\ ProbeTaken /\ DiscoveryTaken

ArtifactFails ==
    /\ "disk" \in Faults
    /\ pc \notin {"inspect", "discover", "quality", "load", "merge"}
    /\ Disturbed("error")
    /\ UNCHANGED <<probe, discovery>>

\* The process is killed: a child it was in stays running, and so does the suite.
\* Nobody is left to look after a probe.
Crash ==
    /\ "crash" \in Faults
    /\ pc \notin {"begin", "done"}
    /\ pc' = "done"
    /\ ProbeTaken /\ DiscoveryTaken
    /\ UNCHANGED <<target, plan, exc, captured, host, resolved, claimed, children, suite, history>>

Init ==
    /\ \E config \in Configs : target = config[1] /\ plan = config[2]
    /\ pc = "begin"
    /\ exc = "none"
    /\ child_failure = FALSE
    /\ captured = NotCaptured
    /\ host = FALSE
    /\ resolved = FALSE
    /\ claimed = {}
    /\ rows = <<>>
    /\ returned = <<>>
    /\ status = "absent"
    /\ counts = NoCounts
    /\ seen_host = FALSE
    /\ verified = FALSE
    /\ broken = FALSE
    /\ ProbeInit /\ DiscoveryInit

Step ==
    \/ Begin \/ SystemBefore \/ Validate \/ MetricsBefore \/ Preflight
    \/ Quality \/ Load \/ ChildEnds \/ ChildInterrupted
    \/ ServerAfter \/ MetricsAfter \/ SystemAfter \/ Complete \/ Exit

Next ==
    \/ Step /\ UNCHANGED <<probe, discovery>>
    \/ ProbeHost \/ CaptureHost \/ DiscoverService \/ InspectTarget
    \/ Interrupt \/ ArtifactFails \/ Crash

Spec == Init /\ [][Next]_vars

\* The parent's own steps; ssh and its helpers owe nothing.
FairSpec == Spec /\ WF_vars(BehindSsh /\ ProbeStep /\ UNCHANGED <<suiteVars, discovery>>)

-----------------------------------------------------------------------------
Roles == {"system_before", "target_discovery", "server_before", "vllm_metrics_before",
          "preflight", "server_after", "vllm_metrics_after", "system_after"}

TypeOK ==
    /\ <<target, plan>> \in Configs
    /\ InTry \/ InFinally \/ pc \in {"begin", "merge", "exit", "done"}
    /\ exc \in {"none", "error", "interrupt"}
    /\ child_failure \in BOOLEAN /\ host \in BOOLEAN /\ resolved \in BOOLEAN
    /\ captured \in [host : BOOLEAN, raises : BOOLEAN, fatal : BOOLEAN, ready : BOOLEAN]
    /\ claimed \subseteq Roles
    /\ rows \in Seq({"running", "ok", "failed"}) /\ Len(rows) <= Planned
    /\ returned \in Seq({"running", "ok", "failed"}) /\ Len(returned) <= Len(rows)
    /\ status \in {"absent", "running", "ok", "failed"}
    /\ counts \in [children : 0..Planned, failed : 0..Planned, recorded : BOOLEAN]
    /\ seen_host \in BOOLEAN /\ verified \in BOOLEAN /\ broken \in BOOLEAN
    /\ ProbeTypeOK /\ DiscoveryTypeOK

\* A suite is ok only if every step it enables was carried out to the end, on a
\* target that is what its specification asks for: no failure, wherever it was
\* caught or counted, ends in an ok suite.
OkSuiteMeansAllRan ==
    status = "ok" =>
        /\ rows = [i \in 1..Planned |-> "ok"]
        /\ {"system_before", "preflight"} \subseteq claimed
        /\ target # NoTarget => verified

\* The counts a suite records agree with the rows a reader finds under it: merging
\* returned outcomes and stored rows misses no child of a step that raised, counts no
\* child twice and no run of anybody else.
CountsMatchRows ==
    counts.recorded =>
        /\ counts.children = Len(rows)
        /\ counts.failed = Cardinality({i \in DOMAIN rows : rows[i] # "ok"})

\* Whatever ends a suite, its evidence is complete when its outcome is recorded: the
\* system after it; the host after it wherever a profile was captured before, recorded
\* or not; and the server metrics wherever they were claimed before.  An exception
\* inside the finally-block prevents it, and so does Ctrl-C while the service is asked
\* and the profile is nowhere but in inspect(), which takes it along.
EvidenceKept ==
    status \in {"ok", "failed"} /\ ~broken =>
        /\ "system_after" \in claimed
        /\ seen_host /\ (exc # "interrupt" \/ "target_discovery" \in claimed) =>
              "server_after" \in claimed
        /\ "vllm_metrics_before" \in claimed => "vllm_metrics_after" \in claimed

\* No benchmark is started on a target that is not what its specification asks
\* for, whatever its host and its service answered.
RunsOnlyOnVerifiedTarget == rows # <<>> /\ target # NoTarget => verified

\* A suite never waits for its probe longer than the deadline and the grace allow,
\* whatever ssh and its helpers hold or ignore, and a probe that is given up leaves
\* none of the group: only Ctrl-C while the group is being ended may do that.
ProbeEnds ==
    Collecting ~> \/ ProbeOver /\ (reason \in {"timeout", "excess", "interrupt"} => Members = {})
                  \/ pc = "done"
=============================================================================
