----------------------------- MODULE RunSession -----------------------------
(***************************************************************************)
(* application/run_session.py over storage/duckdb.py: the durable life of  *)
(* benchmark runs.                                                         *)
(*                                                                         *)
(* One process at a time owns the database.  It keeps a stack of open      *)
(* sessions (a suite and, nested in its with-block, one child), and the    *)
(* innermost one may be inside ResultStore.record_run, whose statements    *)
(* are separate steps.  The database is two copies of its tables: `disk`,  *)
(* what is committed, and `view`, what the process's connection reads,     *)
(* which differ only while a transaction is open.                          *)
(*                                                                         *)
(* Names, durations, commands and the text of errors are left out.  A run  *)
(* specification (kind, hash, label, parent and schema version, which a    *)
(* resume compares one by one) is one value of Specs.                      *)
(***************************************************************************)
EXTENDS Naturals

CONSTANTS
    RunIds,         \* identifiers make_run_id can draw
    Specs,          \* run specifications
    Hosts,          \* identities host_identity can return, "unknown-host" apart
    Targets,        \* target identities
    Roles,          \* artifact roles
    Metrics,        \* non-empty metric dictionaries
    UnknownHost, NoTarget, NoMetrics, NoRow, NoCall, Closed, NotDone,
    MaxDepth,       \* how deeply sessions nest
    Faults          \* which of "crash", "interrupt", "store" the environment has

ASSUME MaxDepthAssumption == MaxDepth \in Nat \ {0}

VARIABLES
    disk,    \* the committed tables
    view,    \* the tables as this process's connection reads them
    intxn,   \* TRUE while a transaction is open on the connection
    files,   \* the artifact files that exist, as <<run, role>>
    sess,    \* the stack of sessions: slot 1 is the outermost
    top,     \* how many of them are open
    call,    \* the record_run call in progress
    exc,     \* the exception propagating: "none", "error" or "interrupt"
    cut      \* history: runs whose last session ended without its final record

store == <<disk, view, intxn>>
vars == <<disk, view, intxn, files, sess, top, call, exc, cut>>

-----------------------------------------------------------------------------
Statuses == {"running", "ok", "failed"}
MetricVals == Metrics \cup {NoMetrics}

\* A row.  `arts` is no column but history: the artifacts of the record that wrote
\* the row, so that the artifacts table can be compared with them.
Row == [status : Statuses, spec : Specs, host : Hosts \cup {UnknownHost},
        target : Targets \cup {NoTarget}, json : MetricVals, arts : SUBSET Roles]

\* The runs table with its metrics_json column, the metrics and artifacts tables.
Tables == [runs : [RunIds -> Row \cup {NoRow}],
           metrics : [RunIds -> MetricVals],
           artifacts : [RunIds -> SUBSET Roles]]

Session == [pc : {"new", "body", "leaving"}, run : RunIds, spec : Specs,
            host : Hosts \cup {UnknownHost}, target : Targets \cup {NoTarget},
            arts : SUBSET Roles, claimed : SUBSET Roles,
            done : [status : Statuses, json : MetricVals] \cup {NotDone}]

Call == [cont : {"enter", "target", "complete", "exit"},
         step : {"begin", "runs", "metrics", "artifacts", "commit", "return"},
         row : Row]

\* None of the nulls is a value of what it stands for the absence of.
ASSUME NullsAssumption ==
    /\ UnknownHost \notin Hosts
    /\ NoTarget \notin Targets
    /\ NoMetrics \notin Metrics
    /\ NoRow \notin Row
    /\ Closed \notin Session
    /\ NoCall \notin Call
    /\ NotDone \notin [status : Statuses, json : MetricVals]

cur == sess[top]

\* The process is inside the innermost session's with-block: still executing it,
\* or "leaving" it because one of the session's own operations raised, which no
\* caller catches inside the block.
InBlock == top > 0 /\ call = NoCall /\ cur.pc \in {"body", "leaving"}
InBody == InBlock /\ cur.pc = "body" /\ exc = "none"

\* Nothing propagates and no call is in progress: the next statement runs.
Proceeding == call = NoCall /\ exc = "none"

OpenRuns == {sess[d].run : d \in 1..top}
-----------------------------------------------------------------------------
(* Opening a session: RunSession.__init__.  It reads the store and touches  *)
(* nothing durable, so a refusal leaves only the exception behind.          *)

Open(s) ==
    /\ sess' = [sess EXCEPT ![top + 1] = s]
    /\ top' = top + 1

\* A session can be opened by a command or by the with-block of a suite.
MayOpen == Proceeding /\ top < MaxDepth /\ (top > 0 => cur.pc = "body" /\ cur.done = NotDone)

\* uuid4 makes an identifier nobody used.
Fresh(r) == view.runs[r] = NoRow /\ disk.runs[r] = NoRow /\ r \notin cut \cup OpenRuns

\* A new run: fresh identifier, current host (unknown when the profile could not
\* be captured), no artifacts yet.
Construct(r, spec, host, tgt) ==
    /\ MayOpen
    /\ Fresh(r)
    /\ Open([pc |-> "new", run |-> r, spec |-> spec, host |-> host, target |-> tgt,
             arts |-> {}, claimed |-> {}, done |-> NotDone])
    /\ cut' = cut \ {r}
    /\ UNCHANGED <<store, files, call, exc>>

\* Mutant: the status of the stored run is not looked at.
ResumeAllowed_AnyStatus(row, spec, host, tgt, allow) ==
    /\ row # NoRow
    /\ row.spec = spec
    /\ \/ row.host # UnknownHost /\ host = row.host
       \/ row.host = UnknownHost /\ allow /\ host # UnknownHost
    /\ tgt = NoTarget \/ tgt = row.target

\* Mutant: the unverified-executor override also covers a known host.
ResumeAllowed_AllowOverrides(row, spec, host, tgt, allow) ==
    /\ row # NoRow
    /\ row.spec = spec
    /\ row.status \in {"failed", "running"}
    /\ allow \/ host = row.host
    /\ tgt = NoTarget \/ tgt = row.target

\* _validate_resume_state and _validate_resume_provenance.  `tgt` is the target
\* the caller supplies (NoTarget: none), `host` the host it runs on.
ResumeAllowed(row, spec, host, tgt, allow) ==
    /\ row # NoRow
    /\ row.spec = spec
    /\ row.status \in {"failed", "running"}
    /\ \/ row.host # UnknownHost /\ host = row.host
       \/ row.host = UnknownHost /\ allow /\ host # UnknownHost
    /\ tgt = NoTarget \/ tgt = row.target

\* Resuming keeps the stored target and artifacts; the host is the stored one,
\* or the current one when the stored one is unknown and recovery was allowed.
\* Only the dabstep command resumes, as the first session of its process.
Resume(r, spec, host, tgt, allow) ==
    /\ Proceeding /\ top = 0
    /\ ~intxn
    /\ LET row == view.runs[r] IN
       \/ /\ ResumeAllowed(row, spec, host, tgt, allow)
          /\ Open([pc |-> "new", run |-> r, spec |-> spec, host |-> host,
                   target |-> row.target, arts |-> view.artifacts[r],
                   claimed |-> {}, done |-> NotDone])
          /\ cut' = cut \ {r}
          /\ UNCHANGED exc
       \/ /\ ~ResumeAllowed(row, spec, host, tgt, allow)
          /\ exc' = "error"
          /\ UNCHANGED <<sess, top, cut>>
    /\ UNCHANGED <<store, files, call>>

-----------------------------------------------------------------------------
(* RunSession._record and ResultStore.record_run.                            *)

\* Mutant: only the artifacts this session claimed are recorded.
BeginRecord_ClaimedOnly(s, cont, status, m) ==
    call' = [cont |-> cont, step |-> "begin",
             row |-> [status |-> status, spec |-> s.spec, host |-> s.host,
                      target |-> s.target, json |-> m,
                      arts |-> {a \in s.claimed : <<s.run, a>> \in files}]]

\* _record: the row and the artifacts whose file exists are computed before the
\* first statement runs.
BeginRecord(s, cont, status, m) ==
    call' = [cont |-> cont, step |-> "begin",
             row |-> [status |-> status, spec |-> s.spec, host |-> s.host,
                      target |-> s.target, json |-> m,
                      arts |-> {a \in s.arts : <<s.run, a>> \in files}]]

\* The with statement of the innermost session is over.
Pop == /\ sess' = [sess EXCEPT ![top] = Closed]
       /\ top' = top - 1

Leave == sess' = [sess EXCEPT ![top].pc = "leaving"]

\* record_run raised.  __enter__ raising means __exit__ never runs; __exit__
\* raising replaces the exception it was handling.
Unwind(kind) ==
    /\ call' = NoCall
    /\ exc' = kind
    /\ IF call.cont \in {"enter", "exit"}
       THEN Pop /\ cut' = cut \cup {cur.run}
       ELSE Leave /\ UNCHANGED <<top, cut>>

\* Mutant: no transaction, every statement commits on its own.
Begin_Autocommit ==
    /\ call # NoCall /\ call.step = "begin"
    /\ call' = [call EXCEPT !.step = "runs"]
    /\ UNCHANGED <<store, files, sess, top, exc, cut>>

\* BEGIN TRANSACTION stands before the try: with a transaction left open it
\* raises and nothing is rolled back.
Begin ==
    /\ call # NoCall /\ call.step = "begin"
    /\ \/ /\ ~intxn
          /\ intxn' = TRUE
          /\ call' = [call EXCEPT !.step = "runs"]
          /\ UNCHANGED <<sess, top, exc, cut>>
       \/ /\ intxn
          /\ Unwind("error")
          /\ UNCHANGED intxn
    /\ UNCHANGED <<disk, view, files>>

\* One statement: visible to the connection, durable only outside a transaction.
Execute(tables) ==
    /\ view' = tables
    /\ disk' = IF intxn THEN disk ELSE tables

\* INSERT OR REPLACE INTO runs
WriteRun ==
    /\ call # NoCall /\ call.step = "runs"
    /\ Execute([view EXCEPT !.runs[cur.run] = call.row])
    /\ call' = [call EXCEPT !.step = "metrics"]
    /\ UNCHANGED <<intxn, files, sess, top, exc, cut>>

\* DELETE FROM metrics, then the new rows
WriteMetrics ==
    /\ call # NoCall /\ call.step = "metrics"
    /\ Execute([view EXCEPT !.metrics[cur.run] = call.row.json])
    /\ call' = [call EXCEPT !.step = "artifacts"]
    /\ UNCHANGED <<intxn, files, sess, top, exc, cut>>

\* DELETE FROM artifacts, then the new rows
WriteArtifacts ==
    /\ call # NoCall /\ call.step = "artifacts"
    /\ Execute([view EXCEPT !.artifacts[cur.run] = call.row.arts])
    /\ call' = [call EXCEPT !.step = "commit"]
    /\ UNCHANGED <<intxn, files, sess, top, exc, cut>>

Commit ==
    /\ call # NoCall /\ call.step = "commit"
    /\ disk' = view
    /\ intxn' = FALSE
    /\ call' = [call EXCEPT !.step = "return"]
    /\ UNCHANGED <<view, files, sess, top, exc, cut>>

\* A statement raised an Exception: ROLLBACK and re-raise.
StatementFails ==
    /\ "store" \in Faults
    /\ call # NoCall /\ call.step \in {"runs", "metrics", "artifacts", "commit"}
    /\ view' = disk
    /\ intxn' = FALSE
    /\ Unwind("error")
    /\ UNCHANGED <<disk, files>>

\* KeyboardInterrupt between two statements of the call: `except Exception` does
\* not see it, so an open transaction stays open.
InterruptCall ==
    /\ "interrupt" \in Faults
    /\ call # NoCall
    /\ Unwind("interrupt")
    /\ UNCHANGED <<store, files>>

\* record_run returned: __enter__ enters the block, complete() remembers the
\* outcome, __exit__ ends the block and lets a pending exception go on.
Return ==
    /\ call # NoCall /\ call.step = "return"
    /\ call' = NoCall
    /\ \/ /\ call.cont = "enter"
          /\ sess' = [sess EXCEPT ![top].pc = "body"]
          /\ UNCHANGED top
       \/ /\ call.cont = "target"
          /\ UNCHANGED <<sess, top>>
       \/ /\ call.cont = "complete"
          /\ sess' = [sess EXCEPT ![top].done =
                         [status |-> call.row.status, json |-> call.row.json]]
          /\ UNCHANGED top
       \/ /\ call.cont = "exit"
          /\ Pop
    /\ UNCHANGED <<store, files, exc, cut>>

-----------------------------------------------------------------------------
(* What the code inside a with-block does with its session.                  *)

\* __enter__ on the session just constructed.
Enter ==
    /\ Proceeding /\ top > 0 /\ cur.pc = "new"
    /\ BeginRecord(cur, "enter", "running", NoMetrics)
    /\ UNCHANGED <<store, files, sess, top, exc, cut>>

\* artifact(): a role can be claimed once per session; the file is created, and
\* a role known from a resumed run keeps its registration.  Also runs in the
\* finally-blocks of a failing body.
ClaimArtifact(role) ==
    /\ InBlock
    /\ \/ /\ role \notin cur.claimed
          /\ sess' = [sess EXCEPT ![top].claimed = @ \cup {role}, ![top].arts = @ \cup {role}]
          /\ files' = files \cup {<<cur.run, role>>}
          /\ UNCHANGED exc
       \/ /\ role \in cur.claimed
          /\ exc' = "error"
          /\ Leave
          /\ UNCHANGED files
    /\ UNCHANGED <<store, top, call, cut>>

\* set_target_json(): refused once the run has completed, else recorded.
SetTarget(tgt) ==
    /\ InBody
    /\ \/ /\ cur.done = NotDone
          /\ sess' = [sess EXCEPT ![top].target = tgt]
          /\ BeginRecord([cur EXCEPT !.target = tgt], "target", "running", NoMetrics)
          /\ UNCHANGED exc
       \/ /\ cur.done # NotDone
          /\ exc' = "error"
          /\ Leave
          /\ UNCHANGED call
    /\ UNCHANGED <<store, files, top, cut>>

\* Mutant: the outcome is remembered before it is recorded.
Complete_RemembersFirst(status, m) ==
    /\ InBody /\ cur.done = NotDone
    /\ BeginRecord(cur, "complete", status, m)
    /\ sess' = [sess EXCEPT ![top].done = [status |-> status, json |-> m]]
    /\ UNCHANGED <<store, files, top, exc, cut>>

\* complete(): refused once the run has completed, else recorded.
Complete(status, m) ==
    /\ InBody
    /\ \/ /\ cur.done = NotDone
          /\ BeginRecord(cur, "complete", status, m)
          /\ UNCHANGED <<sess, exc>>
       \/ /\ cur.done # NotDone
          /\ exc' = "error"
          /\ Leave
          /\ UNCHANGED call
    /\ UNCHANGED <<store, files, top, cut>>

\* The benchmark inside the block raises, or Ctrl-C arrives there.
BodyRaises(kind) ==
    /\ InBody
    /\ kind = "interrupt" => "interrupt" \in Faults
    /\ exc' = kind
    /\ UNCHANGED <<store, files, sess, top, call, cut>>

\* A suite catches a child's Exception (never a KeyboardInterrupt) and goes on
\* to its own completion; a sweep with --keep-going goes on to its next trial.
HandleError ==
    /\ call = NoCall /\ exc = "error"
    /\ top > 0 => cur.pc = "body" /\ cur.done = NotDone
    /\ exc' = "none"
    /\ UNCHANGED <<store, files, sess, top, call, cut>>

\* Mutant: an exception leaves the block without a record.
Exit_SkipsFailures ==
    /\ InBlock
    /\ \/ /\ cur.done # NotDone \/ exc # "none"
          /\ Pop
          /\ UNCHANGED call
       \/ /\ cur.done = NotDone /\ exc = "none"
          /\ BeginRecord(cur, "exit", "ok", NoMetrics)
          /\ UNCHANGED <<sess, top>>
    /\ UNCHANGED <<store, files, exc, cut>>

\* __exit__: nothing to do for a completed run, else complete() as ok, or as
\* failed when an exception is propagating.
Exit ==
    /\ InBlock
    /\ \/ /\ cur.done # NotDone
          /\ Pop
          /\ UNCHANGED call
       \/ /\ cur.done = NotDone
          /\ BeginRecord(cur, "exit", IF exc = "none" THEN "ok" ELSE "failed", NoMetrics)
          /\ UNCHANGED <<sess, top>>
    /\ UNCHANGED <<store, files, exc, cut>>

-----------------------------------------------------------------------------
(* The process and its surroundings.                                         *)

\* The command ends; closing the connection rolls back an open transaction.
ExitProcess ==
    /\ call = NoCall /\ top = 0
    /\ view' = disk
    /\ intxn' = FALSE
    /\ exc' = "none"
    /\ UNCHANGED <<disk, files, sess, top, call, cut>>

\* The process is killed: only the committed tables and the files remain.
Crash ==
    /\ "crash" \in Faults
    /\ view' = disk
    /\ intxn' = FALSE
    /\ sess' = [d \in 1..MaxDepth |-> Closed]
    /\ top' = 0
    /\ call' = NoCall
    /\ exc' = "none"
    /\ cut' = cut \cup OpenRuns
    /\ UNCHANGED <<disk, files>>

\* Between commands somebody removes an artifact file.
LoseFile(f) ==
    /\ top = 0
    /\ files' = files \ {f}
    /\ UNCHANGED <<store, sess, top, call, exc, cut>>

\* The reparse command: update_run_metrics on a run that has artifacts.  Its
\* transaction ends with the process whatever interrupts it, so it is one step.
UpdateRunMetrics(r, m) ==
    /\ Proceeding /\ top = 0 /\ ~intxn
    /\ disk.runs[r] # NoRow /\ disk.artifacts[r] # {}
    /\ disk' = [disk EXCEPT !.runs[r].json = m, !.metrics[r] = m]
    /\ view' = disk'
    /\ UNCHANGED <<intxn, files, sess, top, call, exc, cut>>

Init ==
    /\ disk = [runs |-> [r \in RunIds |-> NoRow],
               metrics |-> [r \in RunIds |-> NoMetrics],
               artifacts |-> [r \in RunIds |-> {}]]
    /\ view = disk
    /\ intxn = FALSE
    /\ files = {}
    /\ sess = [d \in 1..MaxDepth |-> Closed]
    /\ top = 0
    /\ call = NoCall
    /\ exc = "none"
    /\ cut = {}

RecordRun == Begin \/ WriteRun \/ WriteMetrics \/ WriteArtifacts \/ Commit
             \/ StatementFails \/ InterruptCall \/ Return

Next ==
    \/ \E r \in RunIds, spec \in Specs, host \in Hosts \cup {UnknownHost},
          tgt \in Targets \cup {NoTarget} :
          \/ Construct(r, spec, host, tgt)
          \/ \E allow \in BOOLEAN : Resume(r, spec, host, tgt, allow)
    \/ Enter
    \/ \E role \in Roles : ClaimArtifact(role)
    \/ \E tgt \in Targets : SetTarget(tgt)
    \/ \E status \in {"ok", "failed"}, m \in MetricVals : Complete(status, m)
    \/ \E kind \in {"error", "interrupt"} : BodyRaises(kind)
    \/ HandleError
    \/ Exit
    \/ RecordRun
    \/ ExitProcess
    \/ Crash
    \/ \E f \in files : LoseFile(f)
    \/ \E r \in RunIds, m \in MetricVals : UpdateRunMetrics(r, m)

Spec == Init /\ [][Next]_vars

-----------------------------------------------------------------------------
TypeOK ==
    /\ disk \in Tables
    /\ view \in Tables
    /\ intxn \in BOOLEAN
    /\ files \subseteq RunIds \X Roles
    /\ sess \in [1..MaxDepth -> Session \cup {Closed}]
    /\ top \in 0..MaxDepth
    /\ \A d \in 1..MaxDepth : sess[d] = Closed <=> d > top
    /\ call \in Call \cup {NoCall}
    /\ call # NoCall => top > 0
    /\ exc \in {"none", "error", "interrupt"}
    /\ cut \subseteq RunIds

\* A row, its metrics and its artifacts are replaced together: whatever instant the
\* process dies at, or a statement fails or is interrupted, the three committed
\* tables hold of a run what one record_run call wrote (a reparse rewrites metrics
\* and row, and no artifacts), and nothing of a run without a row.
TablesAgree ==
    \A r \in RunIds :
        IF disk.runs[r] = NoRow
        THEN disk.metrics[r] = NoMetrics /\ disk.artifacts[r] = {}
        ELSE /\ disk.metrics[r] = disk.runs[r].json
             /\ disk.artifacts[r] = disk.runs[r].arts

\* A run left in status "running" is still being executed, or its session was
\* cut off before it could record an outcome: no return, exception or nested
\* failure lets a finished session leave its row running.
RunningIsOpenOrCut ==
    \A r \in RunIds :
        disk.runs[r] # NoRow /\ disk.runs[r].status = "running" => r \in OpenRuns \cup cut

\* The outcome a session returns to its caller is the one that is committed,
\* whatever happens in the process until the session is gone.
CompletedIsDurable ==
    \A d \in 1..top :
        sess[d].done # NotDone =>
            LET row == disk.runs[sess[d].run] IN
            row # NoRow /\ row.status = sess[d].done.status /\ row.json = sess[d].done.json

\* A committed artifact is forgotten only if its file is gone: resuming, failing
\* and recording again keep every registration a reparse could need.
ArtifactsKept ==
    [][\A r \in RunIds : \A a \in disk.artifacts[r] :
          a \notin disk'.artifacts[r] => <<r, a>> \notin files]_vars

\* Recording again never changes what run a row is: its specification stays,
\* and a known executor host stays.
ProvenanceFixed ==
    [][\A r \in RunIds : disk.runs[r] # NoRow =>
          /\ disk'.runs[r] # NoRow
          /\ disk'.runs[r].spec = disk.runs[r].spec
          /\ disk.runs[r].host # UnknownHost => disk'.runs[r].host = disk.runs[r].host]_vars

\* The committed statuses go through the transitions RunLifecycle allows.
Lifecycle == INSTANCE RunLifecycle WITH
    status <- [r \in RunIds |-> IF disk.runs[r] = NoRow THEN "absent" ELSE disk.runs[r].status],
    Interruptible <- "interrupt" \in Faults

LifecycleSpec == Lifecycle!Spec

\* docs/architecture.md: unexpected exceptions and interruptions are recorded as
\* failed runs rather than disappearing.  A command that ends with an error while
\* the transaction of an interrupted record is still open leaves no run running.
InterruptedRunsAreRecorded ==
    top = 0 /\ call = NoCall /\ exc = "error" /\ intxn =>
        \A r \in RunIds : disk.runs[r] # NoRow => disk.runs[r].status # "running"
=============================================================================
