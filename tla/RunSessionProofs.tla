-------------------------- MODULE RunSessionProofs --------------------------
(***************************************************************************)
(* RunSession keeps its safety properties and implements RunLifecycle for  *)
(* any runs, nesting, specifications, hosts, targets, artifacts and        *)
(* faults.                                                                 *)
(***************************************************************************)
EXTENDS RunSession, TLAPS

Outcomes == {"ok", "failed"}

\* No two open sessions are of the same run; all but the innermost are in the
\* middle of their blocks; and a session that remembers something was entered, and
\* remembers an outcome.
StackInv ==
    /\ \A d, e \in 1..top : sess[d].run = sess[e].run => d = e
    /\ \A d \in 1..top : d < top => sess[d].pc = "body" /\ sess[d].done = NotDone
    /\ \A d \in 1..top : sess[d].done # NotDone =>
          sess[d].pc # "new" /\ sess[d].done.status \in Outcomes

\* A record_run call is of a session that remembers no outcome, and records the
\* status that the operation that makes the call decides on.
CallInv ==
    call # NoCall =>
        /\ cur.done = NotDone
        /\ call.cont = "enter" <=> cur.pc = "new"
        /\ call.cont \in {"target", "complete"} => cur.pc = "body"
        /\ call.row.status = "running" <=> call.cont \in {"enter", "target"}
        /\ cur.pc = "leaving" => call.row.status = "failed"

\* A session leaves its block early only while an exception propagates.
LeavingInv == top > 0 /\ cur.pc = "leaving" /\ call = NoCall => exc # "none"

\* The connection sees what is committed, with the rows the current call has
\* written so far.
TxnInv ==
    /\ ~intxn => view = disk
    /\ call # NoCall =>
          LET r == cur.run IN
          /\ call.step \in {"runs", "metrics", "artifacts", "commit"} => intxn
          /\ call.step = "runs" => view = disk
          /\ call.step = "metrics" => view = [disk EXCEPT !.runs[r] = call.row]
          /\ call.step = "artifacts" =>
                view = [disk EXCEPT !.runs[r] = call.row, !.metrics[r] = call.row.json]
          /\ call.step = "commit" =>
                view = [disk EXCEPT !.runs[r] = call.row, !.metrics[r] = call.row.json,
                                    !.artifacts[r] = call.row.arts]
          /\ call.step = "return" => ~intxn /\ disk.runs[r] = call.row

Returning == call # NoCall /\ call.step = "return"

\* The committed status of an open session's run.
StatusOf(d) ==
    LET s == sess[d] IN
    /\ s.pc = "new" =>
          disk.runs[s.run] = NoRow \/ disk.runs[s.run].status \in {"failed", "running"}
    /\ s.pc # "new" => disk.runs[s.run] # NoRow
    /\ s.pc # "new" /\ s.done = NotDone /\ ~(d = top /\ Returning) =>
          \/ disk.runs[s.run].status = "running"
          \/ s.pc = "leaving" /\ "interrupt" \in Faults

StatusInv == \A d \in 1..top : StatusOf(d)

SessionInv ==
    /\ TypeOK
    /\ StackInv
    /\ CallInv
    /\ LeavingInv
    /\ TxnInv
    /\ StatusInv
    /\ TablesAgree
    /\ RunningIsOpenOrCut
    /\ CompletedIsDurable

-----------------------------------------------------------------------------
(* Types.                                                                    *)

\* The innermost session is one, and stays one when a field changes in its type.
LEMMA CurIsSession ==
    ASSUME TypeOK, top > 0
    PROVE  /\ top \in 1..MaxDepth
           /\ cur \in Session
           /\ cur # Closed
BY MaxDepthAssumption DEF TypeOK, cur

\* The part of TypeOK about the stack.
StackTyped ==
    /\ sess \in [1..MaxDepth -> Session \cup {Closed}]
    /\ top \in 0..MaxDepth
    /\ \A d \in 1..MaxDepth : sess[d] = Closed <=> d > top

LEMMA PopTyped == ASSUME TypeOK, top > 0, Pop PROVE StackTyped' /\ top' = top - 1
<1>1. top \in 1..MaxDepth
  BY CurIsSession
<1> QED
  BY <1>1, MaxDepthAssumption DEF TypeOK, StackTyped, Pop

LEMMA OpenTyped ==
    ASSUME TypeOK, NEW s \in Session, top < MaxDepth, Open(s)
    PROVE  StackTyped' /\ top' = top + 1
<1>1. top + 1 \in 1..MaxDepth /\ s # Closed
  BY MaxDepthAssumption, NullsAssumption DEF TypeOK
<1> QED
  BY <1>1, MaxDepthAssumption DEF TypeOK, StackTyped, Open

\* Any change of the innermost session that leaves it a session.
LEMMA UpdateTyped ==
    ASSUME TypeOK, top > 0, NEW s \in Session, sess' = [sess EXCEPT ![top] = s],
           UNCHANGED top
    PROVE  StackTyped'
<1>1. top \in 1..MaxDepth /\ s # Closed
  BY CurIsSession, NullsAssumption
<1> QED
  BY <1>1, MaxDepthAssumption DEF TypeOK, StackTyped

LEMMA LeaveTyped == ASSUME TypeOK, top > 0, Leave, UNCHANGED top PROVE StackTyped'
<1> DEFINE s == [cur EXCEPT !.pc = "leaving"]
<1>1. s \in Session
  BY CurIsSession DEF Session
<1>2. sess' = [sess EXCEPT ![top] = s]
  BY DEF Leave, cur
<1> QED
  BY <1>1, <1>2, UpdateTyped

LEMMA UnwindTyped ==
    ASSUME TypeOK, call # NoCall, NEW kind \in {"error", "interrupt"}, Unwind(kind)
    PROVE  StackTyped' /\ call' = NoCall /\ exc' = kind /\ cut' \subseteq RunIds
<1>1. top > 0 /\ cur.run \in RunIds
  BY CurIsSession DEF TypeOK, Session
<1> QED
  BY <1>1, PopTyped, LeaveTyped DEF Unwind, TypeOK

\* What _record writes down is of the right types.
LEMMA RecordTyped ==
    ASSUME NEW STATE s, s \in Session, NEW cont \in {"enter", "target", "complete", "exit"},
           NEW status \in Statuses, NEW m \in MetricVals, BeginRecord(s, cont, status, m)
    PROVE  /\ call' \in Call /\ call' # NoCall
           /\ call'.cont = cont /\ call'.step = "begin" /\ call'.row.status = status
<1> DEFINE row == [status |-> status, spec |-> s.spec, host |-> s.host,
                   target |-> s.target, json |-> m,
                   arts |-> {a \in s.arts : <<s.run, a>> \in files}]
<1>1. {a \in s.arts : <<s.run, a>> \in files} \in SUBSET Roles
  BY DEF Session
<1>2. row \in Row
  BY <1>1 DEF Session, Row
<1>3. call' = [cont |-> cont, step |-> "begin", row |-> row]
  BY DEF BeginRecord
<1>4. row.status = status
  OBVIOUS
<1> HIDE DEF row
<1>5. call' \in Call
  BY <1>2, <1>3 DEF Call
<1> QED
  BY <1>3, <1>4, <1>5, NullsAssumption

LEMMA InitTyped == Init => TypeOK
<1> SUFFICES ASSUME Init PROVE TypeOK
  OBVIOUS
<1>1. disk \in Tables /\ view \in Tables
  BY DEF Init, Tables, MetricVals
<1>2. sess \in [1..MaxDepth -> Session \cup {Closed}] /\ top \in 0..MaxDepth
  BY MaxDepthAssumption DEF Init
<1>3. \A d \in 1..MaxDepth : sess[d] = Closed <=> d > top
  BY DEF Init
<1> QED
  BY <1>1, <1>2, <1>3 DEF Init, TypeOK

\* One statement of record_run writes well-typed rows.
LEMMA WriteTyped ==
    ASSUME TypeOK, call # NoCall, WriteRun \/ WriteMetrics \/ WriteArtifacts
    PROVE  TypeOK'
<1>1. /\ cur.run \in RunIds
      /\ call.row \in Row /\ call.row.json \in MetricVals /\ call.row.arts \subseteq Roles
  <2>1. top > 0 /\ call \in Call
    BY DEF TypeOK
  <2>2. cur.run \in RunIds
    BY <2>1, CurIsSession DEF Session
  <2>3. call.row \in Row /\ call.row.arts \subseteq Roles
    BY <2>1 DEF Call, Row
  <2> QED
    BY <2>2, <2>3 DEF Row
<1>2. ASSUME NEW tables \in Tables, Execute(tables)
      PROVE  view' \in Tables /\ disk' \in Tables
  BY <1>2 DEF Execute, TypeOK
<1>3. CASE WriteRun
  <2>1. [view EXCEPT !.runs[cur.run] = call.row] \in Tables
    BY <1>1 DEF TypeOK, Tables
  <2>2. call' \in Call
    BY <1>3 DEF WriteRun, TypeOK, Call
  <2> QED
    BY <1>2, <1>3, <2>1, <2>2 DEF WriteRun, TypeOK
<1>4. CASE WriteMetrics
  <2>1. [view EXCEPT !.metrics[cur.run] = call.row.json] \in Tables
    BY <1>1 DEF TypeOK, Tables
  <2>2. call' \in Call
    BY <1>4 DEF WriteMetrics, TypeOK, Call
  <2> QED
    BY <1>2, <1>4, <2>1, <2>2 DEF WriteMetrics, TypeOK
<1>5. CASE WriteArtifacts
  <2>1. [view EXCEPT !.artifacts[cur.run] = call.row.arts] \in Tables
    BY <1>1 DEF TypeOK, Tables
  <2>2. call' \in Call
    BY <1>5 DEF WriteArtifacts, TypeOK, Call
  <2> QED
    BY <1>2, <1>5, <2>1, <2>2 DEF WriteArtifacts, TypeOK
<1> QED
  BY <1>3, <1>4, <1>5

\* The other steps of record_run.
LEMMA RecordRunTyped == ASSUME TypeOK, RecordRun PROVE TypeOK'
<1>1. call # NoCall /\ call \in Call /\ top > 0
  BY DEF RecordRun, Begin, WriteRun, WriteMetrics, WriteArtifacts, Commit, StatementFails,
         InterruptCall, Return, TypeOK
<1>2. CASE WriteRun \/ WriteMetrics \/ WriteArtifacts
  BY <1>1, <1>2, WriteTyped
<1>3. CASE Begin
  <2>1. CASE ~intxn /\ intxn' = TRUE /\ call' = [call EXCEPT !.step = "runs"]
             /\ UNCHANGED <<sess, top, exc, cut>>
    <3>1. call' \in Call
      BY <1>1, <2>1 DEF Call
    <3> QED
      BY <1>1, <1>3, <2>1, <3>1 DEF Begin, TypeOK
  <2>2. CASE Unwind("error") /\ UNCHANGED intxn
    BY <1>1, <1>3, <2>2, UnwindTyped DEF Begin, TypeOK, StackTyped
  <2> QED
    BY <1>3, <2>1, <2>2 DEF Begin
<1>4. CASE Commit
  <2>1. call' \in Call
    BY <1>1, <1>4 DEF Commit, Call
  <2> QED
    BY <1>1, <1>4, <2>1 DEF Commit, TypeOK
<1>5. CASE StatementFails
  BY <1>1, <1>5, UnwindTyped DEF StatementFails, TypeOK, StackTyped
<1>6. CASE InterruptCall
  BY <1>1, <1>6, UnwindTyped DEF InterruptCall, TypeOK, StackTyped, store
<1>7. CASE Return
  <2>1. StackTyped'
    <3>1. CASE sess' = [sess EXCEPT ![top].pc = "body"] /\ UNCHANGED top
      <4>1. [cur EXCEPT !.pc = "body"] \in Session
        BY <1>1, CurIsSession DEF Session
      <4> QED
        BY <1>1, <3>1, <4>1, UpdateTyped DEF cur
    <3>2. CASE UNCHANGED <<sess, top>>
      BY <3>2 DEF TypeOK, StackTyped
    <3>3. CASE /\ sess' = [sess EXCEPT ![top].done = [status |-> call.row.status,
                                                      json |-> call.row.json]]
               /\ UNCHANGED top
      <4>1. [cur EXCEPT !.done = [status |-> call.row.status, json |-> call.row.json]] \in Session
        BY <1>1, CurIsSession DEF Session, Call, Row
      <4> QED
        BY <1>1, <3>3, <4>1, UpdateTyped DEF cur
    <3>4. CASE Pop
      BY <1>1, <3>4, PopTyped
    <3> QED
      BY <1>7, <3>1, <3>2, <3>3, <3>4 DEF Return
  <2> QED
    BY <1>7, <2>1 DEF Return, TypeOK, StackTyped, store
<1> QED
  BY <1>2, <1>3, <1>4, <1>5, <1>6, <1>7 DEF RecordRun

\* A stored row keeps its type when its metrics are replaced.
LEMMA MetricsTyped ==
    ASSUME TypeOK, NEW r \in RunIds, NEW m \in MetricVals, disk.runs[r] # NoRow
    PROVE  [disk EXCEPT !.runs[r].json = m, !.metrics[r] = m] \in Tables
<1>1. disk.runs[r] \in Row
  BY DEF TypeOK, Tables
<1>2. [disk.runs[r] EXCEPT !.json = m] \in Row
  BY <1>1 DEF Row
<1> QED
  BY <1>2 DEF TypeOK, Tables

\* The steps outside record_run.
LEMMA SessionStepsTyped == ASSUME TypeOK, Next, ~RecordRun PROVE TypeOK'
<1>1. ASSUME NEW r \in RunIds, NEW spec \in Specs, NEW host \in Hosts \cup {UnknownHost},
             NEW tgt \in Targets \cup {NoTarget}, Construct(r, spec, host, tgt)
      PROVE  TypeOK'
  <2> DEFINE s == [pc |-> "new", run |-> r, spec |-> spec, host |-> host, target |-> tgt,
                   arts |-> {}, claimed |-> {}, done |-> NotDone]
  <2>1. s \in Session
    BY DEF Session
  <2>2. StackTyped' /\ top' = top + 1
    BY <1>1, <2>1, OpenTyped DEF Construct, MayOpen
  <2> QED
    BY <1>1, <2>2 DEF Construct, MayOpen, Proceeding, TypeOK, StackTyped, store
<1>2. ASSUME NEW r \in RunIds, NEW spec \in Specs, NEW host \in Hosts \cup {UnknownHost},
             NEW tgt \in Targets \cup {NoTarget}, NEW allow \in BOOLEAN,
             Resume(r, spec, host, tgt, allow)
      PROVE  TypeOK'
  <2> DEFINE row == view.runs[r]
             s == [pc |-> "new", run |-> r, spec |-> spec, host |-> host,
                   target |-> row.target, arts |-> view.artifacts[r],
                   claimed |-> {}, done |-> NotDone]
  <2>1. CASE /\ ResumeAllowed(row, spec, host, tgt, allow) /\ Open(s)
             /\ cut' = cut \ {r} /\ UNCHANGED exc
    <3>1. row \in Row
      BY <2>1 DEF ResumeAllowed, TypeOK, Tables
    <3>2. row.target \in Targets \cup {NoTarget} /\ view.artifacts[r] \subseteq Roles
      BY <3>1 DEF Row, TypeOK, Tables
    <3>3. s \in Session
      BY <3>2 DEF Session
    <3>4. StackTyped' /\ top' = top + 1
      <4>1. top < MaxDepth
        BY <1>2, MaxDepthAssumption DEF Resume
      <4> QED
        BY <2>1, <3>3, <4>1, OpenTyped
    <3> QED
      BY <1>2, <2>1, <3>4 DEF Resume, Proceeding, TypeOK, StackTyped, store
  <2>2. CASE exc' = "error" /\ UNCHANGED <<sess, top, cut>>
    BY <1>2, <2>2 DEF Resume, TypeOK, store
  <2> QED
    BY <1>2, <2>1, <2>2 DEF Resume
<1>3. CASE Enter
  <2>1. call' \in Call /\ call' # NoCall
    BY <1>3, CurIsSession, RecordTyped DEF Enter, Statuses, MetricVals
  <2> QED
    BY <1>3, <2>1 DEF Enter, TypeOK, store
<1>4. ASSUME NEW role \in Roles, ClaimArtifact(role) PROVE TypeOK'
  <2>1. cur \in Session /\ top > 0
    BY <1>4, CurIsSession DEF ClaimArtifact, InBlock
  <2>2. CASE /\ sess' = [sess EXCEPT ![top].claimed = @ \cup {role},
                                     ![top].arts = @ \cup {role}]
             /\ files' = files \cup {<<cur.run, role>>} /\ UNCHANGED exc
    <3> DEFINE s == [cur EXCEPT !.claimed = @ \cup {role}, !.arts = @ \cup {role}]
    <3>1. s \in Session
      BY <2>1 DEF Session
    <3>2. sess' = [sess EXCEPT ![top] = s]
      BY <2>1, <2>2, CurIsSession DEF cur, TypeOK
    <3>3. StackTyped'
      BY <1>4, <2>1, <3>1, <3>2, UpdateTyped DEF ClaimArtifact
    <3>4. files' \subseteq RunIds \X Roles
      BY <2>1, <2>2 DEF TypeOK, Session
    <3> QED
      BY <1>4, <2>2, <3>3, <3>4 DEF ClaimArtifact, InBlock, TypeOK, StackTyped, store
  <2>3. CASE exc' = "error" /\ Leave /\ UNCHANGED files
    BY <1>4, <2>1, <2>3, LeaveTyped DEF ClaimArtifact, InBlock, TypeOK, StackTyped, store
  <2> QED
    BY <1>4, <2>2, <2>3 DEF ClaimArtifact
<1>5. ASSUME NEW tgt \in Targets, SetTarget(tgt) PROVE TypeOK'
  <2>1. cur \in Session /\ top > 0
    BY <1>5, CurIsSession DEF SetTarget, InBody, InBlock
  <2>2. CASE /\ sess' = [sess EXCEPT ![top].target = tgt]
             /\ BeginRecord([cur EXCEPT !.target = tgt], "target", "running", NoMetrics)
             /\ UNCHANGED exc
    <3>1. [cur EXCEPT !.target = tgt] \in Session
      BY <2>1 DEF Session
    <3>2. StackTyped'
      BY <1>5, <2>1, <2>2, <3>1, UpdateTyped DEF SetTarget, cur
    <3>3. call' \in Call
      BY <2>2, <3>1, RecordTyped DEF Statuses, MetricVals
    <3> QED
      BY <1>5, <2>1, <2>2, <3>2, <3>3 DEF SetTarget, TypeOK, StackTyped, store
  <2>3. CASE exc' = "error" /\ Leave /\ UNCHANGED call
    BY <1>5, <2>1, <2>3, LeaveTyped DEF SetTarget, TypeOK, StackTyped, store
  <2> QED
    BY <1>5, <2>2, <2>3 DEF SetTarget
<1>6. ASSUME NEW status \in {"ok", "failed"}, NEW m \in MetricVals, Complete(status, m)
      PROVE  TypeOK'
  <2>1. cur \in Session /\ top > 0
    BY <1>6, CurIsSession DEF Complete, InBody, InBlock
  <2>2. CASE BeginRecord(cur, "complete", status, m) /\ UNCHANGED <<sess, exc>>
    <3>1. call' \in Call
      BY <2>1, <2>2, RecordTyped DEF Statuses
    <3> QED
      BY <1>6, <2>1, <2>2, <3>1 DEF Complete, TypeOK, store
  <2>3. CASE exc' = "error" /\ Leave /\ UNCHANGED call
    BY <1>6, <2>1, <2>3, LeaveTyped DEF Complete, TypeOK, StackTyped, store
  <2> QED
    BY <1>6, <2>2, <2>3 DEF Complete
<1>7. CASE Exit
  <2>1. cur \in Session /\ top > 0
    BY <1>7, CurIsSession DEF Exit, InBlock
  <2>2. CASE Pop /\ UNCHANGED call
    BY <1>7, <2>1, <2>2, PopTyped DEF Exit, InBlock, TypeOK, StackTyped, store
  <2>3. CASE /\ BeginRecord(cur, "exit", IF exc = "none" THEN "ok" ELSE "failed", NoMetrics)
             /\ UNCHANGED <<sess, top>>
    <3>1. call' \in Call
      <4>1. (IF exc = "none" THEN "ok" ELSE "failed") \in Statuses /\ NoMetrics \in MetricVals
        BY DEF Statuses, MetricVals
      <4> QED
        BY <2>1, <2>3, <4>1, RecordTyped
    <3> QED
      BY <1>7, <2>1, <2>3, <3>1 DEF Exit, TypeOK, store
  <2> QED
    BY <1>7, <2>2, <2>3 DEF Exit
<1>8. ASSUME NEW r \in RunIds, NEW m \in MetricVals, UpdateRunMetrics(r, m) PROVE TypeOK'
  BY <1>8, MetricsTyped DEF UpdateRunMetrics, TypeOK
<1>9. CASE Crash
  <2>1. ASSUME NEW d \in 1..top
        PROVE  sess[d].run \in RunIds
    <3>1. d \in 1..MaxDepth /\ sess[d] \in Session
      BY MaxDepthAssumption DEF TypeOK
    <3> QED
      BY <3>1 DEF Session
  <2>2. OpenRuns \subseteq RunIds
    BY <2>1 DEF OpenRuns
  <2>3. sess' \in [1..MaxDepth -> Session \cup {Closed}] /\ top' \in 0..MaxDepth
    BY <1>9, MaxDepthAssumption DEF Crash
  <2>4. \A d \in 1..MaxDepth : sess'[d] = Closed <=> d > top'
    BY <1>9 DEF Crash
  <2>5. cut' \subseteq RunIds
    BY <1>9, <2>2 DEF Crash, TypeOK
  <2> QED
    BY <1>9, <2>3, <2>4, <2>5, MaxDepthAssumption DEF Crash, TypeOK
<1>10. CASE HandleError \/ ExitProcess \/ \E kind \in {"error", "interrupt"} : BodyRaises(kind)
  BY <1>10 DEF HandleError, ExitProcess, BodyRaises, TypeOK, store
<1>11. ASSUME NEW f \in files, LoseFile(f) PROVE TypeOK'
  BY <1>11 DEF LoseFile, TypeOK, store
<1> QED
  BY <1>1, <1>2, <1>3, <1>4, <1>5, <1>6, <1>7, <1>8, <1>9, <1>10, <1>11 DEF Next

\* Every step keeps the types.
LEMMA NextTyped == TypeOK /\ [Next]_vars => TypeOK'
<1>1. CASE UNCHANGED vars
  BY <1>1 DEF vars, store, TypeOK
<1> QED
  BY <1>1, RecordRunTyped, SessionStepsTyped

\* The variables keep their types, whatever is opened, interrupted or lost.
THEOREM RunSessionTypeCorrect == Spec => []TypeOK
BY InitTyped, NextTyped, PTL DEF Spec

-----------------------------------------------------------------------------
(* The invariant, for the kinds of step there are.                           *)

LEMMA InitInv == Init => SessionInv
<1> SUFFICES ASSUME Init PROVE SessionInv
  OBVIOUS
<1>1. 1..top = {}
  BY DEF Init
<1>2. TypeOK /\ StackInv /\ CallInv /\ LeavingInv /\ TxnInv /\ StatusInv
  BY <1>1, InitTyped DEF Init, StackInv, CallInv, LeavingInv, TxnInv, StatusInv
<1>3. TablesAgree /\ RunningIsOpenOrCut /\ CompletedIsDurable
  BY <1>1 DEF Init, TablesAgree, RunningIsOpenOrCut, CompletedIsDurable
<1> QED
  BY <1>2, <1>3 DEF SessionInv

\* A session whose run is not left "running" behind it is over.
LEMMA PopKeeps ==
    ASSUME SessionInv, TypeOK', top > 0, Pop, call' = NoCall, UNCHANGED disk,
           ~intxn' => view' = disk', cut \subseteq cut',
           \/ cur.run \in cut'
           \/ disk.runs[cur.run] # NoRow => disk.runs[cur.run].status # "running"
    PROVE  SessionInv'
<1> USE DEF SessionInv
<1>1. /\ top \in 1..MaxDepth /\ top' = top - 1
      /\ \A d \in 1..top' : d \in 1..top /\ d < top /\ sess'[d] = sess[d]
  BY CurIsSession DEF TypeOK, Pop
<1>2. StackInv'
  BY <1>1 DEF StackInv
<1>3. LeavingInv' /\ CallInv' /\ TxnInv'
  <2>1. top' > 0 => cur'.pc = "body"
    BY <1>1 DEF cur, StackInv
  <2> QED
    BY <2>1 DEF LeavingInv, CallInv, TxnInv
<1>4. StatusInv'
  BY <1>1 DEF StatusInv, StatusOf
<1>5. CompletedIsDurable'
  BY <1>1 DEF CompletedIsDurable
<1>6. RunningIsOpenOrCut'
  <2>1. ASSUME NEW r \in RunIds, disk.runs[r] # NoRow, disk.runs[r].status = "running"
        PROVE  r \in OpenRuns' \cup cut'
    <3>1. r \in OpenRuns \cup cut
      BY <2>1 DEF RunningIsOpenOrCut
    <3>2. CASE r \in cut \/ r = cur.run
      BY <2>1, <3>2
    <3>3. ASSUME NEW d \in 1..top, r = sess[d].run, r # cur.run
          PROVE  r \in OpenRuns'
      BY <1>1, <3>3 DEF OpenRuns, cur
    <3> QED
      BY <3>1, <3>2, <3>3 DEF OpenRuns
  <2> QED
    BY <2>1 DEF RunningIsOpenOrCut
<1> QED
  BY <1>2, <1>3, <1>4, <1>5, <1>6 DEF TablesAgree

\* The innermost session changes without its run, and no other does.
SameRuns ==
    /\ UNCHANGED <<disk, top, cut>>
    /\ \A d \in 1..top : /\ sess'[d].run = sess[d].run /\ sess'[d].done = sess[d].done
                         /\ d < top => sess'[d].pc = sess[d].pc
                         /\ sess[d].pc # "new" => sess'[d].pc # "new"

LEMMA SameRunsKeep ==
    ASSUME SessionInv, SameRuns
    PROVE  StackInv' /\ TablesAgree' /\ RunningIsOpenOrCut' /\ CompletedIsDurable'
<1> USE DEF SessionInv
<1>1. StackInv'
  BY DEF SameRuns, StackInv
<1>2. OpenRuns' = OpenRuns
  BY DEF SameRuns, OpenRuns
<1> QED
  BY <1>1, <1>2 DEF SameRuns, TablesAgree, RunningIsOpenOrCut, CompletedIsDurable

\* One of the session's operations raises out of the block.
LEMMA LeaveKeeps ==
    ASSUME SessionInv, TypeOK', top > 0, Leave, call' = NoCall, exc' # "none",
           UNCHANGED <<disk, top, cut>>, ~intxn' => view' = disk', cur.pc # "new",
           cur.done = NotDone => \/ disk.runs[cur.run].status = "running"
                                 \/ "interrupt" \in Faults
    PROVE  SessionInv'
<1> USE DEF SessionInv
<1>1. top \in 1..MaxDepth /\ cur \in Session
  BY CurIsSession
<1>2. /\ cur'.run = cur.run /\ cur'.done = cur.done /\ cur'.pc = "leaving"
      /\ \A d \in 1..top : d < top => sess'[d] = sess[d]
  BY <1>1 DEF Leave, cur, TypeOK, Session
<1>3. SameRuns
  BY <1>1, <1>2 DEF SameRuns, cur
<1>4. LeavingInv' /\ CallInv' /\ TxnInv'
  BY DEF LeavingInv, CallInv, TxnInv
<1>5. StatusInv'
  <2>1. ASSUME NEW d \in 1..top, d < top
        PROVE  StatusOf(d)'
    BY <1>1, <1>2, <2>1 DEF StatusInv, StatusOf
  <2>2. StatusOf(top)'
    BY <1>1, <1>2 DEF StatusInv, StatusOf, cur
  <2> QED
    BY <1>1, <2>1, <2>2 DEF StatusInv, StatusOf
<1> QED
  BY <1>3, <1>4, <1>5, SameRunsKeep

\* A new innermost session, of a run that is not open.
LEMMA OpenKeeps ==
    ASSUME SessionInv, TypeOK', NEW STATE s, s \in Session, Open(s), s.pc = "new",
           s.done = NotDone, s.run \notin OpenRuns, cut' = cut \ {s.run},
           call = NoCall, top > 0 => cur.pc = "body" /\ cur.done = NotDone,
           disk.runs[s.run] = NoRow \/ disk.runs[s.run].status \in {"failed", "running"},
           top < MaxDepth, UNCHANGED <<store, call>>
    PROVE  SessionInv'
<1> USE DEF SessionInv
<1>1. /\ top' = top + 1 /\ top \in Nat
      /\ \A d \in 1..top : d \in 1..top' /\ sess'[d] = sess[d]
      /\ sess'[top'] = s
      /\ \A d \in 1..top' : d \in 1..top \/ d = top'
  BY MaxDepthAssumption DEF TypeOK, Open
<1>2. \A d \in 1..top : sess[d].run # s.run
  BY DEF OpenRuns
<1>3. StackInv'
  <2>1. ASSUME NEW d \in 1..top
        PROVE  sess[d].pc = "body" /\ sess[d].done = NotDone
    BY <1>1, <2>1 DEF StackInv, cur
  <2> QED
    BY <1>1, <1>2, <2>1 DEF StackInv
<1>4. LeavingInv' /\ CallInv' /\ TxnInv'
  BY <1>1 DEF LeavingInv, CallInv, TxnInv, cur, store
<1>5. StatusInv'
  <2>1. ASSUME NEW d \in 1..top
        PROVE  StatusOf(d)'
    BY <1>1, <2>1 DEF StatusInv, StatusOf, Returning, store
  <2>2. StatusOf(top)'
    BY <1>1 DEF StatusOf, store
  <2> QED
    BY <1>1, <2>1, <2>2 DEF StatusInv, StatusOf
<1>6. CompletedIsDurable'
  BY <1>1 DEF CompletedIsDurable, store
<1>7. OpenRuns \cup {s.run} \subseteq OpenRuns'
  BY <1>1 DEF OpenRuns
<1>8. RunningIsOpenOrCut' /\ TablesAgree'
  BY <1>7 DEF RunningIsOpenOrCut, TablesAgree, store
<1> QED
  BY <1>3, <1>4, <1>5, <1>6, <1>8

\* A record_run call begins.
LEMMA RecordKeeps ==
    ASSUME SessionInv, TypeOK', SameRuns, top > 0, cur'.pc = cur.pc,
           call = NoCall, call' # NoCall, call'.step = "begin", CallInv',
           UNCHANGED store
    PROVE  SessionInv'
<1> USE DEF SessionInv
<1>1. LeavingInv' /\ TxnInv'
  BY DEF LeavingInv, TxnInv, store
<1>2. top \in 1..MaxDepth /\ top' = top
  BY CurIsSession DEF SameRuns
<1>3. StatusInv'
  <2>1. ASSUME NEW d \in 1..top
        PROVE  sess'[d].pc = sess[d].pc
    BY <1>2, <2>1 DEF SameRuns, cur
  <2> QED
    BY <1>2, <2>1 DEF StatusInv, StatusOf, SameRuns, Returning
<1> QED
  BY <1>1, <1>3, SameRunsKeep

\* The call goes on to its next statement; what is committed does not change.
LEMMA StatementKeeps ==
    ASSUME SessionInv, TypeOK', call # NoCall, call' # NoCall,
           call'.step \in {"runs", "metrics", "artifacts", "commit"},
           call'.cont = call.cont, call'.row = call.row, call.step # "return", TxnInv',
           UNCHANGED <<disk, sess, top, cut, exc>>
    PROVE  SessionInv'
<1> USE DEF SessionInv
<1>1. SameRuns
  BY DEF SameRuns
<1>2. LeavingInv' /\ CallInv'
  BY DEF LeavingInv, CallInv, cur
<1>3. StatusInv'
  BY DEF StatusInv, StatusOf, Returning
<1> QED
  BY <1>1, <1>2, <1>3, SameRunsKeep

\* The steps that touch neither the tables, nor the stack, nor a call.
LEMMA QuietKeeps ==
    ASSUME SessionInv, TypeOK', UNCHANGED <<disk, sess, top, call, cut>>,
           ~intxn' => view' = disk', intxn' = intxn \/ call = NoCall,
           view' = view \/ call = NoCall, LeavingInv'
    PROVE  SessionInv'
<1> USE DEF SessionInv
<1>1. SameRuns
  BY DEF SameRuns
<1>2. CallInv' /\ TxnInv'
  BY DEF CallInv, TxnInv, cur
<1>3. StatusInv'
  BY DEF StatusInv, StatusOf, Returning
<1> QED
  BY <1>1, <1>2, <1>3, SameRunsKeep

-----------------------------------------------------------------------------
(* The invariant, step by step: record_run.                                  *)

\* What the transaction committed: the row of the session's run, its metrics and
\* its artifacts, together.
LEMMA CommitWrites ==
    ASSUME SessionInv, Commit
    PROVE  /\ top \in 1..MaxDepth /\ cur.run \in RunIds /\ call.row \in Row
           /\ disk' = [disk EXCEPT !.runs[cur.run] = call.row,
                                   !.metrics[cur.run] = call.row.json,
                                   !.artifacts[cur.run] = call.row.arts]
           /\ \A r \in RunIds : disk'.runs[r] = IF r = cur.run THEN call.row ELSE disk.runs[r]
<1> USE DEF SessionInv
<1>1. top > 0 /\ call \in Call /\ call # NoCall /\ call.step = "commit"
  BY DEF Commit, TypeOK
<1>2. top \in 1..MaxDepth /\ cur.run \in RunIds
  BY <1>1, CurIsSession DEF Session
<1>3. call.row \in Row
  BY <1>1 DEF Call
<1>4. disk' = [disk EXCEPT !.runs[cur.run] = call.row,
                           !.metrics[cur.run] = call.row.json,
                           !.artifacts[cur.run] = call.row.arts]
  BY <1>1 DEF Commit, TxnInv
<1>5. \A r \in RunIds : disk'.runs[r] = IF r = cur.run THEN call.row ELSE disk.runs[r]
  BY <1>2, <1>4 DEF TypeOK, Tables
<1> QED
  BY <1>2, <1>3, <1>4, <1>5

LEMMA CommitKeeps == ASSUME SessionInv, TypeOK', Commit PROVE SessionInv'
<1> USE DEF SessionInv
<1> DEFINE r == cur.run
<1>1. /\ call \in Call /\ call # NoCall /\ call.step = "commit"
      /\ ~intxn' /\ view' = view /\ disk' = view
      /\ call' = [call EXCEPT !.step = "return"]
      /\ UNCHANGED <<sess, top, exc, cut>>
  BY DEF Commit, TypeOK
<1>2. /\ top \in 1..MaxDepth /\ r \in RunIds /\ call.row \in Row /\ call.row # NoRow
      /\ disk' = [disk EXCEPT !.runs[r] = call.row, !.metrics[r] = call.row.json,
                              !.artifacts[r] = call.row.arts]
      /\ \A q \in RunIds : disk'.runs[q] = IF q = r THEN call.row ELSE disk.runs[q]
  BY CommitWrites, NullsAssumption
<1>3. call'.cont = call.cont /\ call'.step = "return" /\ call'.row = call.row /\ call' # NoCall
  BY <1>1, NullsAssumption DEF Call, TypeOK
<1>4. \A d \in 1..top : sess[d].run \in RunIds /\ (d # top => sess[d].run # r)
  <2>1. ASSUME NEW d \in 1..top
        PROVE  sess[d].run \in RunIds
    BY MaxDepthAssumption DEF TypeOK, Session
  <2> QED
    BY <1>2, <2>1 DEF StackInv, cur
<1>5. StackInv'
  BY <1>1 DEF StackInv
<1>6. CallInv' /\ LeavingInv'
  BY <1>1, <1>3 DEF CallInv, LeavingInv, cur
<1>7. TxnInv'
  BY <1>1, <1>2, <1>3 DEF TxnInv, cur
<1>8. StatusInv'
  <2>1. ASSUME NEW d \in 1..top, d # top
        PROVE  StatusOf(d)'
    BY <1>1, <1>2, <1>4, <2>1 DEF StatusInv, StatusOf
  <2>2. StatusOf(top)'
    BY <1>1, <1>2, <1>3 DEF StatusOf, Returning, CallInv, cur
  <2> QED
    BY <1>1, <2>1, <2>2 DEF StatusInv, StatusOf
<1>9. TablesAgree'
  <2>1. ASSUME NEW q \in RunIds
        PROVE  /\ disk'.metrics[q] = IF q = r THEN call.row.json ELSE disk.metrics[q]
               /\ disk'.artifacts[q] = IF q = r THEN call.row.arts ELSE disk.artifacts[q]
    BY <1>2 DEF TypeOK, Tables
  <2> QED
    BY <1>2, <2>1 DEF TablesAgree
<1>10. RunningIsOpenOrCut'
  <2>1. r \in OpenRuns /\ OpenRuns' = OpenRuns
    BY <1>1, <1>2 DEF OpenRuns, cur
  <2> QED
    BY <1>1, <1>2, <2>1 DEF RunningIsOpenOrCut
<1>11. CompletedIsDurable'
  <2>1. ASSUME NEW d \in 1..top, sess[d].done # NotDone
        PROVE  sess[d].run # r
    BY <1>1, <1>4, <2>1 DEF CallInv, cur
  <2> QED
    BY <1>1, <1>2, <1>4, <2>1 DEF CompletedIsDurable
<1> QED
  BY <1>5, <1>6, <1>7, <1>8, <1>9, <1>10, <1>11

\* record_run raised: the session was never entered, or is over, or will be left.
LEMMA UnwindKeeps ==
    ASSUME SessionInv, TypeOK', call # NoCall, NEW kind \in {"error", "interrupt"},
           Unwind(kind), UNCHANGED disk, ~intxn' => view' = disk',
           Returning => "interrupt" \in Faults
    PROVE  SessionInv'
<1> USE DEF SessionInv
<1>1. top \in 1..MaxDepth /\ cur \in Session
  BY CurIsSession DEF TypeOK
<1>2. CASE call.cont \in {"enter", "exit"}
  <2>1. Pop /\ call' = NoCall /\ cut' = cut \cup {cur.run}
    BY <1>2 DEF Unwind
  <2> QED
    BY <1>1, <2>1, PopKeeps
<1>3. CASE call.cont \notin {"enter", "exit"}
  <2>1. Leave /\ call' = NoCall /\ exc' # "none" /\ UNCHANGED <<top, cut>>
    BY <1>3 DEF Unwind
  <2>2. cur.pc = "body"
    BY <1>3 DEF CallInv, TypeOK, Call
  <2>3. \/ disk.runs[cur.run].status = "running"
        \/ "interrupt" \in Faults
    BY <1>1, <2>2 DEF StatusInv, StatusOf, CallInv, cur
  <2> QED
    BY <1>1, <2>1, <2>2, <2>3, LeaveKeeps
<1> QED
  BY <1>2, <1>3

\* The statements before the commit are visible to the connection alone.
LEMMA StatementsKeep ==
    ASSUME SessionInv, TypeOK',
           (Begin /\ ~intxn) \/ WriteRun \/ WriteMetrics \/ WriteArtifacts
    PROVE  SessionInv'
<1> USE DEF SessionInv
<1>1. /\ call \in Call /\ call # NoCall /\ call' # NoCall
      /\ call'.cont = call.cont /\ call'.row = call.row /\ call'.row.arts = call.row.arts
      /\ call.step # "return"
      /\ call'.step \in {"runs", "metrics", "artifacts", "commit"}
      /\ UNCHANGED <<sess, top, exc, cut>>
  <2>1. call \in Call
    BY DEF Begin, WriteRun, WriteMetrics, WriteArtifacts, TypeOK
  <2>2. CASE Begin /\ ~intxn
    BY <2>1, <2>2, NullsAssumption DEF Begin, Call, TypeOK
  <2>3. CASE WriteRun
    BY <2>1, <2>3, NullsAssumption DEF WriteRun, Call, TypeOK
  <2>4. CASE WriteMetrics
    BY <2>1, <2>4, NullsAssumption DEF WriteMetrics, Call, TypeOK
  <2>5. CASE WriteArtifacts
    BY <2>1, <2>5, NullsAssumption DEF WriteArtifacts, Call, TypeOK
  <2> QED
    BY <2>2, <2>3, <2>4, <2>5
<1>2. cur.run \in RunIds
  BY <1>1, CurIsSession DEF TypeOK, Session
<1>3. UNCHANGED disk /\ TxnInv'
  <2>1. CASE Begin /\ ~intxn
    <3>1. call'.step = "runs" /\ intxn' /\ view' = view /\ UNCHANGED disk
      BY <1>1, <2>1 DEF Begin, Call
    <3> QED
      BY <2>1, <3>1 DEF TxnInv
  <2>2. CASE WriteRun
    <3>1. /\ call.step = "runs" /\ call'.step = "metrics" /\ UNCHANGED intxn
          /\ view' = [view EXCEPT !.runs[cur.run] = call.row]
          /\ disk' = IF intxn THEN disk ELSE view'
      BY <1>1, <2>2 DEF WriteRun, Execute, Call
    <3> QED
      BY <1>1, <3>1 DEF TxnInv, cur
  <2>3. CASE WriteMetrics
    <3>1. /\ call.step = "metrics" /\ call'.step = "artifacts" /\ UNCHANGED intxn
          /\ view' = [view EXCEPT !.metrics[cur.run] = call.row.json]
          /\ disk' = IF intxn THEN disk ELSE view'
      BY <1>1, <2>3 DEF WriteMetrics, Execute, Call
    <3> QED
      BY <1>1, <3>1 DEF TxnInv, cur
  <2>4. CASE WriteArtifacts
    <3>1. /\ call.step = "artifacts" /\ call'.step = "commit" /\ UNCHANGED intxn
          /\ view' = [view EXCEPT !.artifacts[cur.run] = call.row.arts]
          /\ disk' = IF intxn THEN disk ELSE view'
      BY <1>1, <2>4 DEF WriteArtifacts, Execute, Call
    <3> QED
      BY <1>1, <3>1 DEF TxnInv, cur
  <2> QED
    BY <2>1, <2>2, <2>3, <2>4
<1> QED
  BY <1>1, <1>3, StatementKeeps

\* record_run returned.  The row it wrote is committed, so the outcome the session
\* remembers is the stored one.
LEMMA ReturnKeeps == ASSUME SessionInv, TypeOK', Return PROVE SessionInv'
<1> USE DEF SessionInv
<1>1. /\ top \in 1..MaxDepth /\ cur \in Session /\ call \in Call
      /\ call # NoCall /\ call.step = "return" /\ call' = NoCall
      /\ UNCHANGED <<disk, view, intxn, exc, cut>>
  BY CurIsSession DEF Return, TypeOK, store
<1>2. /\ ~intxn /\ view = disk /\ disk.runs[cur.run] = call.row
      /\ call.row # NoRow /\ call.row.status \in Statuses
  <2>1. call.row \in Row
    BY <1>1 DEF Call
  <2> QED
    BY <1>1, <2>1, NullsAssumption DEF TxnInv, Row
<1>3. CASE call.cont = "exit" /\ Pop
  BY <1>1, <1>2, <1>3, PopKeeps DEF CallInv
<1>4. CASE call.cont = "target" /\ UNCHANGED <<sess, top>>
  <2>1. SameRuns
    BY <1>1, <1>4 DEF SameRuns
  <2>2. cur'.pc = "body" /\ disk.runs[cur.run].status = "running"
    BY <1>1, <1>2, <1>4 DEF CallInv, cur
  <2>3. LeavingInv' /\ CallInv' /\ TxnInv'
    BY <1>1, <1>2, <2>2 DEF LeavingInv, CallInv, TxnInv
  <2>4. StatusInv'
    BY <1>1, <1>2, <1>4, <2>2 DEF StatusInv, StatusOf, cur
  <2> QED
    BY <2>1, <2>3, <2>4, SameRunsKeep
<1>5. CASE /\ call.cont = "enter" /\ UNCHANGED top
           /\ sess' = [sess EXCEPT ![top].pc = "body"]
  <2>1. /\ cur'.run = cur.run /\ cur'.done = cur.done /\ cur'.pc = "body"
        /\ \A d \in 1..top : d < top => sess'[d] = sess[d]
    BY <1>1, <1>5 DEF cur, TypeOK, Session
  <2>2. SameRuns
    BY <1>1, <1>5, <2>1 DEF SameRuns, cur
  <2>3. LeavingInv' /\ CallInv' /\ TxnInv'
    BY <1>1, <1>2, <2>1 DEF LeavingInv, CallInv, TxnInv
  <2>4. StatusInv'
    <3>1. disk.runs[cur.run].status = "running"
      BY <1>1, <1>2, <1>5 DEF CallInv
    <3>2. ASSUME NEW d \in 1..top, d < top
          PROVE  StatusOf(d)'
      BY <1>1, <1>5, <2>1, <3>2 DEF StatusInv, StatusOf
    <3>3. StatusOf(top)'
      BY <1>1, <1>2, <1>5, <2>1, <3>1 DEF StatusOf, cur
    <3> QED
      BY <1>1, <1>5, <3>2, <3>3 DEF StatusInv, StatusOf
  <2> QED
    BY <2>2, <2>3, <2>4, SameRunsKeep
<1>6. CASE /\ call.cont = "complete" /\ UNCHANGED top
           /\ sess' = [sess EXCEPT ![top].done = [status |-> call.row.status,
                                                  json |-> call.row.json]]
  <2>1. /\ cur'.run = cur.run /\ cur'.pc = "body" /\ cur.pc = "body"
        /\ cur'.done = [status |-> call.row.status, json |-> call.row.json]
        /\ call.row.status \in Outcomes
        /\ \A d \in 1..top : d < top => sess'[d] = sess[d]
    BY <1>1, <1>2, <1>6 DEF cur, TypeOK, Session, CallInv, Statuses, Outcomes
  <2>2. StackInv'
    BY <1>1, <1>6, <2>1 DEF StackInv, cur
  <2>3. LeavingInv' /\ CallInv' /\ TxnInv'
    BY <1>1, <1>2, <2>1 DEF LeavingInv, CallInv, TxnInv
  <2>4. cur'.done # NotDone
    <3>1. cur'.done \in [status : Statuses, json : MetricVals]
      BY <1>1, <1>2, <2>1 DEF Call, Row
    <3> QED
      BY <3>1, NullsAssumption
  <2>5. StatusInv' /\ CompletedIsDurable'
    <3>1. ASSUME NEW d \in 1..top, d < top
          PROVE  StatusOf(d)' /\ sess'[d].done = NotDone
      BY <1>1, <1>6, <2>1, <3>1 DEF StatusInv, StatusOf, StackInv
    <3>2. StatusOf(top)'
      BY <1>1, <1>2, <1>6, <2>1, <2>4 DEF StatusOf, cur
    <3>3. StatusInv'
      BY <1>1, <1>6, <3>1, <3>2 DEF StatusInv, StatusOf
    <3>4. /\ sess'[top].run = cur.run
          /\ sess'[top].done.status = call.row.status
          /\ sess'[top].done.json = call.row.json
      BY <1>1, <1>6, <2>1 DEF cur
    <3>5. CompletedIsDurable'
      <4>1. ASSUME NEW d \in 1..top, sess'[d].done # NotDone
            PROVE  d = top
        BY <1>1, <3>1, <4>1
      <4> QED
        BY <1>1, <1>2, <1>6, <3>4, <4>1 DEF CompletedIsDurable
    <3> QED
      BY <3>3, <3>5
  <2>6. OpenRuns' = OpenRuns
    BY <1>1, <1>6, <2>1 DEF OpenRuns, cur
  <2>7. TablesAgree' /\ RunningIsOpenOrCut'
    BY <1>1, <2>6 DEF TablesAgree, RunningIsOpenOrCut
  <2> QED
    BY <2>2, <2>3, <2>5, <2>7
<1> QED
  BY <1>3, <1>4, <1>5, <1>6 DEF Return

LEMMA RecordRunKeeps == ASSUME SessionInv, TypeOK', RecordRun PROVE SessionInv'
<1> USE DEF SessionInv
<1>1. CASE Begin
  <2>1. CASE intxn
    <3>1. /\ call # NoCall /\ Unwind("error")
          /\ UNCHANGED <<disk, view, intxn>> /\ ~Returning
      BY <1>1, <2>1 DEF Begin, Returning
    <3> QED
      BY <2>1, <3>1, UnwindKeeps
  <2> QED
    BY <1>1, <2>1, StatementsKeep
<1>2. CASE StatementFails
  <2>1. /\ call # NoCall /\ Unwind("error") /\ ~Returning
        /\ UNCHANGED disk /\ view' = disk
    BY <1>2 DEF StatementFails, Returning
  <2> QED
    BY <2>1, UnwindKeeps
<1>3. CASE InterruptCall
  <2>1. /\ call # NoCall /\ Unwind("interrupt") /\ "interrupt" \in Faults
        /\ UNCHANGED <<disk, view, intxn>>
    BY <1>3 DEF InterruptCall, store
  <2> QED
    BY <2>1, UnwindKeeps DEF TxnInv
<1> QED
  BY <1>1, <1>2, <1>3, StatementsKeep, CommitKeeps, ReturnKeeps DEF RecordRun

-----------------------------------------------------------------------------
(* The invariant, step by step: the sessions.                                *)

\* Inside a block the row exists, and is "running" until an outcome is recorded.
LEMMA BodyIsRunning ==
    ASSUME SessionInv, InBlock
    PROVE  /\ top \in 1..MaxDepth /\ cur \in Session /\ call = NoCall
           /\ disk.runs[cur.run] # NoRow
           /\ cur.done = NotDone => \/ disk.runs[cur.run].status = "running"
                                    \/ cur.pc = "leaving" /\ "interrupt" \in Faults
<1> USE DEF SessionInv
<1>1. top \in 1..MaxDepth /\ cur \in Session /\ call = NoCall
  BY CurIsSession DEF InBlock
<1> QED
  BY <1>1 DEF InBlock, StatusInv, StatusOf, Returning, cur

LEMMA OpeningKeeps ==
    ASSUME SessionInv, TypeOK', NEW r \in RunIds, NEW spec \in Specs,
           NEW host \in Hosts \cup {UnknownHost}, NEW tgt \in Targets \cup {NoTarget},
           \/ Construct(r, spec, host, tgt)
           \/ \E allow \in BOOLEAN : Resume(r, spec, host, tgt, allow)
    PROVE  SessionInv'
<1> USE DEF SessionInv
<1>1. CASE Construct(r, spec, host, tgt)
  <2> DEFINE s == [pc |-> "new", run |-> r, spec |-> spec, host |-> host, target |-> tgt,
                   arts |-> {}, claimed |-> {}, done |-> NotDone]
  <2>1. s \in Session /\ s.pc = "new" /\ s.done = NotDone /\ s.run = r
    BY DEF Session
  <2>2. /\ Open(s) /\ r \notin OpenRuns /\ disk.runs[r] = NoRow /\ cut' = cut \ {r}
        /\ call = NoCall /\ top < MaxDepth /\ UNCHANGED <<store, call>>
        /\ top > 0 => cur.pc = "body" /\ cur.done = NotDone
    BY <1>1 DEF Construct, MayOpen, Proceeding, Fresh
  <2> HIDE DEF s
  <2> QED
    BY <2>1, <2>2, OpenKeeps
<1>2. ASSUME NEW allow \in BOOLEAN, Resume(r, spec, host, tgt, allow)
      PROVE  SessionInv'
  <2> DEFINE row == view.runs[r]
             s == [pc |-> "new", run |-> r, spec |-> spec, host |-> host,
                   target |-> row.target, arts |-> view.artifacts[r],
                   claimed |-> {}, done |-> NotDone]
  <2>1. view = disk /\ call = NoCall /\ top = 0 /\ UNCHANGED <<store, files, call>>
    BY <1>2 DEF Resume, Proceeding, TxnInv
  <2>2. CASE ResumeAllowed(row, spec, host, tgt, allow) /\ Open(s) /\ cut' = cut \ {r}
    <3>1. row \in Row /\ row.status \in {"failed", "running"}
      BY <2>2 DEF ResumeAllowed, TypeOK, Tables
    <3>2. s \in Session
      <4>1. row.target \in Targets \cup {NoTarget} /\ view.artifacts[r] \subseteq Roles
        BY <3>1 DEF Row, TypeOK, Tables
      <4> QED
        BY <4>1 DEF Session
    <3>3. s.pc = "new" /\ s.done = NotDone /\ s.run = r
      OBVIOUS
    <3>4. r \notin OpenRuns /\ top < MaxDepth
      BY <2>1, MaxDepthAssumption DEF OpenRuns
    <3>5. disk.runs[r] = NoRow \/ disk.runs[r].status \in {"failed", "running"}
      BY <2>1, <3>1
    <3> HIDE DEF s
    <3> QED
      BY <2>1, <2>2, <3>2, <3>3, <3>4, <3>5, OpenKeeps
  <2>3. CASE exc' = "error" /\ UNCHANGED <<sess, top, cut>>
    <3>1. LeavingInv'
      BY <2>1, <2>3 DEF LeavingInv
    <3> QED
      BY <2>1, <2>3, <3>1, QuietKeeps DEF store, TxnInv
  <2> QED
    BY <1>2, <2>2, <2>3 DEF Resume
<1> QED
  BY <1>1, <1>2

\* The three operations that record and the exit of the with-block.
LEMMA EnterKeeps == ASSUME SessionInv, TypeOK', Enter PROVE SessionInv'
<1> USE DEF SessionInv
<1>1. /\ top > 0 /\ call = NoCall /\ cur.pc = "new"
      /\ BeginRecord(cur, "enter", "running", NoMetrics)
      /\ UNCHANGED <<store, sess, top, cut>>
  BY DEF Enter, Proceeding
<1>2. /\ call' # NoCall /\ call'.cont = "enter" /\ call'.step = "begin"
      /\ call'.row.status = "running"
  BY <1>1, CurIsSession, RecordTyped DEF Statuses, MetricVals
<1>3. SameRuns /\ UNCHANGED cur
  BY <1>1 DEF SameRuns, store, cur
<1>4. cur.done = NotDone
  <2>1. top \in 1..MaxDepth
    BY <1>1, CurIsSession
  <2> QED
    BY <1>1, <2>1 DEF StackInv, cur
<1>5. CallInv'
  BY <1>1, <1>2, <1>3, <1>4 DEF CallInv
<1> QED
  BY <1>1, <1>2, <1>3, <1>5, RecordKeeps

LEMMA SetTargetKeeps ==
    ASSUME SessionInv, TypeOK', NEW tgt \in Targets, SetTarget(tgt)
    PROVE  SessionInv'
<1> USE DEF SessionInv
<1>1. InBlock /\ cur.pc = "body" /\ UNCHANGED <<store, disk, view, intxn, top, cut>>
  BY DEF SetTarget, InBody, store
<1>2. top \in 1..MaxDepth /\ cur \in Session /\ call = NoCall
  BY <1>1, BodyIsRunning
<1>3. CASE /\ cur.done = NotDone
           /\ sess' = [sess EXCEPT ![top].target = tgt]
           /\ BeginRecord([cur EXCEPT !.target = tgt], "target", "running", NoMetrics)
  <2>1. [cur EXCEPT !.target = tgt] \in Session
    BY <1>2 DEF Session
  <2>2. /\ call' # NoCall /\ call'.cont = "target" /\ call'.step = "begin"
        /\ call'.row.status = "running"
    BY <1>3, <2>1, RecordTyped DEF Statuses, MetricVals
  <2>3. /\ cur'.run = cur.run /\ cur'.pc = cur.pc /\ cur'.done = cur.done
        /\ \A d \in 1..top : d < top => sess'[d] = sess[d]
    BY <1>1, <1>2, <1>3 DEF cur, TypeOK, Session
  <2>4. SameRuns
    BY <1>1, <1>2, <2>3 DEF SameRuns, cur
  <2>5. CallInv'
    BY <1>1, <1>3, <2>2, <2>3 DEF CallInv
  <2> QED
    BY <1>1, <1>2, <2>2, <2>3, <2>4, <2>5, RecordKeeps
<1>4. CASE cur.done # NotDone /\ exc' = "error" /\ Leave /\ UNCHANGED call
  BY <1>1, <1>2, <1>4, LeaveKeeps DEF TxnInv
<1> QED
  BY <1>3, <1>4 DEF SetTarget

LEMMA CompleteKeeps ==
    ASSUME SessionInv, TypeOK', NEW status \in {"ok", "failed"}, NEW m \in MetricVals,
           Complete(status, m)
    PROVE  SessionInv'
<1> USE DEF SessionInv
<1>1. InBlock /\ cur.pc = "body" /\ UNCHANGED <<store, disk, view, intxn, top, cut>>
  BY DEF Complete, InBody, store
<1>2. top \in 1..MaxDepth /\ cur \in Session /\ call = NoCall
  BY <1>1, BodyIsRunning
<1>3. CASE /\ cur.done = NotDone /\ UNCHANGED sess
           /\ BeginRecord(cur, "complete", status, m)
  <2>1. /\ call' # NoCall /\ call'.cont = "complete" /\ call'.step = "begin"
        /\ call'.row.status = status
    BY <1>2, <1>3, RecordTyped DEF Statuses
  <2>2. SameRuns /\ UNCHANGED cur
    BY <1>1, <1>3 DEF SameRuns, cur
  <2>3. CallInv'
    BY <1>1, <1>3, <2>1, <2>2 DEF CallInv
  <2> QED
    BY <1>1, <1>2, <2>1, <2>2, <2>3, RecordKeeps
<1>4. CASE cur.done # NotDone /\ exc' = "error" /\ Leave /\ UNCHANGED call
  BY <1>1, <1>2, <1>4, LeaveKeeps DEF TxnInv
<1> QED
  BY <1>3, <1>4 DEF Complete

LEMMA ExitKeeps == ASSUME SessionInv, TypeOK', Exit PROVE SessionInv'
<1> USE DEF SessionInv
<1>1. InBlock /\ cur.pc # "new" /\ UNCHANGED <<store, disk, view, intxn, exc, cut>>
  BY DEF Exit, InBlock, store
<1>2. /\ top \in 1..MaxDepth /\ cur \in Session /\ call = NoCall
      /\ disk.runs[cur.run] # NoRow
  BY <1>1, BodyIsRunning
<1>3. CASE cur.done # NotDone /\ Pop /\ UNCHANGED call
  <2>1. disk.runs[cur.run].status \in Outcomes
    BY <1>2, <1>3 DEF CompletedIsDurable, StackInv, cur
  <2> QED
    BY <1>1, <1>2, <1>3, <2>1, PopKeeps DEF TxnInv, Outcomes
<1>4. CASE /\ cur.done = NotDone /\ UNCHANGED <<sess, top>>
           /\ BeginRecord(cur, "exit", IF exc = "none" THEN "ok" ELSE "failed", NoMetrics)
  <2> DEFINE status == IF exc = "none" THEN "ok" ELSE "failed"
  <2>1. status \in Statuses /\ NoMetrics \in MetricVals
    BY DEF Statuses, MetricVals
  <2> HIDE DEF status
  <2>2. /\ call' # NoCall /\ call'.cont = "exit" /\ call'.step = "begin"
        /\ call'.row.status = status
    BY <1>2, <1>4, <2>1, RecordTyped DEF status
  <2>3. SameRuns /\ UNCHANGED cur
    BY <1>1, <1>4 DEF SameRuns, cur
  <2>4. status # "running" /\ (cur.pc = "leaving" => status = "failed")
    BY <1>2 DEF LeavingInv, status
  <2>5. CallInv'
    BY <1>1, <1>4, <2>2, <2>3, <2>4 DEF CallInv
  <2> QED
    BY <1>1, <1>2, <2>2, <2>3, <2>5, RecordKeeps
<1> QED
  BY <1>3, <1>4 DEF Exit

LEMMA ClaimKeeps ==
    ASSUME SessionInv, TypeOK', NEW role \in Roles, ClaimArtifact(role)
    PROVE  SessionInv'
<1> USE DEF SessionInv
<1>1. InBlock /\ cur.pc # "new" /\ UNCHANGED <<store, disk, view, intxn, top, cut, call>>
  BY DEF ClaimArtifact, InBlock, store
<1>2. /\ top \in 1..MaxDepth /\ cur \in Session /\ call = NoCall
      /\ cur.done = NotDone => \/ disk.runs[cur.run].status = "running"
                               \/ "interrupt" \in Faults
  BY <1>1, BodyIsRunning
<1>3. CASE /\ sess' = [sess EXCEPT ![top].claimed = @ \cup {role},
                                   ![top].arts = @ \cup {role}]
           /\ UNCHANGED exc
  <2>1. /\ cur'.run = cur.run /\ cur'.pc = cur.pc /\ cur'.done = cur.done
        /\ \A d \in 1..top : d < top => sess'[d] = sess[d]
    <3> DEFINE s == [cur EXCEPT !.claimed = @ \cup {role}, !.arts = @ \cup {role}]
    <3>1. s.run = cur.run /\ s.pc = cur.pc /\ s.done = cur.done
      BY <1>2 DEF Session
    <3>2. sess' = [sess EXCEPT ![top] = s]
      BY <1>2, <1>3 DEF cur, TypeOK
    <3> HIDE DEF s
    <3> QED
      BY <1>1, <1>2, <3>1, <3>2 DEF cur, TypeOK
  <2>2. SameRuns
    BY <1>1, <1>2, <2>1 DEF SameRuns, cur
  <2>3. LeavingInv' /\ CallInv' /\ TxnInv'
    BY <1>1, <1>2, <1>3, <2>1 DEF LeavingInv, CallInv, TxnInv
  <2>4. StatusInv'
    <3>1. ASSUME NEW d \in 1..top
          PROVE  sess'[d].pc = sess[d].pc
      BY <1>1, <1>2, <2>1, <3>1 DEF cur
    <3> QED
      BY <1>1, <1>2, <2>2, <3>1 DEF StatusInv, StatusOf, SameRuns, Returning
  <2> QED
    BY <2>2, <2>3, <2>4, SameRunsKeep
<1>4. CASE exc' = "error" /\ Leave
  BY <1>1, <1>2, <1>4, LeaveKeeps DEF TxnInv
<1> QED
  BY <1>3, <1>4 DEF ClaimArtifact

LEMMA CrashKeeps == ASSUME SessionInv, TypeOK', Crash PROVE SessionInv'
<1> USE DEF SessionInv
<1>1. /\ top' = 0 /\ call' = NoCall /\ view' = disk /\ UNCHANGED disk /\ 1..top' = {}
      /\ cut' = cut \cup OpenRuns
  BY DEF Crash
<1>2. StackInv' /\ CallInv' /\ LeavingInv' /\ TxnInv' /\ StatusInv'
  BY <1>1 DEF StackInv, CallInv, LeavingInv, TxnInv, StatusInv
<1>3. TablesAgree' /\ RunningIsOpenOrCut' /\ CompletedIsDurable'
  BY <1>1 DEF TablesAgree, RunningIsOpenOrCut, CompletedIsDurable
<1> QED
  BY <1>2, <1>3

\* A reparse replaces the metrics of a row and its metrics table alike.
LEMMA UpdateKeeps ==
    ASSUME SessionInv, TypeOK', NEW r \in RunIds, NEW m \in MetricVals, UpdateRunMetrics(r, m)
    PROVE  SessionInv'
<1> USE DEF SessionInv
<1>1. /\ top = 0 /\ call = NoCall /\ disk.runs[r] # NoRow /\ view' = disk'
      /\ disk' = [disk EXCEPT !.runs[r].json = m, !.metrics[r] = m]
      /\ UNCHANGED <<sess, top, call, exc, cut>> /\ 1..top = {}
  BY DEF UpdateRunMetrics, Proceeding
<1>2. [disk.runs[r] EXCEPT !.json = m] \in Row /\ disk.runs[r] \in Row
  <2>1. disk.runs[r] \in Row
    BY <1>1 DEF TypeOK, Tables
  <2> QED
    BY <2>1 DEF Row
<1>3. \A q \in RunIds :
         /\ disk'.runs[q] = IF q = r THEN [disk.runs[r] EXCEPT !.json = m] ELSE disk.runs[q]
         /\ disk'.metrics[q] = IF q = r THEN m ELSE disk.metrics[q]
         /\ disk'.artifacts[q] = disk.artifacts[q]
  BY <1>1 DEF TypeOK, Tables
<1>4. /\ [disk.runs[r] EXCEPT !.json = m].json = m
      /\ [disk.runs[r] EXCEPT !.json = m].status = disk.runs[r].status
      /\ [disk.runs[r] EXCEPT !.json = m] # NoRow
  BY <1>2, NullsAssumption DEF Row
<1>5. StackInv' /\ CallInv' /\ LeavingInv' /\ TxnInv' /\ StatusInv' /\ CompletedIsDurable'
  BY <1>1 DEF StackInv, CallInv, LeavingInv, TxnInv, StatusInv, CompletedIsDurable
<1>6. TablesAgree'
  <2>1. [disk.runs[r] EXCEPT !.json = m].arts = disk.runs[r].arts
    BY <1>2 DEF Row
  <2>2. ASSUME NEW q \in RunIds, q # r
        PROVE  IF disk'.runs[q] = NoRow
               THEN disk'.metrics[q] = NoMetrics /\ disk'.artifacts[q] = {}
               ELSE /\ disk'.metrics[q] = disk'.runs[q].json
                    /\ disk'.artifacts[q] = disk'.runs[q].arts
    BY <1>3, <2>2 DEF TablesAgree
  <2>3. disk'.metrics[r] = m /\ disk'.runs[r].json = m /\ disk'.runs[r] # NoRow
    BY <1>3, <1>4
  <2>4. disk'.artifacts[r] = disk'.runs[r].arts
    BY <1>1, <1>3, <2>1 DEF TablesAgree
  <2> QED
    BY <2>2, <2>3, <2>4 DEF TablesAgree
<1>7. RunningIsOpenOrCut'
  BY <1>1, <1>3, <1>4 DEF RunningIsOpenOrCut, OpenRuns
<1> QED
  BY <1>5, <1>6, <1>7

\* The steps that only raise, handle an exception, end the process or lose a file.
LEMMA SurroundingsKeep ==
    ASSUME SessionInv, TypeOK',
           \/ HandleError
           \/ ExitProcess
           \/ \E kind \in {"error", "interrupt"} : BodyRaises(kind)
           \/ \E f \in files : LoseFile(f)
    PROVE  SessionInv'
<1> USE DEF SessionInv
<1>1. CASE HandleError
  BY <1>1, QuietKeeps DEF HandleError, store, TxnInv, LeavingInv, cur
<1>2. CASE ExitProcess
  BY <1>2, QuietKeeps DEF ExitProcess, TxnInv, LeavingInv
<1>3. CASE \E kind \in {"error", "interrupt"} : BodyRaises(kind)
  BY <1>3, QuietKeeps DEF BodyRaises, store, TxnInv, LeavingInv
<1>4. CASE \E f \in files : LoseFile(f)
  BY <1>4, QuietKeeps DEF LoseFile, store, TxnInv, LeavingInv
<1> QED
  BY <1>1, <1>2, <1>3, <1>4

LEMMA NextInv == SessionInv /\ [Next]_vars => SessionInv'
<1> SUFFICES ASSUME SessionInv, [Next]_vars
             PROVE  SessionInv'
  OBVIOUS
<1>1. TypeOK'
  BY NextTyped DEF SessionInv
<1>2. CASE UNCHANGED vars
  <2>1. LeavingInv'
    BY <1>2 DEF vars, SessionInv, LeavingInv, cur
  <2> QED
    BY <1>1, <1>2, <2>1, QuietKeeps DEF vars, store, SessionInv, TxnInv
<1>3. CASE Next
  BY <1>1, <1>3, OpeningKeeps, EnterKeeps, ClaimKeeps, SetTargetKeeps, CompleteKeeps,
     SurroundingsKeep, ExitKeeps, RecordRunKeeps, CrashKeeps, UpdateKeeps DEF Next
<1> QED
  BY <1>2, <1>3

LEMMA SessionInductive == Spec => []SessionInv
BY InitInv, NextInv, PTL DEF Spec

-----------------------------------------------------------------------------
\* Whatever instant the process dies at, the committed tables agree with each other.
THEOREM CommittedTablesAgree == Spec => []TablesAgree
<1>1. SessionInv => TablesAgree
  BY DEF SessionInv
<1> QED
  BY <1>1, SessionInductive, PTL

\* No session that ends by itself leaves its row "running".
THEOREM OnlyOpenOrCutRunsAreRunning == Spec => []RunningIsOpenOrCut
<1>1. SessionInv => RunningIsOpenOrCut
  BY DEF SessionInv
<1> QED
  BY <1>1, SessionInductive, PTL

\* An outcome that complete() has returned is the committed one.
THEOREM CompletionIsDurable == Spec => []CompletedIsDurable
<1>1. SessionInv => CompletedIsDurable
  BY DEF SessionInv
<1> QED
  BY <1>1, SessionInductive, PTL

-----------------------------------------------------------------------------
(* RunSession implements RunLifecycle.                                       *)

\* The status RunLifecycle sees.
Status(r) == IF disk.runs[r] = NoRow THEN "absent" ELSE disk.runs[r].status

StatusMap == [r \in RunIds |-> Status(r)]

\* The ways a committed status may change.
Changes(old, new) ==
    \/ old = "absent" /\ new = "running"
    \/ old = "running" /\ new \in {"ok", "failed"}
    \/ old = "failed" /\ new = "running"
    \/ "interrupt" \in Faults /\ old = "ok" /\ new = "failed"

\* A step that changes at most the status of one run, in such a way, is a step of
\* RunLifecycle or none.
LEMMA ChangeIsLifecycleStep ==
    ASSUME NEW r \in RunIds, \A q \in RunIds : q # r => Status(q)' = Status(q),
           Status(r)' = Status(r) \/ Changes(Status(r), Status(r)')
    PROVE  [Lifecycle!Next]_StatusMap
<1>1. CASE Status(r)' = Status(r)
  <2>1. \A q \in RunIds : Status(q)' = Status(q)
    BY <1>1
  <2> QED
    BY <2>1 DEF StatusMap
<1>2. CASE Changes(Status(r), Status(r)')
  <2>1. StatusMap' = [StatusMap EXCEPT ![r] = Status(r)']
    BY DEF StatusMap
  <2>2. StatusMap[r] = Status(r)
    BY DEF StatusMap
  <2>3. \/ Lifecycle!Start(r) \/ Lifecycle!Finish(r)
        \/ Lifecycle!Reopen(r) \/ Lifecycle!Demote(r)
    BY <1>2, <2>1, <2>2 DEF Changes, Lifecycle!Start, Lifecycle!Finish, Lifecycle!Reopen,
                            Lifecycle!Demote, StatusMap, Status
  <2> QED
    BY <2>3 DEF Lifecycle!Next
<1> QED
  BY <1>1, <1>2

LEMMA InitIsLifecycleInit == Init => Lifecycle!Init
BY DEF Init, Lifecycle!Init

\* Statuses only change when a record is committed.
LEMMA CommitIsLifecycleStep == ASSUME SessionInv, Commit PROVE [Lifecycle!Next]_StatusMap
<1> USE DEF SessionInv
<1>0. PICK r \in RunIds : r = cur.run
  BY CommitWrites
<1>1. /\ top \in 1..MaxDepth /\ call.row \in Row /\ call.row # NoRow
      /\ \A q \in RunIds : disk'.runs[q] = IF q = r THEN call.row ELSE disk.runs[q]
  BY <1>0, CommitWrites, NullsAssumption
<1>2. /\ call \in Call /\ call # NoCall /\ call.step = "commit"
      /\ cur \in Session /\ cur.done = NotDone
  BY <1>1, CurIsSession DEF Commit, TypeOK, CallInv
<1>3. Status(r)' = call.row.status /\ \A q \in RunIds : q # r => Status(q)' = Status(q)
  <2>1. disk'.runs[r] = call.row
    BY <1>1
  <2>2. ASSUME NEW q \in RunIds, q # r
        PROVE  Status(q)' = Status(q)
    BY <1>1, <2>2 DEF Status
  <2>3. Status(r)' = call.row.status
    BY <1>1, <2>1 DEF Status
  <2> QED
    BY <2>2, <2>3
<1>4. /\ cur.pc = "new" => Status(r) \in {"absent", "failed", "running"}
      /\ cur.pc # "new" => \/ Status(r) = "running"
                           \/ /\ cur.pc = "leaving" /\ "interrupt" \in Faults
                              /\ Status(r) \in Statuses
  <2>1. disk.runs[r] # NoRow => disk.runs[r].status \in Statuses
    BY <1>1 DEF TypeOK, Tables, Row
  <2> QED
    BY <1>0, <1>1, <1>2, <2>1 DEF StatusInv, StatusOf, Returning, Status, cur
<1>5. /\ call.row.status \in Statuses
      /\ cur.pc \in {"new", "body", "leaving"}
      /\ cur.pc = "new" => call.row.status = "running"
      /\ cur.pc = "leaving" => call.row.status = "failed"
  BY <1>1, <1>2 DEF CallInv, Call, Row, Session
<1>6. Status(r)' = Status(r) \/ Changes(Status(r), Status(r)')
  BY <1>3, <1>4, <1>5 DEF Changes, Statuses
<1> QED
  BY <1>1, <1>3, <1>6, ChangeIsLifecycleStep

\* Every other step leaves the committed statuses alone.
LEMMA StatusesKept ==
    ASSUME SessionInv, [Next]_vars, ~Commit
    PROVE  \A q \in RunIds : Status(q)' = Status(q)
<1> USE DEF SessionInv
<1>1. CASE UNCHANGED disk
  BY <1>1 DEF Status
<1>2. ASSUME NEW r \in RunIds, NEW m \in MetricVals, UpdateRunMetrics(r, m)
      PROVE  \A q \in RunIds : Status(q)' = Status(q)
  <2>1. /\ disk.runs[r] # NoRow /\ disk.runs[r] \in Row
        /\ disk' = [disk EXCEPT !.runs[r].json = m, !.metrics[r] = m]
    BY <1>2 DEF UpdateRunMetrics, TypeOK, Tables
  <2>2. [disk.runs[r] EXCEPT !.json = m] \in Row
    BY <2>1 DEF Row
  <2>3. [disk.runs[r] EXCEPT !.json = m].status = disk.runs[r].status
    BY <2>1 DEF Row
  <2>4. \A q \in RunIds :
           disk'.runs[q] = IF q = r THEN [disk.runs[r] EXCEPT !.json = m] ELSE disk.runs[q]
    BY <2>1 DEF TypeOK, Tables
  <2> QED
    BY <2>1, <2>2, <2>3, <2>4, NullsAssumption DEF Status
<1>3. CASE WriteRun \/ WriteMetrics \/ WriteArtifacts
  <2>1. call # NoCall /\ call.step \in {"runs", "metrics", "artifacts"}
    BY <1>3 DEF WriteRun, WriteMetrics, WriteArtifacts
  <2>2. intxn
    BY <2>1 DEF TxnInv
  <2>3. UNCHANGED disk
    BY <1>3, <2>2 DEF WriteRun, WriteMetrics, WriteArtifacts, Execute
  <2> QED
    BY <1>1, <2>3
<1>4. CASE RecordRun /\ ~(WriteRun \/ WriteMetrics \/ WriteArtifacts) /\ ~Commit
  BY <1>1, <1>4 DEF store, RecordRun, Begin, StatementFails, InterruptCall, Return
<1>5. CASE \/ \E r1 \in RunIds, spec \in Specs, host \in Hosts \cup {UnknownHost},
                 tgt \in Targets \cup {NoTarget} :
                 \/ Construct(r1, spec, host, tgt)
                 \/ \E allow \in BOOLEAN : Resume(r1, spec, host, tgt, allow)
           \/ Enter
           \/ \E role \in Roles : ClaimArtifact(role)
           \/ \E tgt \in Targets : SetTarget(tgt)
           \/ \E status \in {"ok", "failed"}, m \in MetricVals : Complete(status, m)
  <2>1. UNCHANGED store
    BY <1>5, Zenon DEF Construct, Resume, Enter, ClaimArtifact, SetTarget, Complete
  <2> QED
    BY <1>1, <2>1 DEF store
<1>6. CASE \/ \E kind \in {"error", "interrupt"} : BodyRaises(kind)
           \/ HandleError \/ Exit \/ ExitProcess \/ Crash
           \/ \E f \in files : LoseFile(f)
           \/ UNCHANGED vars
  <2>1. UNCHANGED disk
    BY <1>6 DEF vars, store, BodyRaises, HandleError, Exit, ExitProcess, Crash, LoseFile
  <2> QED
    BY <1>1, <2>1
<1> QED
  BY <1>2, <1>3, <1>4, <1>5, <1>6 DEF Next, RecordRun

\* Every step of RunSession is a step of RunLifecycle, or changes no status.
LEMMA NextIsLifecycleStep ==
    SessionInv /\ [Next]_vars => [Lifecycle!Next]_StatusMap
<1>1. ASSUME SessionInv, [Next]_vars, ~Commit
      PROVE  UNCHANGED StatusMap
  BY <1>1, StatusesKept DEF StatusMap
<1> QED
  BY <1>1, CommitIsLifecycleStep

\* However sessions nest, fail, are interrupted or resumed, and wherever the process
\* dies, a reader of the runs table sees only the life RunLifecycle describes.
THEOREM ImplementsLifecycle == Spec => LifecycleSpec
<1>1. SessionInv /\ [Next]_vars =>
         [Lifecycle!Next]_([r \in RunIds |-> IF disk.runs[r] = NoRow THEN "absent"
                                             ELSE disk.runs[r].status])
  BY NextIsLifecycleStep DEF StatusMap, Status
<1> QED
  BY <1>1, InitIsLifecycleInit, SessionInductive, PTL DEF Spec, LifecycleSpec, Lifecycle!Spec

-----------------------------------------------------------------------------
(* What recording again keeps.                                               *)

\* The artifacts that are committed for a run and have not lost their file.
Reparsable(r) == {a \in disk.artifacts[r] : <<r, a>> \in files}

\* An open session is of the row it has, and knows of what that row may still need.
Continues(s) ==
    /\ Reparsable(s.run) \subseteq s.arts
    /\ disk.runs[s.run] # NoRow =>
          /\ s.spec = disk.runs[s.run].spec
          /\ disk.runs[s.run].host # UnknownHost => s.host = disk.runs[s.run].host

\* And so is what its call is about to commit.
KeepingInv ==
    /\ \A d \in 1..top : Continues(sess[d])
    /\ call # NoCall => /\ call.row.spec = cur.spec /\ call.row.host = cur.host
                        /\ Reparsable(cur.run) \subseteq call.row.arts
                        /\ call.row.arts \subseteq cur.arts

\* Nothing is committed, no file appears, and the sessions and the call that are
\* left are what they were, wherever in their block they are.
LEMMA QuietContinues ==
    ASSUME SessionInv, KeepingInv, UNCHANGED disk, files' \subseteq files,
           \A d \in 1..top' : /\ d \in 1..top
                              /\ sess'[d].run = sess[d].run /\ sess'[d].arts = sess[d].arts
                              /\ sess'[d].spec = sess[d].spec /\ sess'[d].host = sess[d].host,
           call' # NoCall => /\ call # NoCall /\ top' = top /\ top \in 1..top'
                             /\ call'.row = call.row /\ call'.row.arts = call.row.arts
    PROVE  KeepingInv'
<1>1. \A r \in RunIds : Reparsable(r)' \subseteq Reparsable(r)
  BY DEF Reparsable
<1>2. \A d \in 1..top : sess[d].run \in RunIds
  <2>1. ASSUME NEW d \in 1..top
        PROVE  sess[d] \in Session
    BY MaxDepthAssumption, <2>1 DEF SessionInv, TypeOK
  <2> QED
    BY <2>1 DEF Session
<1>3. ASSUME NEW d \in 1..top'
      PROVE  Continues(sess[d])'
  <2>1. /\ Continues(sess[d]) /\ sess[d].run \in RunIds
        /\ sess'[d].run = sess[d].run /\ sess'[d].arts = sess[d].arts
        /\ sess'[d].spec = sess[d].spec /\ sess'[d].host = sess[d].host
    BY <1>2, <1>3 DEF KeepingInv
  <2>2. Reparsable(sess[d].run)' \subseteq Reparsable(sess[d].run)
    <3>1. ASSUME NEW r \in RunIds, r = sess[d].run, r = sess'[d].run
          PROVE  Reparsable(sess[d].run)' \subseteq Reparsable(sess[d].run)
      <4>1. Reparsable(sess[d].run)' = Reparsable(r)'
        BY <3>1 DEF Reparsable
      <4> QED
        BY <1>1, <3>1, <4>1
    <3> QED
      BY <2>1, <3>1
  <2> QED
    BY <2>1, <2>2 DEF Continues, Reparsable
<1>4. ASSUME call' # NoCall
      PROVE  /\ call'.row.spec = cur'.spec /\ call'.row.host = cur'.host
             /\ Reparsable(cur.run)' \subseteq call'.row.arts /\ call'.row.arts \subseteq cur'.arts
  <2>1. /\ call # NoCall /\ call'.row = call.row /\ call'.row.arts = call.row.arts
        /\ cur'.run = cur.run /\ cur'.arts = cur.arts /\ cur'.spec = cur.spec /\ cur'.host = cur.host
        /\ cur.run \in RunIds
    BY <1>2, <1>4 DEF cur
  <2>2. Reparsable(cur.run)' \subseteq Reparsable(cur.run)
    BY <2>1 DEF Reparsable
  <2> QED
    BY <2>1, <2>2 DEF KeepingInv
<1> QED
  BY <1>3, <1>4 DEF KeepingInv

\* The ways out of a block.
LEMMA LeaveContinues ==
    ASSUME SessionInv, KeepingInv, top > 0, Leave, UNCHANGED <<disk, files, top>>, call' = NoCall
    PROVE  KeepingInv'
<1>1. top \in 1..MaxDepth /\ cur \in Session
  BY CurIsSession DEF SessionInv
<1>2. sess'[top] = [cur EXCEPT !.pc = "leaving"] /\ \A d \in 1..top : d # top => sess'[d] = sess[d]
  BY <1>1 DEF Leave, SessionInv, TypeOK, cur
<1>3. /\ sess'[top].run = cur.run /\ sess'[top].arts = cur.arts
      /\ sess'[top].spec = cur.spec /\ sess'[top].host = cur.host
  BY <1>1, <1>2 DEF Session
<1> QED
  BY <1>2, <1>3, QuietContinues DEF cur

LEMMA PopContinues ==
    ASSUME SessionInv, KeepingInv, top > 0, Pop, UNCHANGED <<disk, files>>, call' = NoCall
    PROVE  KeepingInv'
<1>1. top \in 1..MaxDepth /\ top' = top - 1
  BY CurIsSession DEF SessionInv, Pop
<1>2. \A d \in 1..top' : d \in 1..top /\ sess'[d] = sess[d]
  BY <1>1, MaxDepthAssumption DEF Pop, SessionInv, TypeOK
<1> QED
  BY <1>2, QuietContinues

LEMMA UnwindContinues ==
    ASSUME SessionInv, KeepingInv, call # NoCall, NEW kind, Unwind(kind), UNCHANGED <<disk, files>>
    PROVE  KeepingInv'
<1>1. top > 0
  BY DEF SessionInv, TypeOK
<1> QED
  BY <1>1, PopContinues, LeaveContinues DEF Unwind

\* record_run begins: what is to be recorded has the provenance of the session, and
\* what it knows of.
LEMMA RecordContinues ==
    ASSUME SessionInv, KeepingInv, top > 0, call = NoCall, UNCHANGED <<disk, files, top>>,
           NEW cont \in {"enter", "target", "complete", "exit"}, NEW status, NEW m,
           NEW STATE s, s.run = cur.run, s.arts = cur.arts, s.spec = cur.spec, s.host = cur.host,
           BeginRecord(s, cont, status, m),
           \/ UNCHANGED sess
           \/ \E tgt \in Targets : sess' = [sess EXCEPT ![top].target = tgt]
    PROVE  KeepingInv'
<1>1. top \in 1..MaxDepth /\ cur \in Session
  BY CurIsSession DEF SessionInv
<1>2. \A d \in 1..top : /\ sess'[d].run = sess[d].run /\ sess'[d].arts = sess[d].arts
                        /\ sess'[d].spec = sess[d].spec /\ sess'[d].host = sess[d].host
  <2>1. CASE UNCHANGED sess
    BY <2>1
  <2>2. ASSUME NEW tgt \in Targets, sess' = [sess EXCEPT ![top].target = tgt]
        PROVE  \A d \in 1..top : /\ sess'[d].run = sess[d].run /\ sess'[d].arts = sess[d].arts
                                 /\ sess'[d].spec = sess[d].spec /\ sess'[d].host = sess[d].host
    <3>1. ASSUME NEW d \in 1..top, d # top
          PROVE  sess'[d] = sess[d]
      BY <1>1, <2>2, <3>1 DEF SessionInv, TypeOK
    <3>2. sess'[top] = [cur EXCEPT !.target = tgt]
      BY <1>1, <2>2 DEF SessionInv, TypeOK, cur
    <3>3. /\ sess'[top].run = cur.run /\ sess'[top].arts = cur.arts
          /\ sess'[top].spec = cur.spec /\ sess'[top].host = cur.host
      BY <1>1, <3>2 DEF Session
    <3> QED
      BY <3>1, <3>3 DEF cur
  <2> QED
    BY <2>1, <2>2
<1>3. \A d \in 1..top : Continues(sess[d])'
  BY <1>2 DEF KeepingInv, Continues, Reparsable
<1>4. /\ cur'.run = cur.run /\ cur'.arts = cur.arts /\ cur'.spec = cur.spec /\ cur'.host = cur.host
  BY <1>1, <1>2 DEF cur
<1>5. /\ call'.row.spec = cur.spec /\ call'.row.host = cur.host
      /\ call'.row.arts = {a \in cur.arts : <<cur.run, a>> \in files}
  BY DEF BeginRecord
<1>6. Reparsable(cur.run)' \subseteq call'.row.arts /\ call'.row.arts \subseteq cur.arts
  <2>1. Continues(cur)
    BY <1>1 DEF KeepingInv, cur
  <2> QED
    BY <1>4, <1>5, <2>1 DEF Continues, Reparsable
<1> QED
  BY <1>3, <1>4, <1>5, <1>6 DEF KeepingInv

\* A session is opened: of a run nobody has heard of, or of a row that its
\* specification and its host were compared with.
LEMMA OpenContinues ==
    ASSUME SessionInv, KeepingInv, NEW STATE s, Open(s), Continues(s), top < MaxDepth,
           UNCHANGED <<disk, files>>, call = NoCall, call' = NoCall
    PROVE  KeepingInv'
<1>1. /\ top' = top + 1 /\ top \in Nat
      /\ \A d \in 1..top : sess'[d] = sess[d]
      /\ sess'[top'] = s
      /\ \A d \in 1..top' : d \in 1..top \/ d = top'
  BY MaxDepthAssumption DEF SessionInv, TypeOK, Open
<1>2. ASSUME NEW d \in 1..top'
      PROVE  Continues(sess[d])'
  <2>1. CASE d \in 1..top
    BY <1>1, <2>1 DEF KeepingInv, Continues, Reparsable
  <2>2. CASE d = top'
    BY <1>1, <2>2 DEF Continues, Reparsable
  <2> QED
    BY <1>1, <2>1, <2>2
<1> QED
  BY <1>2 DEF KeepingInv

LEMMA OpeningContinues ==
    ASSUME SessionInv, KeepingInv, NEW r \in RunIds, NEW spec \in Specs,
           NEW host \in Hosts \cup {UnknownHost}, NEW tgt \in Targets \cup {NoTarget},
           \/ Construct(r, spec, host, tgt)
           \/ \E allow \in BOOLEAN : Resume(r, spec, host, tgt, allow)
    PROVE  KeepingInv'
<1>1. CASE Construct(r, spec, host, tgt)
  <2> DEFINE s == [pc |-> "new", run |-> r, spec |-> spec, host |-> host, target |-> tgt,
                   arts |-> {}, claimed |-> {}, done |-> NotDone]
  <2>1. /\ Open(s) /\ disk.runs[r] = NoRow /\ call = NoCall /\ call' = NoCall
        /\ top < MaxDepth /\ UNCHANGED <<disk, files>>
    BY <1>1 DEF Construct, MayOpen, Proceeding, Fresh, store
  <2>2. Reparsable(r) = {}
    BY <2>1 DEF SessionInv, TablesAgree, Reparsable
  <2>3. Continues(s)
    BY <2>1, <2>2 DEF Continues
  <2> HIDE DEF s
  <2> QED
    BY <2>1, <2>3, OpenContinues
<1>2. ASSUME NEW allow \in BOOLEAN, Resume(r, spec, host, tgt, allow)
      PROVE  KeepingInv'
  <2> DEFINE row == view.runs[r]
             s == [pc |-> "new", run |-> r, spec |-> spec, host |-> host,
                   target |-> row.target, arts |-> view.artifacts[r],
                   claimed |-> {}, done |-> NotDone]
  <2>1. view = disk /\ call = NoCall /\ call' = NoCall /\ top = 0 /\ UNCHANGED <<disk, files>>
    BY <1>2 DEF Resume, Proceeding, SessionInv, TxnInv, store
  <2>2. CASE ResumeAllowed(row, spec, host, tgt, allow) /\ Open(s)
    <3>1. row.spec = spec /\ (row.host # UnknownHost => host = row.host)
      BY <2>2 DEF ResumeAllowed
    <3>2. Continues(s)
      BY <2>1, <3>1 DEF Continues, Reparsable
    <3>3. top < MaxDepth
      BY <2>1, MaxDepthAssumption
    <3> HIDE DEF s
    <3> QED
      BY <2>1, <2>2, <3>2, <3>3, OpenContinues
  <2>3. CASE UNCHANGED <<sess, top>>
    BY <2>1, <2>3, QuietContinues
  <2> QED
    BY <1>2, <2>2, <2>3 DEF Resume
<1> QED
  BY <1>1, <1>2

\* A file appears together with its registration in the session of its run.
LEMMA ClaimContinues ==
    ASSUME SessionInv, KeepingInv, NEW role \in Roles, ClaimArtifact(role)
    PROVE  KeepingInv'
<1>1. /\ top > 0 /\ call = NoCall /\ call' = NoCall /\ UNCHANGED <<disk, top>>
  BY DEF ClaimArtifact, InBlock, store
<1>2. top \in 1..MaxDepth /\ cur \in Session
  BY <1>1, CurIsSession DEF SessionInv
<1>3. CASE /\ sess' = [sess EXCEPT ![top].claimed = @ \cup {role}, ![top].arts = @ \cup {role}]
           /\ files' = files \cup {<<cur.run, role>>}
  <2>1. ASSUME NEW d \in 1..top, d # top
        PROVE  sess'[d] = sess[d] /\ sess[d].run # cur.run
    <3>1. sess'[d] = sess[d]
      <4>1. d \in 1..MaxDepth /\ d # top
        BY <1>2, <2>1, MaxDepthAssumption
      <4> QED
        BY <1>3, <4>1 DEF SessionInv, TypeOK
    <3>2. sess[d].run # cur.run
      BY <1>2, <2>1 DEF SessionInv, StackInv, cur
    <3> QED
      BY <3>1, <3>2
  <2>2. sess'[top] = [cur EXCEPT !.claimed = @ \cup {role}, !.arts = @ \cup {role}]
    BY <1>2, <1>3 DEF SessionInv, TypeOK, cur
  <2>3. /\ sess'[top].run = cur.run /\ sess'[top].arts = cur.arts \cup {role}
        /\ sess'[top].spec = cur.spec /\ sess'[top].host = cur.host
    BY <1>2, <2>2 DEF Session
  <2>4. ASSUME NEW d \in 1..top
        PROVE  Continues(sess[d])'
    <3>1. CASE d # top
      <4>1. Reparsable(sess[d].run)' = Reparsable(sess[d].run)
        <5>1. sess'[d].run = sess[d].run /\ sess[d].run # cur.run
          BY <2>1, <3>1
        <5>2. \A a : <<sess[d].run, a>> \in files' <=> <<sess[d].run, a>> \in files
          BY <1>3, <5>1
        <5> QED
          BY <1>1, <5>1, <5>2 DEF Reparsable
      <4> QED
        BY <1>1, <2>1, <3>1, <4>1 DEF KeepingInv, Continues
    <3>2. CASE d = top
      <4>1. Reparsable(cur.run)' \subseteq Reparsable(cur.run) \cup {role}
        <5>1. \A r : Reparsable(r)' = {a \in disk.artifacts[r] : <<r, a>> \in files \cup {<<cur.run, role>>}}
          BY <1>1, <1>3 DEF Reparsable
        <5>2. cur'.run = cur.run
          BY <1>1, <2>3 DEF cur
        <5> QED
          BY <5>1, <5>2 DEF Reparsable
      <4>2. Continues(cur)
        BY <1>2 DEF KeepingInv, cur
      <4>3. cur' = sess'[top]
        BY <1>1 DEF cur
      <4> QED
        BY <1>1, <2>3, <3>2, <4>1, <4>2, <4>3 DEF Continues
    <3> QED
      BY <3>1, <3>2
  <2> QED
    BY <1>1, <2>4 DEF KeepingInv
<1>4. CASE Leave /\ UNCHANGED files
  BY <1>1, <1>4, LeaveContinues
<1> QED
  BY <1>3, <1>4 DEF ClaimArtifact

\* What is committed is what the session continues.
LEMMA CommitContinues == ASSUME SessionInv, KeepingInv, Commit PROVE KeepingInv'
<1> DEFINE r == cur.run
<1>1. /\ call \in Call /\ call # NoCall
      /\ call' = [call EXCEPT !.step = "return"]
      /\ UNCHANGED <<sess, top, files>>
  BY DEF Commit, SessionInv, TypeOK
<1>2. /\ top \in 1..MaxDepth /\ r \in RunIds
      /\ disk' = [disk EXCEPT !.runs[r] = call.row, !.metrics[r] = call.row.json,
                              !.artifacts[r] = call.row.arts]
      /\ \A q \in RunIds : disk'.runs[q] = IF q = r THEN call.row ELSE disk.runs[q]
  BY CommitWrites
<1>3. \A q \in RunIds : disk'.artifacts[q] = IF q = r THEN call.row.arts ELSE disk.artifacts[q]
  BY <1>2 DEF SessionInv, TypeOK, Tables
<1>4. /\ call.row.spec = cur.spec /\ call.row.host = cur.host /\ call.row.arts \subseteq cur.arts
  BY <1>1 DEF KeepingInv
<1>5. cur' = cur /\ call'.row = call.row /\ call'.row.arts = call.row.arts
  BY <1>1 DEF cur, Call
<1>6. ASSUME NEW d \in 1..top
      PROVE  Continues(sess[d])'
  <2>1. sess[d].run \in RunIds /\ Continues(sess[d])
    <3>1. sess[d] \in Session
      BY MaxDepthAssumption, <1>2 DEF SessionInv, TypeOK
    <3> QED
      BY <3>1 DEF Session, KeepingInv
  <2>2. CASE d = top
    BY <1>1, <1>2, <1>3, <1>4, <2>2 DEF Continues, Reparsable, cur
  <2>3. CASE d # top
    <3>1. sess[d].run # r
      BY <1>2, <2>3 DEF SessionInv, StackInv, cur
    <3> QED
      BY <1>1, <1>2, <1>3, <2>1, <3>1 DEF Continues, Reparsable
  <2> QED
    BY <2>2, <2>3
<1>7. Reparsable(cur.run)' \subseteq call'.row.arts
  BY <1>1, <1>2, <1>3, <1>5 DEF Reparsable
<1> QED
  BY <1>1, <1>4, <1>5, <1>6, <1>7 DEF KeepingInv

LEMMA StatementsContinue ==
    ASSUME SessionInv, KeepingInv, WriteRun \/ WriteMetrics \/ WriteArtifacts
    PROVE  KeepingInv'
<1>1. /\ call # NoCall /\ call \in Call /\ top > 0
      /\ UNCHANGED <<disk, files, sess, top>>
      /\ \E step \in {"metrics", "artifacts", "commit"} : call' = [call EXCEPT !.step = step]
  BY DEF WriteRun, WriteMetrics, WriteArtifacts, Execute, SessionInv, TypeOK, TxnInv
<1>2. call'.row = call.row /\ call'.row.arts = call.row.arts
  BY <1>1 DEF Call
<1>3. top \in 1..top /\ top' = top
  BY <1>1, CurIsSession DEF SessionInv
<1> QED
  BY <1>1, <1>2, <1>3, QuietContinues

LEMMA ReturnContinues == ASSUME SessionInv, KeepingInv, Return PROVE KeepingInv'
<1>1. /\ top > 0 /\ call # NoCall /\ call' = NoCall /\ UNCHANGED <<disk, files>>
  BY DEF Return, SessionInv, TypeOK, store
<1>2. top \in 1..MaxDepth /\ cur \in Session
  BY <1>1, CurIsSession DEF SessionInv
<1>3. CASE sess' = [sess EXCEPT ![top].pc = "body"] /\ UNCHANGED top
  <2>1. sess'[top] = [cur EXCEPT !.pc = "body"] /\ \A d \in 1..top : d # top => sess'[d] = sess[d]
    BY <1>2, <1>3 DEF SessionInv, TypeOK, cur
  <2>2. /\ sess'[top].run = cur.run /\ sess'[top].arts = cur.arts
        /\ sess'[top].spec = cur.spec /\ sess'[top].host = cur.host
    BY <1>2, <2>1 DEF Session
  <2> QED
    BY <1>1, <1>3, <2>1, <2>2, QuietContinues DEF cur
<1>4. CASE UNCHANGED <<sess, top>>
  BY <1>1, <1>4, QuietContinues
<1>5. CASE /\ sess' = [sess EXCEPT ![top].done = [status |-> call.row.status, json |-> call.row.json]]
           /\ UNCHANGED top
  <2> DEFINE outcome == [status |-> call.row.status, json |-> call.row.json]
  <2>1. sess'[top] = [cur EXCEPT !.done = outcome] /\ \A d \in 1..top : d # top => sess'[d] = sess[d]
    BY <1>2, <1>5 DEF SessionInv, TypeOK, cur
  <2>2. /\ sess'[top].run = cur.run /\ sess'[top].arts = cur.arts
        /\ sess'[top].spec = cur.spec /\ sess'[top].host = cur.host
    BY <1>2, <2>1 DEF Session
  <2> QED
    BY <1>1, <1>5, <2>1, <2>2, QuietContinues DEF cur
<1>6. CASE Pop
  BY <1>1, <1>6, PopContinues
<1> QED
  BY <1>3, <1>4, <1>5, <1>6 DEF Return

LEMMA RecordRunContinues == ASSUME SessionInv, KeepingInv, RecordRun PROVE KeepingInv'
<1>1. CASE Begin
  <2>1. CASE call' = [call EXCEPT !.step = "runs"] /\ UNCHANGED <<sess, top>>
    <3>1. /\ call # NoCall /\ call \in Call /\ top > 0 /\ UNCHANGED <<disk, files>>
      BY <1>1 DEF Begin, SessionInv, TypeOK
    <3>2. call'.row = call.row /\ call'.row.arts = call.row.arts
      BY <2>1, <3>1 DEF Call
    <3>3. top \in 1..top
      BY <3>1, CurIsSession DEF SessionInv
    <3> QED
      BY <2>1, <3>1, <3>2, <3>3, QuietContinues
  <2>2. CASE Unwind("error")
    BY <1>1, <2>2, UnwindContinues DEF Begin
  <2> QED
    BY <1>1, <2>1, <2>2 DEF Begin
<1>2. CASE StatementFails
  BY <1>2, UnwindContinues DEF StatementFails
<1>3. CASE InterruptCall
  BY <1>3, UnwindContinues DEF InterruptCall, store
<1> QED
  BY <1>1, <1>2, <1>3, StatementsContinue, CommitContinues, ReturnContinues DEF RecordRun

\* The operations of a session that record, or refuse to.
LEMMA OperationsContinue ==
    ASSUME SessionInv, KeepingInv,
           \/ Enter
           \/ \E tgt \in Targets : SetTarget(tgt)
           \/ \E status \in {"ok", "failed"}, m \in MetricVals : Complete(status, m)
           \/ Exit
    PROVE  KeepingInv'
<1>1. /\ top > 0 /\ call = NoCall /\ UNCHANGED <<disk, files>>
  BY DEF Enter, SetTarget, Complete, Exit, Proceeding, InBody, InBlock, store
<1>2. CASE Enter
  <2>1. BeginRecord(cur, "enter", "running", NoMetrics) /\ UNCHANGED <<sess, top>>
    BY <1>2 DEF Enter
  <2> QED
    BY <1>1, <2>1, RecordContinues
<1>3. ASSUME NEW tgt \in Targets, SetTarget(tgt)
      PROVE  KeepingInv'
  <2>1. CASE /\ sess' = [sess EXCEPT ![top].target = tgt]
             /\ BeginRecord([cur EXCEPT !.target = tgt], "target", "running", NoMetrics)
    <3> DEFINE s == [cur EXCEPT !.target = tgt]
    <3>1. s.run = cur.run /\ s.arts = cur.arts /\ s.spec = cur.spec /\ s.host = cur.host
      BY <1>1, CurIsSession DEF SessionInv, Session
    <3>2. BeginRecord(s, "target", "running", NoMetrics) /\ UNCHANGED top
      BY <1>3, <2>1 DEF SetTarget
    <3> HIDE DEF s
    <3> QED
      BY <1>1, <2>1, <3>1, <3>2, RecordContinues
  <2>2. CASE Leave /\ UNCHANGED call
    BY <1>1, <1>3, <2>2, LeaveContinues DEF SetTarget
  <2> QED
    BY <1>3, <2>1, <2>2 DEF SetTarget
<1>4. ASSUME NEW status \in {"ok", "failed"}, NEW m \in MetricVals, Complete(status, m)
      PROVE  KeepingInv'
  <2>1. CASE BeginRecord(cur, "complete", status, m) /\ UNCHANGED sess
    BY <1>1, <1>4, <2>1, RecordContinues DEF Complete
  <2>2. CASE Leave /\ UNCHANGED call
    BY <1>1, <1>4, <2>2, LeaveContinues DEF Complete
  <2> QED
    BY <1>4, <2>1, <2>2 DEF Complete
<1>5. CASE Exit
  <2>1. CASE Pop /\ UNCHANGED call
    BY <1>1, <2>1, PopContinues
  <2>2. CASE /\ BeginRecord(cur, "exit", IF exc = "none" THEN "ok" ELSE "failed", NoMetrics)
             /\ UNCHANGED <<sess, top>>
    BY <1>1, <2>2, RecordContinues
  <2> QED
    BY <1>5, <2>1, <2>2 DEF Exit
<1> QED
  BY <1>2, <1>3, <1>4, <1>5

LEMMA SurroundingsContinue ==
    ASSUME SessionInv, KeepingInv,
           \/ HandleError
           \/ ExitProcess
           \/ \E kind \in {"error", "interrupt"} : BodyRaises(kind)
           \/ \E f \in files : LoseFile(f)
           \/ UNCHANGED vars
    PROVE  KeepingInv'
<1>1. /\ UNCHANGED <<disk, sess, top, call>> /\ files' \subseteq files
  BY DEF HandleError, ExitProcess, BodyRaises, LoseFile, vars, store
<1>2. call # NoCall => top \in 1..top
  BY CurIsSession DEF SessionInv, TypeOK
<1> QED
  BY <1>1, <1>2, QuietContinues

LEMMA NextContinues == SessionInv /\ KeepingInv /\ [Next]_vars => KeepingInv'
<1> SUFFICES ASSUME SessionInv, KeepingInv, [Next]_vars
             PROVE  KeepingInv'
  OBVIOUS
<1>1. CASE Crash
  <2>1. 1..top' = {} /\ call' = NoCall
    BY <1>1 DEF Crash
  <2> QED
    BY <2>1 DEF KeepingInv
<1>2. ASSUME NEW r \in RunIds, NEW m \in MetricVals, UpdateRunMetrics(r, m)
      PROVE  KeepingInv'
  <2>1. 1..top' = {} /\ call' = NoCall
    BY <1>2 DEF UpdateRunMetrics, Proceeding
  <2> QED
    BY <2>1 DEF KeepingInv
<1> QED
  BY <1>1, <1>2, OpeningContinues, OperationsContinue, ClaimContinues, RecordRunContinues,
     SurroundingsContinue DEF Next

LEMMA KeepingInductive == Spec => [](SessionInv /\ KeepingInv)
<1>1. Init => KeepingInv
  <2>1. Init => top = 0 /\ call = NoCall
    BY DEF Init
  <2> QED
    BY <2>1 DEF KeepingInv
<1> QED
  BY <1>1, InitInv, NextInv, NextContinues, PTL DEF Spec

\* What a step changes of the committed rows and artifacts.
LEMMA CommittedChanges ==
    ASSUME SessionInv, [Next]_vars, ~Commit, NEW r \in RunIds
    PROVE  /\ disk'.artifacts[r] = disk.artifacts[r]
           /\ disk.runs[r] # NoRow => /\ disk'.runs[r] # NoRow
                                      /\ disk'.runs[r].spec = disk.runs[r].spec
                                      /\ disk'.runs[r].host = disk.runs[r].host
<1>1. CASE UNCHANGED disk
  BY <1>1
<1>2. ASSUME NEW q \in RunIds, NEW m \in MetricVals, UpdateRunMetrics(q, m)
      PROVE  /\ disk'.artifacts[r] = disk.artifacts[r]
             /\ disk.runs[r] # NoRow => /\ disk'.runs[r] # NoRow
                                        /\ disk'.runs[r].spec = disk.runs[r].spec
                                        /\ disk'.runs[r].host = disk.runs[r].host
  <2>1. /\ disk.runs[q] # NoRow /\ disk.runs[q] \in Row
        /\ disk' = [disk EXCEPT !.runs[q].json = m, !.metrics[q] = m]
    BY <1>2 DEF UpdateRunMetrics, SessionInv, TypeOK, Tables
  <2>2. /\ [disk.runs[q] EXCEPT !.json = m] \in Row
        /\ [disk.runs[q] EXCEPT !.json = m].spec = disk.runs[q].spec
        /\ [disk.runs[q] EXCEPT !.json = m].host = disk.runs[q].host
    BY <2>1 DEF Row
  <2>3. /\ disk'.runs[r] = IF r = q THEN [disk.runs[q] EXCEPT !.json = m] ELSE disk.runs[r]
        /\ disk'.artifacts[r] = disk.artifacts[r]
    BY <2>1 DEF SessionInv, TypeOK, Tables
  <2> QED
    BY <2>1, <2>2, <2>3, NullsAssumption
<1>3. CASE WriteRun \/ WriteMetrics \/ WriteArtifacts
  <2>1. call # NoCall /\ call.step \in {"runs", "metrics", "artifacts"}
    BY <1>3 DEF WriteRun, WriteMetrics, WriteArtifacts
  <2>2. intxn
    BY <2>1 DEF TxnInv, SessionInv
  <2>3. UNCHANGED disk
    BY <1>3, <2>2 DEF WriteRun, WriteMetrics, WriteArtifacts, Execute
  <2> QED
    BY <1>1, <2>3
<1>4. CASE RecordRun /\ ~(WriteRun \/ WriteMetrics \/ WriteArtifacts) /\ ~Commit
  BY <1>1, <1>4 DEF store, RecordRun, Begin, StatementFails, InterruptCall, Return
<1>5. CASE \/ \E r1 \in RunIds, spec \in Specs, host \in Hosts \cup {UnknownHost},
                 tgt \in Targets \cup {NoTarget} :
                 \/ Construct(r1, spec, host, tgt)
                 \/ \E allow \in BOOLEAN : Resume(r1, spec, host, tgt, allow)
           \/ Enter
           \/ \E role \in Roles : ClaimArtifact(role)
           \/ \E tgt \in Targets : SetTarget(tgt)
           \/ \E status \in {"ok", "failed"}, m \in MetricVals : Complete(status, m)
  <2>1. UNCHANGED store
    BY <1>5, Zenon DEF Construct, Resume, Enter, ClaimArtifact, SetTarget, Complete
  <2> QED
    BY <1>1, <2>1 DEF store
<1>6. CASE \/ \E kind \in {"error", "interrupt"} : BodyRaises(kind)
           \/ HandleError \/ Exit \/ ExitProcess \/ Crash
           \/ \E f \in files : LoseFile(f)
           \/ UNCHANGED vars
  <2>1. UNCHANGED disk
    BY <1>6 DEF vars, store, BodyRaises, HandleError, Exit, ExitProcess, Crash, LoseFile
  <2> QED
    BY <1>1, <2>1
<1> QED
  BY <1>2, <1>3, <1>4, <1>5, <1>6 DEF Next, RecordRun

\* And what a commit does to its run.
LEMMA CommitChanges ==
    ASSUME SessionInv, KeepingInv, Commit, NEW r \in RunIds
    PROVE  /\ \A a \in disk.artifacts[r] : a \notin disk'.artifacts[r] => <<r, a>> \notin files
           /\ disk.runs[r] # NoRow =>
                 /\ disk'.runs[r] # NoRow
                 /\ disk'.runs[r].spec = disk.runs[r].spec
                 /\ disk.runs[r].host # UnknownHost => disk'.runs[r].host = disk.runs[r].host
<1>1. /\ top \in 1..MaxDepth /\ cur.run \in RunIds /\ call.row \in Row /\ call.row # NoRow
      /\ disk' = [disk EXCEPT !.runs[cur.run] = call.row, !.metrics[cur.run] = call.row.json,
                              !.artifacts[cur.run] = call.row.arts]
      /\ disk'.runs[r] = IF r = cur.run THEN call.row ELSE disk.runs[r]
  BY CommitWrites, NullsAssumption
<1>2. disk'.artifacts[r] = IF r = cur.run THEN call.row.arts ELSE disk.artifacts[r]
  BY <1>1 DEF SessionInv, TypeOK, Tables
<1>3. /\ call.row.spec = cur.spec /\ call.row.host = cur.host
      /\ Reparsable(cur.run) \subseteq call.row.arts
  BY DEF Commit, KeepingInv
<1>4. Continues(cur)
  BY <1>1 DEF KeepingInv, cur
<1> QED
  BY <1>1, <1>2, <1>3, <1>4 DEF Continues, Reparsable

\* run_session.py, artifact and _record: however often a run is resumed, interrupted
\* and recorded again, an artifact is dropped from the store only after its file was
\* lost.
THEOREM ArtifactsAlwaysKept == Spec => ArtifactsKept
<1>1. SessionInv /\ KeepingInv /\ [Next]_vars =>
        [\A r \in RunIds : \A a \in disk.artifacts[r] :
            a \notin disk'.artifacts[r] => <<r, a>> \notin files]_vars
  BY CommittedChanges, CommitChanges
<1> QED
  BY <1>1, KeepingInductive, PTL DEF Spec, ArtifactsKept

\* _validate_resume_provenance: a row never changes what was measured or where, once
\* that is known, although a resumed session writes it anew.
THEOREM ProvenanceNeverChanges == Spec => ProvenanceFixed
<1>1. SessionInv /\ KeepingInv /\ [Next]_vars =>
        [\A r \in RunIds : disk.runs[r] # NoRow =>
            /\ disk'.runs[r] # NoRow
            /\ disk'.runs[r].spec = disk.runs[r].spec
            /\ disk.runs[r].host # UnknownHost => disk'.runs[r].host = disk.runs[r].host]_vars
  BY CommittedChanges, CommitChanges
<1> QED
  BY <1>1, KeepingInductive, PTL DEF Spec, ProvenanceFixed
=============================================================================
