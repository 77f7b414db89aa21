-------------------------- MODULE LmEvalRelayProofs --------------------------
(***************************************************************************)
(* LmEvalRelay and the ProcessGroup it composes keep their safety          *)
(* properties for any number of processes and connections and every        *)
(* combination of faults.                                                  *)
(***************************************************************************)
EXTENDS LmEvalRelay, TLAPS

\* A process is of the group only once it has been started; and the group is empty
\* from SIGKILL on, so after a call that returned because of its deadline.
GroupInv ==
    /\ group \subseteq alive \cup ended
    /\ parent = "popen" => alive = {} /\ ended = {}
    /\ parent \in {"popen", "communicate"} => reason = "none"
    /\ parent = "drain" \/ (parent = "returned" /\ reason = "timeout") => Members = {}

\* The run is recorded when the call is over, as it ended.
RecordInv ==
    /\ recorded # "none" => Gone
    /\ recorded = "timeout" => parent = "returned" /\ reason = "timeout"

\* What a handler has at each of its steps.
HandlersInv ==
    \A h \in Handlers :
        /\ h \in clients <=> pc[h] \in {"stream", "reply", "join"}
        /\ pc[h] \in {"new", "read", "add"} => timer[h] = "off" /\ h \notin toclose
        /\ pc[h] \in {"stream", "reply"} => timer[h] # "off"
        /\ pc[h] = "join" => timer[h] \in {"expiring", "over"}
        /\ pc[h] = "done" => timer[h] \in {"off", "over"} /\ client[h] # "open"
        /\ pc[h] \in {"new", "read"} => client[h] = "none"

\* begin_shutdown took every client there was, and none was added since.
ShutdownInv ==
    /\ closing <=> relay # "serving"
    /\ relay = "closing" => \A h \in clients : h \in toclose \/ client[h] = "closed"
    /\ relay \in {"stopping", "joining", "closed"} => \A h \in clients : client[h] = "closed"

RelayInv ==
    /\ TypeOK
    /\ GroupInv
    /\ RecordInv
    /\ HandlersInv
    /\ ShutdownInv

-----------------------------------------------------------------------------
LEMMA RelayInitInv == Init => RelayInv
BY DEF Init, GroupInit, RelayInv, TypeOK, GroupTypeOK, GroupInv, RecordInv, Gone, HandlersInv,
       ShutdownInv

-----------------------------------------------------------------------------
(* The processes and the call that runs them.                                *)

\* What the relay's part of the invariant needs of the processes' steps: nothing.
LEMMA RelayUntouched ==
    ASSUME RelayInv, UNCHANGED relayVars, GroupTypeOK', GroupInv', RecordInv'
    PROVE  RelayInv'
BY DEF RelayInv, relayVars, handler, TypeOK, HandlersInv, ShutdownInv

\* A process that is ended, by itself or by a signal, leaves the group no larger.
LEMMA StopKeeps ==
    ASSUME GroupTypeOK, GroupInv, NEW ps, Stop(ps)
    PROVE  /\ alive' = alive \ ps /\ ended' \subseteq Procs /\ alive' \cap ended' = {}
           /\ group' \subseteq alive' \cup ended'
           /\ Members' = Members \ ps
           /\ group' = group /\ piped' = piped
BY DEF GroupTypeOK, GroupInv, Stop, Members

LEMMA ProcessesKeep ==
    ASSUME RelayInv, Processes, UNCHANGED relayVars PROVE RelayInv'
<1> USE DEF RelayInv, TypeOK
<1>1. UNCHANGED <<parent, reason, recorded>>
  BY DEF Processes, Fork, Redirect, Escape, ProcessExits, relayVars
<1>2. ASSUME NEW p \in Procs, NEW q \in Procs, Fork(p, q) PROVE GroupTypeOK' /\ GroupInv'
  BY <1>2 DEF Fork, GroupTypeOK, GroupInv, Members
<1>3. ASSUME NEW p \in Procs, Redirect(p) \/ Escape(p) PROVE GroupTypeOK' /\ GroupInv'
  BY <1>3 DEF Redirect, Escape, Members, Writers, GroupTypeOK, GroupInv
<1>4. ASSUME NEW p \in Procs, ProcessExits(p) PROVE GroupTypeOK' /\ GroupInv'
  BY <1>1, <1>4, StopKeeps DEF ProcessExits, GroupTypeOK, GroupInv
<1>5. RecordInv'
  BY <1>1 DEF RecordInv, Gone
<1> QED
  BY <1>2, <1>3, <1>4, <1>5, RelayUntouched DEF Processes

\* SIGKILL leaves no member of the group, and the call drains and returns after it.
LEMMA ParentKeeps ==
    ASSUME RelayInv, Parent \/ Interrupts, UNCHANGED relayVars PROVE RelayInv'
<1> USE DEF RelayInv, TypeOK
<1>0. UNCHANGED recorded
  BY DEF relayVars
<1>1. CASE Popen
  <2>1. GroupTypeOK' /\ GroupInv'
    BY <1>1, ProcessGroupAssumption DEF Popen, GroupTypeOK, GroupInv, Members
  <2>2. RecordInv'
    BY <1>0, <1>1 DEF Popen, RecordInv, Gone
  <2> QED
    BY <2>1, <2>2, RelayUntouched
<1>2. CASE Communicated
  <2>1. GroupTypeOK' /\ GroupInv'
    BY <1>2 DEF Communicated, processes, GroupTypeOK, GroupInv, Members
  <2>2. RecordInv'
    BY <1>0, <1>2 DEF Communicated, RecordInv, Gone
  <2> QED
    BY <2>1, <2>2, RelayUntouched
<1>3. ASSUME NEW why \in {"timeout", "interrupt"}, Terminate(why) PROVE RelayInv'
  <2>1. PICK killed \in SUBSET Members : Stop(killed)
    BY <1>3 DEF Terminate
  <2>2. parent = "communicate" /\ parent' = "grace" /\ reason' = why
    BY <1>3 DEF Terminate
  <2>3. GroupTypeOK' /\ GroupInv'
    BY <2>1, <2>2, StopKeeps DEF GroupTypeOK, GroupInv
  <2>4. RecordInv'
    BY <1>0, <2>2 DEF RecordInv, Gone
  <2> QED
    BY <2>3, <2>4, RelayUntouched
<1>4. CASE Kill
  <2>1. Members' = {} /\ parent = "grace" /\ parent' = "drain" /\ reason' = reason
    BY <1>4, StopKeeps DEF Kill
  <2>2. GroupTypeOK' /\ GroupInv'
    BY <1>4, <2>1, StopKeeps DEF Kill, GroupTypeOK, GroupInv
  <2>3. RecordInv'
    BY <1>0, <2>1 DEF RecordInv, Gone
  <2> QED
    BY <2>2, <2>3, RelayUntouched
<1>5. CASE Drain \/ InterruptAgain
  <2>1. GroupTypeOK' /\ GroupInv'
    BY <1>5 DEF Drain, InterruptAgain, processes, GroupTypeOK, GroupInv, Members
  <2>2. RecordInv'
    BY <1>0, <1>5 DEF Drain, InterruptAgain, RecordInv, Gone
  <2> QED
    BY <2>1, <2>2, RelayUntouched
<1> QED
  BY <1>1, <1>2, <1>3, <1>4, <1>5 DEF Parent, Interrupts

-----------------------------------------------------------------------------
(* The relay.                                                                *)

\* What the processes' part of the invariant needs of the relay's steps.
LEMMA GroupUntouched ==
    ASSUME RelayInv, UNCHANGED groupVars
    PROVE  GroupTypeOK' /\ GroupInv' /\ (recorded' = recorded => RecordInv')
BY DEF RelayInv, TypeOK, groupVars, processes, GroupTypeOK, GroupInv, RecordInv, Members, Gone

\* A handler that moves on leaves the others as they are.
LEMMA HandlerKeeps ==
    ASSUME RelayInv, NEW h \in Handlers, Handler(h) PROVE RelayInv'
<1> USE DEF RelayInv, TypeOK
<1>1. UNCHANGED <<relay, recorded, closing, toclose>> /\ UNCHANGED groupVars
  BY DEF Handler, Accept, Read, AddClient, StreamEnds, Reply, Cleanup
<1>2. GroupTypeOK' /\ GroupInv' /\ RecordInv'
  BY <1>1, GroupUntouched
<1>3. CASE Accept(h)
  <2>1. TypeOK'
    BY <1>1, <1>2, <1>3 DEF Accept, Goto
  <2> QED
    BY <1>1, <1>2, <1>3, <2>1 DEF Accept, Goto, HandlersInv, ShutdownInv
<1>4. CASE Read(h)
  <2>1. TypeOK'
    BY <1>1, <1>2, <1>4 DEF Read, Goto
  <2> QED
    BY <1>1, <1>2, <1>4, <2>1 DEF Read, Goto, HandlersInv, ShutdownInv
<1>5. CASE AddClient(h)
  <2>1. TypeOK'
    BY <1>1, <1>2, <1>5 DEF AddClient, Goto, Close
  <2>2. HandlersInv'
    BY <1>1, <1>5 DEF AddClient, Goto, Close, HandlersInv
  <2> QED
    BY <1>1, <1>2, <1>5, <2>1, <2>2 DEF AddClient, Goto, Close, HandlersInv, ShutdownInv
<1>6. CASE StreamEnds(h) \/ Reply(h)
  <2>1. TypeOK'
    BY <1>1, <1>2, <1>6 DEF StreamEnds, Reply, Goto
  <2>2. HandlersInv'
    BY <1>1, <1>6 DEF StreamEnds, Reply, Goto, HandlersInv
  <2> QED
    BY <1>1, <1>2, <1>6, <2>1, <2>2 DEF StreamEnds, Reply, ShutdownInv
<1>7. CASE Cleanup(h)
  <2>1. TypeOK'
    BY <1>1, <1>2, <1>7 DEF Cleanup, Goto, Close
  <2> QED
    BY <1>1, <1>2, <1>7, <2>1 DEF Cleanup, Goto, Close, HandlersInv, ShutdownInv
<1> QED
  BY <1>3, <1>4, <1>5, <1>6, <1>7 DEF Handler

\* A timer closes at most its own handler's client.
LEMMA TimerKeeps ==
    ASSUME RelayInv, NEW h \in Handlers, Timer(h) PROVE RelayInv'
<1> USE DEF RelayInv, TypeOK
<1>1. UNCHANGED <<relay, recorded, closing, clients, toclose, pc>> /\ UNCHANGED groupVars
  BY DEF Timer, Expire, Expired
<1>2. GroupTypeOK' /\ GroupInv' /\ RecordInv'
  BY <1>1, GroupUntouched
<1>3. TypeOK'
  BY <1>1, <1>2 DEF Timer, Expire, Expired, Close
<1>4. HandlersInv'
  BY <1>1 DEF Timer, Expire, Expired, Close, HandlersInv
<1>5. ShutdownInv'
  BY <1>1 DEF Timer, Expire, Expired, Close, ShutdownInv
<1> QED
  BY <1>2, <1>3, <1>4, <1>5

LEMMA RecordKeeps == ASSUME RelayInv, Record PROVE RelayInv'
<1> USE DEF RelayInv, Record
<1>1. GroupTypeOK' /\ GroupInv'
  BY GroupUntouched
<1>2. RecordInv'
  BY DEF RecordInv, Gone, groupVars, TypeOK, GroupTypeOK
<1> QED
  BY <1>1, <1>2 DEF TypeOK, handler, HandlersInv, ShutdownInv

\* What begin_shutdown has still to close is what is open and registered.
LEMMA ShutdownKeeps == ASSUME RelayInv, Shutdown PROVE RelayInv'
<1> USE DEF RelayInv, TypeOK
<1>1. UNCHANGED <<recorded, clients, pc, timer>> /\ UNCHANGED groupVars
  BY DEF Shutdown, BeginShutdown, CloseClient, ClientsClosed, StopServer, JoinHandlers, handler
<1>2. GroupTypeOK' /\ GroupInv' /\ RecordInv'
  BY <1>1, GroupUntouched
<1>3. CASE BeginShutdown
  BY <1>1, <1>2, <1>3 DEF BeginShutdown, handler, HandlersInv, ShutdownInv
<1>4. ASSUME NEW h \in Handlers, CloseClient(h) PROVE RelayInv'
  <2>1. TypeOK'
    BY <1>1, <1>2, <1>4 DEF CloseClient, Close
  <2>2. HandlersInv'
    BY <1>1, <1>4 DEF CloseClient, Close, HandlersInv
  <2>3. ShutdownInv'
    BY <1>1, <1>4 DEF CloseClient, Close, ShutdownInv
  <2> QED
    BY <1>2, <2>1, <2>2, <2>3
<1>5. CASE ClientsClosed \/ StopServer \/ JoinHandlers
  BY <1>1, <1>2, <1>5 DEF ClientsClosed, StopServer, JoinHandlers, handler, HandlersInv, ShutdownInv
<1> QED
  BY <1>3, <1>4, <1>5 DEF Shutdown

LEMMA RelayNextInv == RelayInv /\ [Next]_vars => RelayInv'
<1> SUFFICES ASSUME RelayInv, [Next]_vars PROVE RelayInv'
  OBVIOUS
<1>1. CASE Process \/ Record \/ Shutdown
  BY <1>1, ParentKeeps, RecordKeeps, ShutdownKeeps DEF Process
<1>2. CASE (Processes \/ Interrupts) /\ UNCHANGED relayVars
  BY <1>2, ProcessesKeep, ParentKeeps
<1>3. ASSUME NEW h \in Handlers, Handler(h) \/ Timer(h) PROVE RelayInv'
  BY <1>3, HandlerKeeps, TimerKeeps
<1>4. CASE UNCHANGED vars
  <2>1. UNCHANGED groupVars /\ UNCHANGED relayVars
    BY <1>4 DEF vars
  <2> QED
    BY <2>1, GroupUntouched, RelayUntouched DEF relayVars
<1> QED
  BY <1>1, <1>2, <1>3, <1>4 DEF Next

LEMMA RelayInductive == Spec => []RelayInv
BY RelayInitInv, RelayNextInv, PTL DEF Spec

-----------------------------------------------------------------------------
\* The variables keep their types.
THEOREM RelayTypeCorrect == Spec => []TypeOK
<1>1. RelayInv => TypeOK
  BY DEF RelayInv
<1> QED
  BY <1>1, RelayInductive, PTL

\* _RelayState.begin_shutdown and add_client: no upstream client is left open by
\* the shutdown, but for one that is about to be refused; and no handler thread
\* ends with its client open, registered, or its timer running.
THEOREM ShutdownClosesEveryClient == Spec => []EveryClientIsClosed
<1>1. RelayInv => EveryClientIsClosed
  BY DEF RelayInv, TypeOK, HandlersInv, ShutdownInv, EveryClientIsClosed
<1> QED
  BY <1>1, RelayInductive, PTL

\* _terminate_process_group: a run recorded as timed out has no process left in
\* the group it was run in.
THEOREM TimedOutGroupIsEmpty == Spec => [](recorded = "timeout" => Members = {})
<1>1. RelayInv => (recorded = "timeout" => Members = {})
  BY DEF RelayInv, GroupInv, RecordInv
<1> QED
  BY <1>1, RelayInductive, PTL

\* Once the run is recorded as timed out the relay accepts no connection, unless a
\* process that left the group lives on.
THEOREM NoRequestsFollowTimeout == Spec => NoRequestsAfterTimeout
<1> DEFINE Quiet == \A h \in Handlers :
                        recorded = "timeout" /\ pc[h] = "new" /\ pc'[h] # "new"
                            => alive \ group # {}
<1>1. ASSUME RelayInv, [Next]_vars PROVE [Quiet]_vars
  <2> SUFFICES ASSUME NEW h \in Handlers, recorded = "timeout", pc[h] = "new", pc'[h] # "new"
               PROVE  alive \ group # {}
    OBVIOUS
  <2>1. Members = {}
    BY <1>1 DEF RelayInv, GroupInv, RecordInv
  <2>2. alive # {}
    <3>1. PICK g \in Handlers : Handler(g)
      BY <1>1 DEF Next, Process, Record, Shutdown, BeginShutdown, CloseClient, ClientsClosed,
         StopServer, JoinHandlers, Timer, Expire, Expired, vars, relayVars, handler
    <3>2. g = h
      BY <1>1, <3>1 DEF RelayInv, TypeOK, Handler, Accept, Read, AddClient, StreamEnds, Reply,
         Cleanup, Goto
    <3> QED
      BY <3>1, <3>2 DEF Handler, Accept, Read, AddClient, StreamEnds, Reply, Cleanup
  <2> QED
    BY <2>1, <2>2 DEF Members
<1> QED
  BY <1>1, RelayInductive, PTL DEF Spec, NoRequestsAfterTimeout

=============================================================================
