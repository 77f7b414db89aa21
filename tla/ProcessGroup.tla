---------------------------- MODULE ProcessGroup ----------------------------
(***************************************************************************)
(* benchmarks/lm_eval/runner.py, _run_lm_eval_process: a command that is   *)
(* run in a session of its own until its output ends, until a deadline or  *)
(* until Ctrl-C, and whose process group is then killed.                   *)
(*                                                                         *)
(* communicate() returns when nobody holds the output pipes any more and   *)
(* the leader has exited.  Processes fork, redirect their output and exit  *)
(* as they like; with the fault "escape" one may leave the group.          *)
(***************************************************************************)
CONSTANTS
    Procs,     \* the leader and the processes it may have for descendants
    Leader,
    Faults     \* which of "escape", "interrupt", "spawn" happen

ASSUME ProcessGroupAssumption == Leader \in Procs

VARIABLES
    alive,     \* the processes there are
    ended,     \* and those that have ended
    group,     \* processes of the leader's group
    piped,     \* processes that hold the leader's output pipes
    parent,    \* where _run_lm_eval_process is
    reason     \* why it is being ended: "none", "timeout" or "interrupt"

processes == <<alive, ended, group, piped>>
groupVars == <<processes, parent, reason>>

Members == alive \cap group
Writers == alive \cap piped
Gone == parent \in {"returned", "raised"}

-----------------------------------------------------------------------------
(* The processes, which are external.                                        *)

Fork(p, q) ==
    /\ p \in alive /\ q \notin alive \cup ended
    /\ alive' = alive \cup {q}
    /\ group' = IF p \in group THEN group \cup {q} ELSE group
    /\ piped' = IF p \in piped THEN piped \cup {q} ELSE piped
    /\ UNCHANGED <<ended, parent, reason>>

\* A helper sends its output elsewhere.
Redirect(p) ==
    /\ p \in Writers
    /\ piped' = piped \ {p}
    /\ UNCHANGED <<alive, ended, group, parent, reason>>

\* setsid(), which a group's leader cannot call.
Escape(p) ==
    /\ "escape" \in Faults
    /\ p \in Members \ {Leader}
    /\ group' = group \ {p}
    /\ UNCHANGED <<alive, ended, piped, parent, reason>>

Stop(ps) ==
    /\ alive' = alive \ ps
    /\ ended' = ended \cup (alive \cap ps)
    /\ UNCHANGED <<group, piped>>

ProcessExits(p) ==
    /\ p \in alive
    /\ Stop({p})
    /\ UNCHANGED <<parent, reason>>

-----------------------------------------------------------------------------
(* _run_lm_eval_process and _terminate_process_group.                        *)

Popen ==
    /\ parent = "popen"
    /\ \/ /\ alive' = {Leader} /\ group' = {Leader} /\ piped' = {Leader}
          /\ parent' = "communicate"
       \/ /\ "spawn" \in Faults
          /\ parent' = "raised"
          /\ UNCHANGED <<alive, group, piped>>
    /\ UNCHANGED <<ended, reason>>

\* Normal end: whoever is left holds no pipe, and nothing is killed.
Communicated ==
    /\ parent = "communicate"
    /\ Writers = {} /\ Leader \in ended
    /\ parent' = "returned"
    /\ UNCHANGED <<processes, reason>>

\* The deadline, or Ctrl-C: SIGTERM to the group, which some of it survive.
Terminate(why) ==
    /\ parent = "communicate"
    /\ why = "interrupt" => "interrupt" \in Faults
    /\ \E killed \in SUBSET Members : Stop(killed)
    /\ reason' = why
    /\ parent' = "grace"

\* Mutant: the group is addressed again only while its leader is there.
Kill_WhileLeader ==
    /\ parent = "grace"
    /\ Stop(IF Leader \in alive THEN Members ELSE {})
    /\ parent' = "drain"
    /\ UNCHANGED reason

\* The leader has ended or half a second has passed: SIGKILL to whoever is left.
Kill ==
    /\ parent = "grace"
    /\ Stop(Members)
    /\ parent' = "drain"
    /\ UNCHANGED reason

\* communicate() again, now without a deadline.
Drain ==
    /\ parent = "drain"
    /\ Writers = {}
    /\ parent' = IF reason = "timeout" THEN "returned" ELSE "raised"
    /\ UNCHANGED <<processes, reason>>

\* Ctrl-C while the group is being ended: the rest of it is skipped.
InterruptAgain ==
    /\ "interrupt" \in Faults
    /\ parent \in {"grace", "drain"}
    /\ reason' = "interrupt"
    /\ parent' = "raised"
    /\ UNCHANGED processes

GroupInit ==
    /\ alive = {} /\ ended = {} /\ group = {} /\ piped = {}
    /\ parent = "popen"
    /\ reason = "none"

Processes == \E p \in Procs : \/ \E q \in Procs : Fork(p, q)
                              \/ Redirect(p) \/ Escape(p) \/ ProcessExits(p)

Parent == Popen \/ Communicated \/ Terminate("timeout") \/ Kill \/ Drain

Interrupts == Terminate("interrupt") \/ InterruptAgain

GroupTypeOK ==
    /\ alive \subseteq Procs /\ ended \subseteq Procs /\ alive \cap ended = {}
    /\ group \subseteq Procs /\ piped \subseteq Procs
    /\ parent \in {"popen", "communicate", "grace", "drain", "returned", "raised"}
    /\ reason \in {"none", "timeout", "interrupt"}

\* runner.py: lm-eval runs "with an absolute deadline and no orphaned descendants".
\* When the call is over, its process group is empty.
NoOrphanedDescendants == Gone => Members = {}
=============================================================================
