------------------------------ MODULE HostProbe ------------------------------
(***************************************************************************)
(* adapters/ssh.py, _run_bounded_process: ssh, in a session of its own     *)
(* with whatever helpers its configuration starts, runs the inventory      *)
(* probe on a remote host.  The call reads until nobody holds the output   *)
(* pipes, and no longer than its deadline or more than its limit.          *)
(*                                                                         *)
(* The processes are those of ProcessGroup.  Who holds the output pipes    *)
(* holds the input, so that the loop over the three pipes ends when nobody *)
(* is left to write: what is still unsent then ends in a broken pipe.      *)
(***************************************************************************)
EXTENDS Naturals, ProcessGroup

CONSTANTS
    CommandTimeout,  \* command_timeout_s, in ticks
    MaxOutput        \* MAX_PROBE_OUTPUT_CHARS, in reads

ASSUME HostProbeAssumption == CommandTimeout \in Nat /\ MaxOutput \in Nat

VARIABLES
    remaining,       \* ticks until the deadline
    output           \* reads that returned something, stdout and stderr together

probe == <<groupVars, remaining, output>>

ProbeIdle == parent = "idle"
ProbeOver == parent = "over"
Collecting == parent \in {"loop", "wait"}

\* Popen, with its deadline, or the executable cannot be run.
StartProbe ==
    /\ ProbeIdle
    /\ ended' = {} /\ output' = 0 /\ remaining' = CommandTimeout
    /\ \/ /\ alive' = {Leader} /\ group' = {Leader} /\ piped' = {Leader}
          /\ parent' = "loop" /\ reason' = "none"
       \/ /\ "spawn" \in Faults
          /\ alive' = {} /\ group' = {} /\ piped' = {}
          /\ parent' = "over" /\ reason' = "spawn"

Tick ==
    /\ Collecting /\ remaining > 0
    /\ remaining' = remaining - 1
    /\ UNCHANGED <<groupVars, output>>

Read ==
    /\ parent = "loop" /\ remaining > 0
    /\ Writers # {} /\ output <= MaxOutput
    /\ output' = output + 1
    /\ UNCHANGED <<groupVars, remaining>>

\* End of file on both pipes: the leader has what is left of the time to exit.
ReadAll ==
    /\ parent = "loop" /\ remaining > 0
    /\ Writers = {} /\ output <= MaxOutput
    /\ parent' = "wait"
    /\ UNCHANGED <<processes, reason, remaining, output>>

Completed ==
    /\ parent = "wait" /\ remaining > 0
    /\ Leader \in ended
    /\ parent' = "over"
    /\ UNCHANGED <<processes, reason, remaining, output>>

\* An exception: the finally-block closes the pipes and sends SIGTERM to the group,
\* which some of it survive.
GiveUp(why) ==
    /\ Collecting
    /\ \/ why = "timeout" /\ remaining = 0
       \/ why = "excess" /\ output > MaxOutput
       \/ why = "interrupt" /\ why \in Faults
    /\ \E killed \in SUBSET Members : Stop(killed)
    /\ reason' = why
    /\ parent' = "grace"
    /\ UNCHANGED <<remaining, output>>

\* Mutant: a leader that has ended is taken for the end of its group.
KillRest_IfLeader ==
    /\ parent = "grace"
    /\ Stop(IF Leader \in alive THEN Members ELSE {})
    /\ parent' = "reap"
    /\ UNCHANGED <<reason, remaining, output>>

\* The leader was waited for, half a second at most: SIGKILL to whoever is left.
KillRest ==
    /\ parent = "grace"
    /\ Stop(Members)
    /\ parent' = "reap"
    /\ UNCHANGED <<reason, remaining, output>>

\* Mutant: as communicate() would, the output is waited for.
Reap_Drain ==
    /\ parent = "reap"
    /\ Leader \in ended /\ Writers = {}
    /\ parent' = "over"
    /\ UNCHANGED <<processes, reason, remaining, output>>

Reap ==
    /\ parent = "reap"
    /\ Leader \in ended
    /\ parent' = "over"
    /\ UNCHANGED <<processes, reason, remaining, output>>

\* Ctrl-C while the group is being ended: the rest of it is skipped.
GiveUpHalfway ==
    /\ "interrupt" \in Faults
    /\ parent \in {"grace", "reap"}
    /\ reason' = "halfway"
    /\ parent' = "over"
    /\ UNCHANGED <<processes, remaining, output>>

ProbeStep == Tick \/ ReadAll \/ Completed \/ GiveUp("timeout") \/ GiveUp("excess") \/ KillRest \/ Reap

ProbeNext ==
    \/ StartProbe \/ ProbeStep \/ Read
    \/ GiveUp("interrupt") \/ GiveUpHalfway
    \/ Processes /\ UNCHANGED <<remaining, output>>

ProbeInit ==
    /\ alive = {} /\ ended = {} /\ group = {} /\ piped = {}
    /\ parent = "idle" /\ reason = "none"
    /\ remaining = CommandTimeout /\ output = 0

\* The caller takes the result.
ProbeTaken ==
    /\ alive' = {} /\ ended' = {} /\ group' = {} /\ piped' = {}
    /\ parent' = "idle" /\ reason' = "none"
    /\ remaining' = CommandTimeout /\ output' = 0

ProbeTypeOK ==
    /\ alive \subseteq Procs /\ ended \subseteq Procs /\ alive \cap ended = {}
    /\ group \subseteq Procs /\ piped \subseteq Procs
    /\ Collecting \/ parent \in {"idle", "grace", "reap", "over"}
    /\ reason \in {"none", "spawn", "timeout", "excess", "interrupt", "halfway"}
    /\ remaining \in 0..CommandTimeout /\ output \in 0..(MaxOutput + 1)
=============================================================================
