---------------------------- MODULE RunLifecycle ----------------------------
(***************************************************************************)
(* What the result store promises about a run, and nothing about how it    *)
(* keeps the promise: the status a reader of the runs table can see, and   *)
(* the ways it may change from one committed state to the next.            *)
(* RunSession implements this specification.                               *)
(***************************************************************************)

CONSTANTS RunIds,          \* the run identifiers make_run_id can draw
          Interruptible    \* TRUE if Ctrl-C may be delivered between two statements

VARIABLE status            \* the committed status of each run

Start(r) ==
    /\ status[r] = "absent"
    /\ status' = [status EXCEPT ![r] = "running"]

Finish(r) ==
    /\ status[r] = "running"
    /\ \E s \in {"ok", "failed"} : status' = [status EXCEPT ![r] = s]

\* Only a run that did not succeed is taken up again.
Reopen(r) ==
    /\ status[r] = "failed"
    /\ status' = [status EXCEPT ![r] = "running"]

\* A completion that was committed but whose session was interrupted before it
\* learned so is recorded a second time, as failed.
Demote(r) ==
    /\ Interruptible
    /\ status[r] = "ok"
    /\ status' = [status EXCEPT ![r] = "failed"]

Init == status = [r \in RunIds |-> "absent"]

Next == \E r \in RunIds : Start(r) \/ Finish(r) \/ Reopen(r) \/ Demote(r)

Spec == Init /\ [][Next]_status

=============================================================================
