------------------------------ MODULE RunsTable ------------------------------
(***************************************************************************)
(* The table every command reads or extends (storage/duckdb.py), and the   *)
(* command that has the database.  RunSession shows how one row is         *)
(* recorded; here a row appears as "running" and gets its outcome in one   *)
(* step each, and a hash is what is hashed.                                *)
(***************************************************************************)
EXTENDS SequenceParts

VARIABLES
    runs,      \* the rows, in the order of their ended_at
    files,     \* what is in the artifact directory of each
    todo,      \* the commands that will be given
    command    \* the command that is executing, NoCommand between two

table == <<runs, files>>
given == <<todo, command>>

NoCommand == [name |-> "none"]

\* Metrics are a function from their names to numbers.
NoMetrics == [name \in {} |-> 0]

\* What RunSpec.create hashes.  The label, of which the name is made, is not
\* part of it.
Spec_(kind, suite, work, config) ==
    [scheme |-> 1, kind |-> kind, suite |-> suite, work |-> work, config |-> config]
NoSpec == [scheme |-> 0]

\* A row's name is its label and the hashes appended to it.
Name(label, spec) == [label |-> label, suffixes |-> <<spec>>]

\* RunSession._record of a new run, which the executing command makes.
NewRow(kind, suite, label, work, config) ==
    LET spec == Spec_(kind, suite, work, config)
    IN  [id |-> Len(runs) + 1, kind |-> kind, spec |-> spec, suite |-> suite,
         name |-> Name(label, spec), work |-> work, config |-> config,
         system |-> command.host, target |-> command.target, status |-> "running",
         metrics |-> NoMetrics, listed |-> FALSE]

\* The artifact directory of a run as its session opens: it is empty.  Of an
\* evaluation it counts the artifacts that are claimed, whose files are empty until
\* they are written.
NoFiles == [printed |-> <<>>, claimed |-> 0, responses |-> <<>>, torn |-> FALSE,
            errors |-> <<>>, measured |-> FALSE]

Current == Len(runs)

Begin(row) ==
    /\ runs' = Append(runs, row)
    /\ files' = Append(files, NoFiles)

\* The session's final record, which is the latest of the table and lists the
\* artifacts it claimed.
Ended(status, metrics) ==
    [runs EXCEPT ![Current] = [@ EXCEPT !.status = status, !.metrics = metrics, !.listed = TRUE]]

\* The process is gone, and the command with it.
Over == command' = NoCommand
=============================================================================
