--------------------------- MODULE CommandsProofs ---------------------------
(***************************************************************************)
(* What the commands on one database promise for every old database, every *)
(* sequence of commands and any number of kills: the migration converges,  *)
(* no bench process is left beside a measured one, what an evaluation      *)
(* recorded agrees in its five stores, the rows of a sweep that is over    *)
(* are those of its trials, a comparison shows the latest of each, and the *)
(* trials of a sweep are those its configuration means.                    *)
(***************************************************************************)
EXTENDS Commands, SequenceTheorems, FiniteSetTheorems, WellFoundedInduction, TLAPS

-----------------------------------------------------------------------------
(* The inductive invariant: the table                                        *)

RowFields == {"id", "kind", "spec", "name", "config", "status"}
TableInv ==
    /\ runs \in Seq({runs[i] : i \in DOMAIN runs})
    /\ Len(Legacy) <= Len(runs)
    /\ \A i \in DOMAIN runs : RowFields \subseteq DOMAIN runs[i]

\* The identity of a row that was migrated once
IsMigrated(row, old) ==
    /\ row.kind = Kind(old) /\ row.spec = Fingerprint(old)
    /\ row.config = MigrateConfig(old.config) /\ row.name = NormalizedName(old)

\* An old path is an artifact, at a place that has the file if one beside the run
\* or the database has it.
Placed(place, path, cwd) ==
    /\ place[2] = path.name
    /\ ~path.absolute /\ place \notin Files =>
           {<<cwd, path.name>>, <<"database", path.name>>} \cap Files = {}
HasArtifact(i, role, path) ==
    path # NoPath /\ HasPaths => \E a \in artifacts : a.run = i /\ a.role = role
HasStdout(i) == HasArtifact(i, StdoutRole(Kind(Legacy[i])), Legacy[i].stdout)
HasStderr(i) == HasArtifact(i, StderrRole(Kind(Legacy[i])), Legacy[i].stderr)

\* Until version 2 is marked each row is as found or migrated as a whole and no row
\* is new; then all are migrated for good.
LegacyInv ==
    /\ 2 \notin applied =>
           /\ Len(runs) = Len(Legacy)
           /\ \A i \in DOMAIN Legacy : runs[i] \in {Legacy[i], Migrated(Legacy[i])}
    /\ 2 \in applied =>
           \A i \in DOMAIN Legacy :
               IsMigrated(runs[i], Legacy[i]) /\ HasStdout(i) /\ HasStderr(i)

\* An artifact of an old row is one of its two files, and of each there is one,
\* whichever opening inserted it.
ArtifactOf(a, i) ==
    LET old == Legacy[i]
    IN  \/ a.role = StdoutRole(Kind(old)) /\ Placed(a.place, old.stdout, old.cwd)
        \/ a.role = StderrRole(Kind(old)) /\ Placed(a.place, old.stderr, old.cwd)
ArtifactsInv ==
    /\ \A a \in artifacts : a.run \in DOMAIN Legacy /\ ArtifactOf(a, a.run)
    /\ \A a, b \in artifacts : a.run = b.run /\ a.role = b.role => a = b

\* The rows an opening has fetched: those before them are done, and what was fetched
\* of the others is as found or migrated by an earlier opening.
Done == Len(Legacy) - Len(opening.rows)
RowsInv ==
    /\ opening.rows \in Seq({opening.rows[i] : i \in DOMAIN opening.rows})
    /\ Len(opening.rows) <= Len(Legacy)
    /\ \A i \in DOMAIN Legacy :
           IF i <= Done THEN runs[i] = Migrated(Legacy[i]) /\ HasStdout(i) /\ HasStderr(i)
           ELSE opening.rows[i - Done] \in {Legacy[i], Migrated(Legacy[i])}
    /\ opening.step \in {"stdout", "stderr"} =>
           opening.rows # <<>> /\ HasPaths /\ runs[Done + 1] = Migrated(Legacy[Done + 1])
    /\ opening.step = "stderr" => HasStdout(Done + 1)

\* Where an opening is: every column is there or will be ensured.
OpeningInv ==
    /\ DOMAIN opening = {"step", "statements", "rows"}
    /\ opening.step \in {"shut", "schema", "version 2", "row", "stdout", "stderr",
                         "version 3", "mark 3", "open"}
    /\ HasPaths <=> "paths" \in Found
    /\ opening.step = "schema" =>
           /\ opening.statements \in Seq(Range(Statements))
           /\ \A i \in DOMAIN opening.statements : opening.statements[i] # "paths"
           /\ \A c \in Columns \ schema :
                  \E i \in DOMAIN opening.statements : opening.statements[i] = c
    /\ opening.step \notin {"shut", "schema"} => Columns \subseteq schema
    /\ opening.step \in {"row", "stdout", "stderr"} => 2 \notin applied /\ RowsInv
    /\ opening.step \in {"version 3", "mark 3", "open"} => 2 \in applied

-----------------------------------------------------------------------------
(* The inductive invariant: the commands and the bench processes             *)

\* What has been begun belongs to the command that executes, which opens nothing when
\* it is refused.
ExecutingInv ==
    /\ {"step", "next", "failures"} \subseteq DOMAIN sweep
    /\ {"step", "target", "failures"} \subseteq DOMAIN eval
    /\ "step" \in DOMAIN reparse
    /\ sweep.step \in {"none", "next", "starting", "waiting", "drawing", "terminating",
                       "ok", "raised", "interrupted"}
    /\ sweep.step # "none" => command.name = "bench"
    /\ eval.step # "none" => command.name = "agent"
    /\ shown.done => command.name = "compare"
    /\ reparse.step # "none" => command.name = "reparse"
    /\ Refused => opening.step = "shut"
    /\ sweep.step # "none" \/ eval.step # "none" => Open

Waiting == {"waiting", "drawing", "terminating"}
Evaluating == {"claim", "ask", "response", "error", "sample", "measure", "complete"}

\* Each bench process has a row of its own that is not measured, and belongs to this
\* sweep or to one of an earlier command, of which more commands were left.
BenchesInv ==
    /\ todo \in Seq(AllCommands)
    /\ benches # {} => 2 \in applied
    /\ \A b \in benches :
           /\ b = [run |-> b.run, sweep |-> b.sweep]
           /\ b.sweep \in Nat /\ b.sweep >= SweepId
           /\ b.run \in DOMAIN runs /\ runs[b.run].status # "ok"
    /\ \A b, c \in benches : b.sweep = c.sweep => b = c
    /\ \/ sweep.step = "none" /\ command # NoCommand
       \/ sweep.step \in {"next", "starting", "ok"}
       => \A b \in benches : b.sweep > SweepId
    /\ sweep.step = "starting" \/ eval.step \in Evaluating =>
           \A b \in benches : b.run < Current
    /\ sweep.step = "starting" => Current \in DOMAIN runs /\ runs[Current].status # "ok"
    /\ sweep.step \in Waiting =>
           \A b \in benches : b.sweep = SweepId \/ b.run = Current => b = ThisBench

MigrationInv == TableInv /\ LegacyInv /\ ArtifactsInv /\ OpeningInv
CommandsInv == MigrationInv /\ ExecutingInv /\ BenchesInv

-----------------------------------------------------------------------------
(* A row is migrated once.                                                   *)

LEMMA KindIsKnown ==
    \A config : InferBenchmarkKind(config) \in {"lm_eval", "agent_eval", "http_load",
                                                "llama_bench"}
    BY DEF InferBenchmarkKind

LEMMA MigratedFields ==
    ASSUME NEW row, {"kind", "spec", "name", "config"} \subseteq DOMAIN row
    PROVE  /\ Migrated(row).kind = Kind(row) /\ Migrated(row).spec = Fingerprint(row)
           /\ Migrated(row).name = NormalizedName(row)
           /\ Migrated(row).config = MigrateConfig(row.config)
           /\ DOMAIN Migrated(row) = DOMAIN row
           /\ \A f \in DOMAIN row \ {"kind", "spec", "name", "config"} :
                  Migrated(row)[f] = row[f]
           /\ Migrated(row) = [f \in DOMAIN row |-> Migrated(row)[f]]
    BY DEF Migrated

\* _migrate_config changes nothing of what it made.
LEMMA ConfigOnce ==
    ASSUME NEW config, {"provider", "protocol", "benchmark"} \subseteq DOMAIN config
    PROVE  MigrateConfig(MigrateConfig(config)) = MigrateConfig(config)
<1> DEFINE once == MigrateConfig(config)
           twice == MigrateConfig(once)
<1>1. /\ DOMAIN once = DOMAIN config /\ DOMAIN twice = DOMAIN config
      /\ once = [f \in DOMAIN config |-> once[f]]
      /\ twice = [f \in DOMAIN config |-> twice[f]]
    BY DEF MigrateConfig
<1>2. once.provider = "none" /\ once.benchmark # "lm-eval"
    BY DEF MigrateConfig
<1>3. "none" \notin DOMAIN ProtocolByProvider
    BY DEF ProtocolByProvider
<1>4. \A f \in DOMAIN config : twice[f] = once[f]
    BY <1>1, <1>2, <1>3 DEF MigrateConfig
<1> QED
    BY <1>1, <1>4, Zenon

\* A hash is not the one a row has before it gets one.
LEMMA HashedFingerprint ==
    ASSUME NEW row, row.spec = NoSpec
    PROVE  Fingerprint(row) # NoSpec
<1>1. "kind" \in DOMAIN Fingerprint(row)
    BY DEF Fingerprint
<1>2. "kind" \notin DOMAIN NoSpec
    BY DEF NoSpec
<1> QED
    BY <1>1, <1>2

\* What an opening finds of an old row, migrated before or not, says the same of it.
LEMMA FetchedRow ==
    ASSUME NEW i \in DOMAIN Legacy, NEW row \in {Legacy[i], Migrated(Legacy[i])}
    PROVE  /\ row.id = i /\ Kind(row) = Kind(Legacy[i])
           /\ row.stdout = Legacy[i].stdout /\ row.stderr = Legacy[i].stderr
           /\ row.cwd = Legacy[i].cwd
           /\ RowFields \subseteq DOMAIN row
           /\ Migrated(row) = Migrated(Legacy[i])
           /\ IsMigrated(Migrated(row), Legacy[i])
<1> DEFINE old == Legacy[i]
           once == Migrated(old)
           four == {"kind", "spec", "name", "config"}
<1>1. /\ {"id", "kind", "spec", "name", "config", "stdout", "stderr", "cwd", "status"}
             \subseteq DOMAIN old
      /\ old.id = i /\ old.spec = NoSpec
      /\ {"label", "suffixes"} \subseteq DOMAIN old.name /\ old.name.suffixes = <<>>
      /\ {"provider", "protocol", "benchmark"} \subseteq DOMAIN old.config
    BY LegacyAssumption
<1> HIDE DEF old
<1>2. /\ once.kind = Kind(old) /\ once.spec = Fingerprint(old)
      /\ once.name = NormalizedName(old) /\ once.config = MigrateConfig(old.config)
      /\ DOMAIN once = DOMAIN old
      /\ \A f \in DOMAIN old \ four : once[f] = old[f]
      /\ once = [f \in DOMAIN old |-> once[f]]
    BY <1>1, MigratedFields
<1> HIDE DEF once
<1>3. Kind(once) = Kind(old)
    BY <1>2, KindIsKnown DEF Kind
<1>4. Fingerprint(once) = Fingerprint(old)
    BY <1>1, <1>2, HashedFingerprint DEF Fingerprint
<1>5. NormalizedName(old).suffixes = <<Fingerprint(old)>>
    BY <1>1 DEF NormalizedName
<1>6. NormalizedName(once) = NormalizedName(old)
    BY <1>2, <1>4, <1>5 DEF NormalizedName, Last
<1>7. MigrateConfig(once.config) = MigrateConfig(old.config)
    BY <1>1, <1>2, ConfigOnce
<1>8. Migrated(once) = once
    <2> DEFINE twice == Migrated(once)
    <2>1. /\ twice.kind = Kind(once) /\ twice.spec = Fingerprint(once)
          /\ twice.name = NormalizedName(once) /\ twice.config = MigrateConfig(once.config)
          /\ DOMAIN twice = DOMAIN once
          /\ \A f \in DOMAIN once \ four : twice[f] = once[f]
          /\ twice = [f \in DOMAIN once |-> twice[f]]
        BY <1>1, <1>2, MigratedFields
    <2> HIDE DEF twice
    <2>2. \A f \in DOMAIN once : twice[f] = once[f]
        BY <2>1, <1>2, <1>3, <1>4, <1>6, <1>7
    <2>3. twice = once
        BY <2>1, <2>2, <1>2, Zenon
    <2> QED
        BY <2>3 DEF twice
<1>9. \/ row = old
      \/ row = once
    BY DEF old, once
<1>10. Migrated(old) = once
    BY DEF once
<1>11. /\ once.id = i /\ once.stdout = old.stdout /\ once.stderr = old.stderr
       /\ once.cwd = old.cwd
    BY <1>1, <1>2
<1>12. IsMigrated(once, old)
    BY <1>2 DEF IsMigrated
<1>13. RowFields \subseteq DOMAIN old
    BY <1>1 DEF RowFields
<1>14. CASE row = old
    BY <1>14, <1>1, <1>10, <1>12, <1>13 DEF old
<1>15. CASE row = once
    BY <1>15, <1>2, <1>3, <1>8, <1>10, <1>11, <1>12, <1>13 DEF old
<1> QED
    BY <1>9, <1>14, <1>15

-----------------------------------------------------------------------------
(* Paths                                                                     *)

\* A set of naturals has a least element.
LEMMA LeastExists ==
    ASSUME NEW S, S \subseteq Nat, S # {}
    PROVE  \E i \in S : \A j \in S : i <= j
<1>1. PICK i \in S : \A j \in S : <<j, i>> \notin OpToRel(<, Nat)
    BY NatLessThanWellFounded, WFMin, Zenon
<1>2. \A j \in S : ~(j < i)
    BY <1>1, Zenon DEF OpToRel
<1> QED
    BY <1>2

\* _resolve_legacy_path
LEMMA PlaceIsPlaced ==
    ASSUME NEW path, NEW cwd
    PROVE  Placed(Place(path, cwd), path, cwd)
<1> DEFINE directories == <<cwd, "database", command.cwd>>
           found == {i \in 1..3 : <<directories[i], path.name>> \in Files}
           least == CHOOSE i \in found : \A j \in found : i <= j
<1>1. CASE path.absolute
    BY <1>1 DEF Placed, Place
<1>2. CASE ~path.absolute /\ found = {}
    <2>1. Place(path, cwd) = <<cwd, path.name>>
        BY <1>2 DEF Place
    <2>2. directories[1] = cwd /\ directories[2] = "database"
        OBVIOUS
    <2>3. <<cwd, path.name>> \notin Files /\ <<"database", path.name>> \notin Files
        BY <1>2, <2>2
    <2> QED
        BY <2>1, <2>3 DEF Placed
<1>3. CASE ~path.absolute /\ found # {}
    <2>1. Place(path, cwd) = <<directories[least], path.name>>
        BY <1>3 DEF Place
    <2>2. found \subseteq Nat
        OBVIOUS
    <2>3. least \in found
        <3> HIDE DEF found
        <3> QED
            BY <1>3, <2>2, LeastExists
    <2>4. Place(path, cwd) \in Files
        BY <2>1, <2>3
    <2>5. Place(path, cwd)[2] = path.name
        BY <2>1
    <2> QED
        BY <2>4, <2>5 DEF Placed
<1> QED
    BY <1>1, <1>2, <1>3

LEMMA RolesDiffer == \A kind, other : StdoutRole(kind) # StderrRole(other)
    BY DEF StdoutRole, StderrRole

-----------------------------------------------------------------------------
(* The table of runs                                                         *)

LEMMA FunctionIsSequence ==
    ASSUME NEW n \in Nat, NEW f, f = [i \in 1..n |-> f[i]]
    PROVE  f \in Seq({f[i] : i \in DOMAIN f}) /\ Len(f) = n /\ DOMAIN f = 1..n
<1> DEFINE values == {f[i] : i \in DOMAIN f}
<1>1. DOMAIN f = 1..n
    OBVIOUS
<1>2. \A i \in 1..n : f[i] \in values
    BY <1>1
<1> HIDE DEF values
<1>3. f \in [1..n -> values]
    BY <1>2
<1>4. f \in Seq(values) /\ Len(f) = n
    BY <1>3
<1> QED
    BY <1>1, <1>4 DEF values

LEMMA SequenceOfItsElements ==
    ASSUME NEW S, NEW s \in Seq(S)
    PROVE  s \in Seq({s[i] : i \in DOMAIN s})
<1> DEFINE n == Len(s)
           values == {s[i] : i \in DOMAIN s}
<1>1. n \in Nat /\ s \in [1..n -> S] /\ DOMAIN s = 1..n
    BY LenProperties
<1>2. \A i \in 1..n : s[i] \in values
    BY <1>1
<1> HIDE DEF n, values
<1>3. s \in [1..n -> values]
    BY <1>1, <1>2
<1>4. s \in Seq(values)
    BY <1>1, <1>3
<1> QED
    BY <1>4 DEF values

LEMMA TableShape ==
    ASSUME TableInv
    PROVE  /\ Len(runs) \in Nat /\ DOMAIN runs = 1..Len(runs)
           /\ runs = [i \in 1..Len(runs) |-> runs[i]]
           /\ Len(Legacy) \in Nat /\ DOMAIN Legacy = 1..Len(Legacy)
           /\ DOMAIN Legacy \subseteq DOMAIN runs
<1>1. Len(runs) \in Nat /\ DOMAIN runs = 1..Len(runs)
    BY DEF TableInv
<1>2. runs = [i \in 1..Len(runs) |-> runs[i]]
    BY <1>1 DEF TableInv
<1>3. Len(Legacy) \in Nat /\ DOMAIN Legacy = 1..Len(Legacy)
    BY LegacyAssumption
<1> QED
    BY <1>1, <1>2, <1>3 DEF TableInv

\* What a command may do to the table: it keeps what identifies a row.
RowsKept ==
    /\ TableInv'
    /\ Len(runs) <= Len(runs')
    /\ \A i \in DOMAIN runs :
           /\ runs'[i].kind = runs[i].kind /\ runs'[i].spec = runs[i].spec
           /\ runs'[i].name = runs[i].name /\ runs'[i].config = runs[i].config

\* A session records its new row (Begin).
LEMMA AppendKeepsRows ==
    ASSUME TableInv, NEW row, RowFields \subseteq DOMAIN row, runs' = Append(runs, row)
    PROVE  /\ RowsKept /\ Len(runs') = Len(runs) + 1
           /\ DOMAIN runs' = 1..(Len(runs) + 1)
           /\ \A i \in DOMAIN runs : runs'[i] = runs[i]
<1> DEFINE S == {runs[i] : i \in DOMAIN runs}
<1>1. runs \in Seq(S \cup {row}) /\ Len(runs) \in Nat /\ DOMAIN runs = 1..Len(runs)
    <2>1. runs \in Seq(S)
        BY DEF TableInv
    <2> HIDE DEF S
    <2> QED
        BY <2>1
<1> HIDE DEF S
<1>2. /\ runs' \in Seq(S \cup {row}) /\ Len(runs') = Len(runs) + 1
      /\ DOMAIN runs' = 1..(Len(runs) + 1)
      /\ \A i \in 1..Len(runs) : runs'[i] = runs[i]
      /\ runs'[Len(runs) + 1] = row
    BY <1>1
<1>4. runs' \in Seq({runs'[i] : i \in DOMAIN runs'})
    BY <1>2, SequenceOfItsElements
<1>5. \A i \in DOMAIN runs' : RowFields \subseteq DOMAIN runs'[i]
    BY <1>1, <1>2 DEF TableInv
<1>6. Len(Legacy) \in Nat
    BY LegacyAssumption
<1>7. TableInv'
    BY <1>1, <1>2, <1>4, <1>5, <1>6 DEF TableInv
<1> QED
    BY <1>1, <1>2, <1>7 DEF RowsKept

\* An update of rows in place that leaves alone what identifies them
LEMMA UpdateKeepsRows ==
    ASSUME TableInv, runs' = [i \in DOMAIN runs |-> runs'[i]],
           \A i \in DOMAIN runs :
               /\ RowFields \subseteq DOMAIN runs'[i]
               /\ runs'[i].kind = runs[i].kind /\ runs'[i].spec = runs[i].spec
               /\ runs'[i].name = runs[i].name /\ runs'[i].config = runs[i].config
    PROVE  RowsKept /\ Len(runs') = Len(runs) /\ DOMAIN runs' = DOMAIN runs
<1>1. Len(runs) \in Nat /\ DOMAIN runs = 1..Len(runs)
    BY TableShape
<1>2. /\ runs' \in Seq({runs'[i] : i \in DOMAIN runs'}) /\ Len(runs') = Len(runs)
      /\ DOMAIN runs' = 1..Len(runs)
    <2> DEFINE n == Len(runs)
    <2>1. n \in Nat /\ runs' = [i \in 1..n |-> runs'[i]]
        BY <1>1
    <2> HIDE DEF n
    <2>2. /\ runs' \in Seq({runs'[i] : i \in DOMAIN runs'}) /\ Len(runs') = n
          /\ DOMAIN runs' = 1..n
        BY <2>1, FunctionIsSequence
    <2> QED
        BY <2>2 DEF n
<1>3. TableInv'
    BY <1>1, <1>2 DEF TableInv
<1> QED
    BY <1>1, <1>2, <1>3 DEF RowsKept

\* The final record of the current run (Ended)
LEMMA EndedKeepsRows ==
    ASSUME TableInv, NEW status, NEW metrics, runs' = Ended(status, metrics)
    PROVE  /\ RowsKept /\ Len(runs') = Len(runs) /\ DOMAIN runs' = DOMAIN runs
           /\ \A i \in DOMAIN runs : i # Current => runs'[i] = runs[i]
           /\ Current \in DOMAIN runs => runs'[Current].status = status
<1> DEFINE ended == [runs[Current] EXCEPT !.status = status, !.metrics = metrics,
                                          !.listed = TRUE]
<1>1. runs' = [runs EXCEPT ![Current] = ended]
    BY DEF Ended
<1>2. Current \in DOMAIN runs =>
          /\ RowFields \subseteq DOMAIN runs[Current]
          /\ RowFields \subseteq DOMAIN ended
          /\ ended.kind = runs[Current].kind /\ ended.spec = runs[Current].spec
          /\ ended.name = runs[Current].name /\ ended.config = runs[Current].config
          /\ ended.status = status
    BY DEF TableInv, RowFields
<1> HIDE DEF ended
<1>3. /\ runs' = [i \in DOMAIN runs |-> runs'[i]]
      /\ \A i \in DOMAIN runs : i # Current => runs'[i] = runs[i]
      /\ Current \in DOMAIN runs => runs'[Current] = ended
    BY <1>1
<1>4. \A i \in DOMAIN runs :
          /\ RowFields \subseteq DOMAIN runs'[i]
          /\ runs'[i].kind = runs[i].kind /\ runs'[i].spec = runs[i].spec
          /\ runs'[i].name = runs[i].name /\ runs'[i].config = runs[i].config
    BY <1>2, <1>3 DEF TableInv
<1> QED
    BY <1>2, <1>3, <1>4, UpdateKeepsRows

\* An update of one other column of some rows, or of none
LEMMA ColumnKeepsRows ==
    ASSUME TableInv, runs' = [i \in DOMAIN runs |-> runs'[i]],
           \A i \in DOMAIN runs :
               \/ runs'[i] = runs[i]
               \/ \E value : runs'[i] = [runs[i] EXCEPT !.metrics = value]
               \/ \E value : runs'[i] = [runs[i] EXCEPT !.system = value]
    PROVE  /\ RowsKept /\ Len(runs') = Len(runs) /\ DOMAIN runs' = DOMAIN runs
           /\ \A i \in DOMAIN runs : runs'[i].status = runs[i].status
<1>1. ASSUME NEW i \in DOMAIN runs
      PROVE  /\ RowFields \subseteq DOMAIN runs'[i]
             /\ runs'[i].kind = runs[i].kind /\ runs'[i].spec = runs[i].spec
             /\ runs'[i].name = runs[i].name /\ runs'[i].config = runs[i].config
             /\ runs'[i].status = runs[i].status
    <2>1. RowFields \subseteq DOMAIN runs[i]
        BY DEF TableInv
    <2>2. CASE runs'[i] = runs[i]
        BY <2>1, <2>2
    <2>3. CASE \E value : runs'[i] = [runs[i] EXCEPT !.metrics = value]
        BY <2>1, <2>3 DEF RowFields
    <2>4. CASE \E value : runs'[i] = [runs[i] EXCEPT !.system = value]
        BY <2>1, <2>4 DEF RowFields
    <2> QED
        BY <2>2, <2>3, <2>4
<1> QED
    BY <1>1, UpdateKeepsRows

-----------------------------------------------------------------------------
(* The migration                                                             *)

LEMMA ArtifactsKept ==
    ASSUME artifacts \subseteq artifacts', HasPaths' <=> HasPaths
    PROVE  \A i : (HasStdout(i) => HasStdout(i)') /\ (HasStderr(i) => HasStderr(i)')
    BY DEF HasStdout, HasStderr, HasArtifact

LEMMA EnsuredPaths ==
    ASSUME NEW what, what # "paths"
    PROVE  /\ schema \subseteq Ensured(what) /\ what \in Ensured(what)
           /\ "paths" \in Ensured(what) <=> "paths" \in schema
    BY DEF Ensured, Columns

\* What leaves the database alone, or changes rows as commands do, keeps the rest.
LEMMA CommandKeepsMigration ==
    ASSUME MigrationInv, RowsKept, UNCHANGED <<schema, applied, artifacts>>,
           opening' = opening \/ opening' = Shut,
           2 \in applied \/ runs' = runs,
           opening.step \in {"row", "stdout", "stderr"} => runs' = runs
    PROVE  MigrationInv'
<1> USE DEF MigrationInv
<1>1. DOMAIN Legacy \subseteq DOMAIN runs
    BY TableShape
<1>2. \A i : (HasStdout(i) => HasStdout(i)') /\ (HasStderr(i) => HasStderr(i)')
    BY ArtifactsKept DEF HasPaths
<1>3. LegacyInv'
    <2>1. CASE 2 \in applied
        BY <2>1, <1>1, <1>2 DEF LegacyInv, RowsKept, IsMigrated
    <2>2. CASE 2 \notin applied
        BY <2>2 DEF LegacyInv
    <2> QED
        BY <2>1, <2>2
<1>4. ArtifactsInv'
    BY DEF ArtifactsInv, ArtifactOf
<1>5. OpeningInv'
    <2>1. CASE opening' = Shut
        BY <2>1 DEF OpeningInv, Shut, HasPaths
    <2>2. CASE opening' = opening
        <3>1. opening.step \in {"row", "stdout", "stderr"} => RowsInv'
            <4> SUFFICES ASSUME opening.step \in {"row", "stdout", "stderr"}
                         PROVE  RowsInv'
                OBVIOUS
            <4>1. RowsInv /\ runs' = runs /\ Done' = Done
                BY <2>2 DEF OpeningInv, Done
            <4>2. \A i \in DOMAIN Legacy :
                      IF i <= Done
                      THEN runs'[i] = Migrated(Legacy[i]) /\ HasStdout(i)' /\ HasStderr(i)'
                      ELSE opening'.rows[i - Done] \in {Legacy[i], Migrated(Legacy[i])}
                BY <1>2, <2>2, <4>1 DEF RowsInv
            <4>3. opening.step = "stderr" => HasStdout(Done + 1)'
                BY <1>2, <4>1 DEF RowsInv
            <4> QED
                BY <2>2, <4>1, <4>2, <4>3 DEF RowsInv, HasPaths
        <3> QED
            BY <2>2, <3>1 DEF OpeningInv, HasPaths
    <2> QED
        BY <2>1, <2>2
<1> QED
    BY <1>3, <1>4, <1>5 DEF RowsKept

LEMMA RowsUnchanged == TableInv /\ UNCHANGED runs => RowsKept
<1> SUFFICES ASSUME TableInv, UNCHANGED runs PROVE RowsKept
    OBVIOUS
<1>1. Len(runs) \in Nat
    BY TableShape
<1>2. TableInv'
    BY DEF TableInv
<1> QED
    BY <1>1, <1>2 DEF RowsKept

\* A step of the opening that changes neither rows nor artifacts
LEMMA OpeningStepKeeps ==
    ASSUME TableInv, LegacyInv, ArtifactsInv, UNCHANGED <<runs, applied, artifacts>>,
           HasPaths' <=> HasPaths
    PROVE  /\ TableInv' /\ LegacyInv' /\ ArtifactsInv'
           /\ \A i : (HasStdout(i) => HasStdout(i)') /\ (HasStderr(i) => HasStderr(i)')
<1>1. \A i : (HasStdout(i) => HasStdout(i)') /\ (HasStderr(i) => HasStderr(i)')
    BY ArtifactsKept
<1>2. TableInv'
    BY DEF TableInv
<1>3. LegacyInv'
    BY <1>1 DEF LegacyInv
<1>4. ArtifactsInv'
    BY DEF ArtifactsInv, ArtifactOf
<1> QED
    BY <1>1, <1>2, <1>3, <1>4

LEMMA StatementsAreSequence == Statements \in Seq(Range(Statements))
<1>1. Statements \in Seq({"runs", "benchmark_kind", "spec_hash", "parent_run_id", "schema_version",
                         "system_json", "target_json", "metrics", "artifacts", "samples",
                         "schema_migrations"})
    BY DEF Statements
<1> QED
    BY <1>1, SequenceOfItsElements DEF Range

LEMMA OpenDatabaseKeeps == MigrationInv /\ OpenDatabase => MigrationInv'
<1> SUFFICES ASSUME MigrationInv, OpenDatabase PROVE MigrationInv'
    OBVIOUS
<1> USE DEF MigrationInv
<1>1. /\ opening' = [step |-> "schema", statements |-> Statements, rows |-> <<>>]
      /\ UNCHANGED <<runs, schema, applied, artifacts>>
    BY DEF OpenDatabase, table, database
<1>2. TableInv' /\ LegacyInv' /\ ArtifactsInv'
    BY <1>1, OpeningStepKeeps DEF HasPaths
<1>3. /\ DOMAIN Statements = 1..11
      /\ Statements[1] = "runs"
      /\ Statements[2] = "benchmark_kind" /\ Statements[3] = "spec_hash"
      /\ Statements[4] = "parent_run_id" /\ Statements[5] = "schema_version"
      /\ Statements[6] = "system_json" /\ Statements[7] = "target_json"
      /\ Statements[8] = "metrics" /\ Statements[9] = "artifacts"
      /\ Statements[10] = "samples" /\ Statements[11] = "schema_migrations"
    BY DEF Statements
<1>4. /\ Statements \in Seq(Range(Statements)) /\ \A i \in DOMAIN Statements : Statements[i] # "paths"
      /\ \A c \in Columns : \E i \in DOMAIN Statements : Statements[i] = c
    <2>1. Statements \in Seq(Range(Statements))
        BY StatementsAreSequence
    <2>2. \A i \in DOMAIN Statements : Statements[i] # "paths"
        <3>1. \A i \in 1..11 : i \in {1, 2, 3, 4, 5, 6, 7, 8, 9, 10, 11}
            OBVIOUS
        <3> QED
            BY <1>3, <3>1
    <2>3. \A c \in Columns : \E i \in DOMAIN Statements : Statements[i] = c
        BY <1>3 DEF Columns
    <2> QED
        BY <2>1, <2>2, <2>3
<1>5. /\ opening'.step = "schema" /\ opening'.statements = Statements
      /\ DOMAIN opening' = {"step", "statements", "rows"}
    BY <1>1
<1>6. OpeningInv'
    BY <1>1, <1>4, <1>5 DEF OpeningInv, HasPaths
<1> QED
    BY <1>2, <1>6

LEMMA DefineSchemaKeeps == MigrationInv /\ DefineSchema => MigrationInv'
<1> SUFFICES ASSUME MigrationInv, DefineSchema PROVE MigrationInv'
    OBVIOUS
<1> USE DEF MigrationInv
<1> DEFINE todo_ == opening.statements
<1>1. /\ opening.step = "schema" /\ UNCHANGED <<runs, applied, artifacts>>
    BY DEF DefineSchema, table
<1>2. /\ todo_ \in Seq(Range(Statements)) /\ \A i \in DOMAIN todo_ : todo_[i] # "paths"
      /\ \A c \in Columns \ schema : \E i \in DOMAIN todo_ : todo_[i] = c
      /\ DOMAIN opening = {"step", "statements", "rows"}
    BY <1>1 DEF OpeningInv
<1>3. CASE todo_ = <<>>
    <2>1. opening' = [opening EXCEPT !.step = "version 2"] /\ UNCHANGED schema
        BY <1>1, <1>3 DEF DefineSchema
    <2>2. Columns \subseteq schema
        BY <1>2, <1>3
    <2>3. opening'.step = "version 2" /\ DOMAIN opening' = DOMAIN opening
        BY <1>2, <2>1
    <2>4. OpeningInv'
        BY <1>1, <1>2, <2>1, <2>2, <2>3 DEF OpeningInv, HasPaths
    <2> QED
        BY <1>1, <2>1, <2>4, OpeningStepKeeps DEF HasPaths
<1>4. CASE todo_ # <<>>
    <2>1. /\ opening' = [opening EXCEPT !.statements = Tail(@)]
          /\ schema' = Ensured(Head(todo_))
        BY <1>1, <1>4 DEF DefineSchema
    <2>2. /\ opening'.step = "schema" /\ opening'.statements = Tail(todo_)
          /\ DOMAIN opening' = DOMAIN opening
        BY <1>1, <1>2, <2>1
    <2> HIDE DEF todo_
    <2>3. /\ Head(todo_) = todo_[1] /\ Tail(todo_) \in Seq(Range(Statements))
          /\ 1 \in DOMAIN todo_
          /\ \A i \in DOMAIN Tail(todo_) :
                 i + 1 \in DOMAIN todo_ /\ Tail(todo_)[i] = todo_[i + 1]
          /\ \A i \in DOMAIN todo_ : i = 1 \/ (i - 1 \in DOMAIN Tail(todo_) /\ (i - 1) + 1 = i)
        BY <1>2, <1>4
    <2>4. Head(todo_) # "paths"
        BY <1>2, <2>3
    <2>5. /\ schema \subseteq schema' /\ Head(todo_) \in schema'
          /\ "paths" \in schema' <=> "paths" \in schema
        BY <2>1, <2>4, EnsuredPaths
    <2>6. \A i \in DOMAIN Tail(todo_) : Tail(todo_)[i] # "paths"
        BY <1>2, <2>3
    <2>7. \A c \in Columns \ schema' : \E i \in DOMAIN Tail(todo_) : Tail(todo_)[i] = c
        <3> SUFFICES ASSUME NEW c \in Columns \ schema'
                     PROVE  \E i \in DOMAIN Tail(todo_) : Tail(todo_)[i] = c
            OBVIOUS
        <3>1. PICK i \in DOMAIN todo_ : todo_[i] = c
            BY <1>2, <2>5
        <3>2. i # 1
            BY <2>3, <2>5, <3>1
        <3> QED
            BY <2>3, <3>1, <3>2
    <2>8. OpeningInv'
        <3> DEFINE left == Tail(todo_)
        <3>1. /\ left \in Seq(Range(Statements))
              /\ \A i \in DOMAIN left : left[i] # "paths"
              /\ \A c \in Columns \ schema' : \E i \in DOMAIN left : left[i] = c
            BY <2>3, <2>6, <2>7
        <3>2. opening'.statements = left
            BY <2>2
        <3>3. HasPaths' <=> "paths" \in Found
            BY <2>5 DEF OpeningInv, HasPaths
        <3> HIDE DEF left
        <3> QED
            BY <1>2, <2>2, <3>1, <3>2, <3>3 DEF OpeningInv
    <2> QED
        BY <1>1, <2>5, <2>8, OpeningStepKeeps DEF HasPaths
<1> QED
    BY <1>3, <1>4

\* The row an opening is at, and what it has left after it
LEMMA RowsShape ==
    ASSUME RowsInv, opening.rows # <<>>
    PROVE  /\ Done \in Nat /\ Done + 1 \in DOMAIN Legacy
           /\ Head(opening.rows) \in {Legacy[Done + 1], Migrated(Legacy[Done + 1])}
           /\ Tail(opening.rows) \in Seq({Tail(opening.rows)[i] : i \in DOMAIN Tail(opening.rows)})
           /\ Len(Tail(opening.rows)) \in Nat
           /\ Len(Legacy) - Len(Tail(opening.rows)) = Done + 1
           /\ \A i \in DOMAIN Legacy :
                  i > Done + 1 => Tail(opening.rows)[i - (Done + 1)] = opening.rows[i - Done]
<1> DEFINE left == opening.rows
           S == {left[i] : i \in DOMAIN left}
           n == Len(Legacy)
<1>1. left \in Seq(S) /\ Len(left) <= n
    BY DEF RowsInv
<1>2. n \in Nat /\ DOMAIN Legacy = 1..n
    BY LegacyAssumption
<1>3. Done = n - Len(left)
    BY DEF Done
<1>5. left # <<>>
    OBVIOUS
<1> HIDE DEF left, S, n
<1>6. /\ Len(left) \in Nat \ {0} /\ Tail(left) \in Seq(S) /\ Len(Tail(left)) = Len(left) - 1
      /\ Head(left) = left[1]
      /\ \A i \in 1..(Len(left) - 1) : Tail(left)[i] = left[i + 1]
    BY <1>1, <1>5
<1>7. Done \in Nat /\ Done + 1 \in 1..n
    BY <1>1, <1>2, <1>3, <1>6
<1>4. \A i \in 1..n : i > Done => left[i - Done] \in {Legacy[i], Migrated(Legacy[i])}
    <2>1. \A i \in 1..n : i > Done => ~(i <= Done)
        BY <1>7
    <2> QED
        BY <1>2, <2>1 DEF RowsInv, left
<1>8. Head(left) \in {Legacy[Done + 1], Migrated(Legacy[Done + 1])}
    <2>1. left[(Done + 1) - Done] \in {Legacy[Done + 1], Migrated(Legacy[Done + 1])}
        BY <1>2, <1>4, <1>7
    <2>2. (Done + 1) - Done = 1
        BY <1>7
    <2> QED
        BY <1>6, <2>1, <2>2
<1>9. ASSUME NEW i \in 1..n, i > Done + 1
      PROVE  Tail(left)[i - (Done + 1)] = left[i - Done]
    <2>1. i - (Done + 1) \in 1..(Len(left) - 1) /\ (i - (Done + 1)) + 1 = i - Done
        BY <1>2, <1>3, <1>6, <1>7, <1>9
    <2> QED
        BY <1>6, <2>1
<1>10. Tail(left) \in Seq({Tail(left)[i] : i \in DOMAIN Tail(left)})
    BY <1>6, SequenceOfItsElements
<1>11. Len(Tail(left)) \in Nat /\ n - Len(Tail(left)) = Done + 1
    BY <1>2, <1>3, <1>6
<1> QED
    BY <1>2, <1>7, <1>8, <1>9, <1>10, <1>11 DEF left, n

\* The loop goes on to the next row when this one has all it gets.
LEMMA NextRowKeeps ==
    ASSUME RowsInv, opening.rows # <<>>, DOMAIN opening = {"step", "statements", "rows"},
           opening' = NextRow, NEW k, k = Done + 1,
           \A i \in DOMAIN Legacy : i <= Done => runs'[i] = runs[i],
           runs'[k] = Migrated(Legacy[k]), HasStdout(k)', HasStderr(k)',
           \A i : (HasStdout(i) => HasStdout(i)') /\ (HasStderr(i) => HasStderr(i)')
    PROVE  RowsInv'
<1> DEFINE left == Tail(opening.rows)
<1>1. /\ DOMAIN opening' = {"step", "statements", "rows"}
      /\ opening'.step = "row" /\ opening'.rows = left
    BY DEF NextRow
<1>2. /\ Done \in Nat /\ Done + 1 \in DOMAIN Legacy
      /\ left \in Seq({left[i] : i \in DOMAIN left})
      /\ Len(left) \in Nat /\ Len(Legacy) - Len(left) = Done + 1
      /\ \A i \in DOMAIN Legacy : i > Done + 1 => left[i - (Done + 1)] = opening.rows[i - Done]
    BY RowsShape
<1>3. Len(Legacy) \in Nat /\ DOMAIN Legacy = 1..Len(Legacy)
    BY LegacyAssumption
<1> HIDE DEF left
<1>4. Done' = Done + 1
    BY <1>1, <1>2 DEF Done
<1>5. ASSUME NEW i \in DOMAIN Legacy
      PROVE  IF i <= Done + 1
             THEN runs'[i] = Migrated(Legacy[i]) /\ HasStdout(i)' /\ HasStderr(i)'
             ELSE left[i - (Done + 1)] \in {Legacy[i], Migrated(Legacy[i])}
    <2>1. i \in Nat
        BY <1>3
    <2>2. CASE i <= Done
        <3>1. runs[i] = Migrated(Legacy[i]) /\ HasStdout(i) /\ HasStderr(i)
            BY <2>2 DEF RowsInv
        <3>2. runs'[i] = Migrated(Legacy[i]) /\ HasStdout(i)' /\ HasStderr(i)'
            BY <2>2, <3>1
        <3> QED
            BY <1>2, <2>1, <2>2, <3>2
    <2>3. CASE i = Done + 1
        BY <1>2, <2>3
    <2>4. CASE i > Done + 1
        <3>1. opening.rows[i - Done] \in {Legacy[i], Migrated(Legacy[i])}
            BY <1>2, <2>1, <2>4 DEF RowsInv
        <3> QED
            BY <1>2, <2>1, <2>4, <3>1
    <2> QED
        BY <1>2, <2>1, <2>2, <2>3, <2>4
<1>6. Len(left) <= Len(Legacy)
    BY <1>2, <1>3
<1> QED
    BY <1>1, <1>2, <1>4, <1>5, <1>6 DEF RowsInv

LEMMA StartVersion2Keeps == MigrationInv /\ StartVersion2 => MigrationInv'
<1> SUFFICES ASSUME MigrationInv, StartVersion2 PROVE MigrationInv'
    OBVIOUS
<1> USE DEF MigrationInv
<1>1. /\ opening.step = "version 2" /\ UNCHANGED <<runs, schema, applied, artifacts>>
      /\ DOMAIN opening = {"step", "statements", "rows"} /\ Columns \subseteq schema
    BY DEF StartVersion2, table, database, OpeningInv
<1>2. TableInv' /\ LegacyInv' /\ ArtifactsInv'
    BY <1>1, OpeningStepKeeps DEF HasPaths
<1>3. CASE 2 \in applied
    <2>1. /\ opening'.step = "version 3" /\ DOMAIN opening' = {"step", "statements", "rows"}
        BY <1>1, <1>3 DEF StartVersion2
    <2> QED
        BY <1>1, <1>2, <1>3, <2>1 DEF OpeningInv, HasPaths
<1>4. CASE 2 \notin applied
    <2>1. /\ opening'.step = "row" /\ opening'.rows = runs
          /\ DOMAIN opening' = {"step", "statements", "rows"}
        BY <1>1, <1>4 DEF StartVersion2
    <2>2. /\ Len(runs) = Len(Legacy) /\ Len(Legacy) \in Nat /\ DOMAIN Legacy = 1..Len(Legacy)
          /\ runs \in Seq({runs[i] : i \in DOMAIN runs})
          /\ \A i \in DOMAIN Legacy : runs[i] \in {Legacy[i], Migrated(Legacy[i])}
        BY <1>4, TableShape DEF LegacyInv, TableInv
    <2>3. Done' = 0
        BY <2>1, <2>2 DEF Done
    <2>4. RowsInv'
        BY <2>1, <2>2, <2>3 DEF RowsInv
    <2> QED
        BY <1>1, <1>2, <1>4, <2>1, <2>4 DEF OpeningInv, HasPaths
<1> QED
    BY <1>3, <1>4

LEMMA UpdateRowKeeps == MigrationInv /\ UpdateRow => MigrationInv'
<1> SUFFICES ASSUME MigrationInv, UpdateRow PROVE MigrationInv'
    OBVIOUS
<1> USE DEF MigrationInv
<1> DEFINE row == Head(opening.rows)
<1> PICK k : k = Done + 1
    OBVIOUS
<1>1. /\ opening.step = "row" /\ opening.rows # <<>> /\ UNCHANGED <<schema, applied, artifacts>>
      /\ runs' = [runs EXCEPT ![row.id] = Migrated(row)]
      /\ opening' = IF HasPaths THEN [opening EXCEPT !.step = "stdout"] ELSE NextRow
    BY DEF UpdateRow, database
<1>2. /\ 2 \notin applied /\ RowsInv /\ Columns \subseteq schema
      /\ DOMAIN opening = {"step", "statements", "rows"}
    BY <1>1 DEF OpeningInv
<1>3. k \in DOMAIN Legacy /\ row \in {Legacy[k], Migrated(Legacy[k])} /\ Done \in Nat
    BY <1>1, <1>2, RowsShape
<1>4. row.id = k /\ Migrated(row) = Migrated(Legacy[k])
    BY <1>3, FetchedRow
<1>5. RowFields \subseteq DOMAIN Migrated(Legacy[k])
    BY <1>3, FetchedRow
<1> DEFINE new == Migrated(Legacy[k])
           n == Len(runs)
<1>6. runs' = [runs EXCEPT ![k] = new]
    BY <1>1, <1>4
<1>7. /\ n \in Nat /\ DOMAIN runs = 1..n /\ runs = [i \in 1..n |-> runs[i]]
      /\ n = Len(Legacy) /\ DOMAIN Legacy = 1..n
    BY <1>2, TableShape DEF LegacyInv
<1> HIDE DEF row, new, n
<1>8. /\ runs' = [i \in 1..n |-> runs'[i]] /\ DOMAIN runs' = 1..n
      /\ runs'[k] = new /\ \A i \in 1..n : i # k => runs'[i] = runs[i]
    BY <1>3, <1>6, <1>7
<1>9. runs' \in Seq({runs'[i] : i \in DOMAIN runs'}) /\ Len(runs') = n
    BY <1>7, <1>8, FunctionIsSequence
<1>10. TableInv'
    <2>1. \A i \in 1..n : RowFields \subseteq DOMAIN runs'[i]
        BY <1>5, <1>7, <1>8 DEF TableInv, new
    <2>2. Len(Legacy) <= Len(runs')
        BY <1>7, <1>9
    <2> QED
        BY <1>8, <1>9, <2>1, <2>2 DEF TableInv
<1>11. \A i : (HasStdout(i) => HasStdout(i)') /\ (HasStderr(i) => HasStderr(i)')
    BY <1>1, ArtifactsKept DEF HasPaths
<1>12. LegacyInv'
    BY <1>1, <1>2, <1>7, <1>8, <1>9 DEF LegacyInv, new
<1>13. ArtifactsInv'
    BY <1>1 DEF ArtifactsInv, ArtifactOf
<1>14. \A i \in DOMAIN Legacy : i <= Done => runs'[i] = runs[i]
    BY <1>3, <1>7, <1>8
<1>15. RowsInv' /\ opening'.step \in {"row", "stdout"}
       /\ DOMAIN opening' = {"step", "statements", "rows"}
    <2>1. CASE HasPaths
        <3>1. /\ opening'.step = "stdout" /\ opening'.rows = opening.rows
              /\ DOMAIN opening' = {"step", "statements", "rows"}
            BY <1>1, <1>2, <2>1
        <3>2. Done' = Done
            BY <3>1 DEF Done
        <3>3. \A i \in DOMAIN Legacy :
                  IF i <= Done THEN runs'[i] = Migrated(Legacy[i]) /\ HasStdout(i)' /\ HasStderr(i)'
                  ELSE opening'.rows[i - Done] \in {Legacy[i], Migrated(Legacy[i])}
            BY <1>2, <1>11, <1>14, <3>1 DEF RowsInv
        <3>4. runs'[Done + 1] = Migrated(Legacy[Done + 1])
            BY <1>8 DEF new
        <3>5. HasPaths'
            BY <1>1, <2>1 DEF HasPaths
        <3> QED
            BY <1>1, <1>2, <3>1, <3>2, <3>3, <3>4, <3>5 DEF RowsInv
    <2>2. CASE ~HasPaths
        <3>1. opening' = NextRow
            BY <1>1, <2>2
        <3>2. HasStdout(k)' /\ HasStderr(k)'
            BY <1>1, <2>2 DEF HasStdout, HasStderr, HasArtifact, HasPaths
        <3>3. runs'[k] = Migrated(Legacy[k])
            BY <1>8 DEF new
        <3>4. RowsInv'
            BY <1>1, <1>2, <1>11, <1>14, <3>1, <3>2, <3>3, NextRowKeeps
        <3> QED
            BY <1>2, <3>1, <3>4 DEF NextRow
    <2> QED
        BY <2>1, <2>2
<1>16. OpeningInv'
    BY <1>1, <1>2, <1>15 DEF OpeningInv, HasPaths
<1> QED
    BY <1>10, <1>12, <1>13, <1>16

\* INSERT OR IGNORE of one file of an old row
LEMMA InsertKeeps ==
    ASSUME ArtifactsInv, UNCHANGED schema, NEW i \in DOMAIN Legacy, NEW role, NEW path, NEW row,
           row.id = i, row.cwd = Legacy[i].cwd,
           \/ role = StdoutRole(Kind(Legacy[i])) /\ path = Legacy[i].stdout
           \/ role = StderrRole(Kind(Legacy[i])) /\ path = Legacy[i].stderr,
           InsertLegacyArtifact(row, role, path)
    PROVE  ArtifactsInv' /\ artifacts \subseteq artifacts' /\ HasArtifact(i, role, path)'
<1> DEFINE new == [run |-> row.id, role |-> role, place |-> Place(path, row.cwd)]
<1>1. CASE path = NoPath \/ \E a \in artifacts : a.run = row.id /\ a.role = role
    <2>1. artifacts' = artifacts
        BY <1>1 DEF InsertLegacyArtifact
    <2> QED
        BY <1>1, <2>1 DEF ArtifactsInv, ArtifactOf, HasArtifact
<1>2. CASE ~(path = NoPath \/ \E a \in artifacts : a.run = row.id /\ a.role = role)
    <2>1. artifacts' = artifacts \cup {new}
        BY <1>2 DEF InsertLegacyArtifact
    <2>2. new.run = i /\ new.role = role /\ new.place = Place(path, Legacy[i].cwd)
        OBVIOUS
    <2>3. Placed(new.place, path, Legacy[i].cwd)
        BY <2>2, PlaceIsPlaced
    <2> HIDE DEF new
    <2>4. ArtifactOf(new, i)
        BY <2>2, <2>3 DEF ArtifactOf
    <2>5. \A a \in artifacts : ~(a.run = new.run /\ a.role = new.role)
        BY <1>2, <2>2
    <2>6. \A a \in artifacts' : a.run \in DOMAIN Legacy /\ ArtifactOf(a, a.run)
        BY <2>1, <2>2, <2>4 DEF ArtifactsInv
    <2>7. \A a, b \in artifacts' : a.run = b.run /\ a.role = b.role => a = b
        BY <2>1, <2>5 DEF ArtifactsInv
    <2>8. ArtifactsInv'
        BY <2>6, <2>7 DEF ArtifactsInv, ArtifactOf
    <2> QED
        BY <2>1, <2>2, <2>8 DEF HasArtifact
<1> QED
    BY <1>1, <1>2

LEMMA InsertStdoutKeeps == MigrationInv /\ InsertStdout => MigrationInv'
<1> SUFFICES ASSUME MigrationInv, InsertStdout PROVE MigrationInv'
    OBVIOUS
<1> USE DEF MigrationInv
<1> DEFINE row == Head(opening.rows)
<1> PICK k : k = Done + 1
    OBVIOUS
<1>1. /\ opening.step = "stdout" /\ opening' = [opening EXCEPT !.step = "stderr"]
      /\ UNCHANGED <<runs, schema, applied>>
      /\ InsertLegacyArtifact(row, StdoutRole(Kind(row)), row.stdout)
    BY DEF InsertStdout, table
<1>2. /\ 2 \notin applied /\ RowsInv /\ Columns \subseteq schema
      /\ DOMAIN opening = {"step", "statements", "rows"}
    BY <1>1 DEF OpeningInv
<1>3. /\ k \in DOMAIN Legacy /\ row \in {Legacy[k], Migrated(Legacy[k])}
      /\ opening.rows # <<>>
    BY <1>1, <1>2, RowsShape DEF RowsInv
<1> HIDE DEF row
<1>4. /\ row.id = k /\ Kind(row) = Kind(Legacy[k]) /\ row.stdout = Legacy[k].stdout
      /\ row.cwd = Legacy[k].cwd
    BY <1>3, FetchedRow
<1>5. ArtifactsInv' /\ artifacts \subseteq artifacts' /\ HasStdout(k)'
    <2>1. InsertLegacyArtifact(row, StdoutRole(Kind(Legacy[k])), Legacy[k].stdout)
        BY <1>1, <1>4
    <2>2. /\ ArtifactsInv' /\ artifacts \subseteq artifacts'
          /\ HasArtifact(k, StdoutRole(Kind(Legacy[k])), Legacy[k].stdout)'
        BY <1>1, <1>3, <1>4, <2>1, InsertKeeps
    <2> QED
        BY <2>2 DEF HasStdout
<1>6. \A i : (HasStdout(i) => HasStdout(i)') /\ (HasStderr(i) => HasStderr(i)')
    BY <1>1, <1>5, ArtifactsKept DEF HasPaths
<1>7. TableInv' /\ LegacyInv'
    BY <1>1, <1>2 DEF TableInv, LegacyInv
<1>8. /\ opening'.step = "stderr" /\ opening'.rows = opening.rows
      /\ DOMAIN opening' = {"step", "statements", "rows"}
    BY <1>1, <1>2
<1>9. Done' = Done
    BY <1>8 DEF Done
<1>10. RowsInv'
    <2>1. \A i \in DOMAIN Legacy :
              IF i <= Done THEN runs'[i] = Migrated(Legacy[i]) /\ HasStdout(i)' /\ HasStderr(i)'
              ELSE opening'.rows[i - Done] \in {Legacy[i], Migrated(Legacy[i])}
        BY <1>1, <1>2, <1>6, <1>8 DEF RowsInv
    <2>2. HasStdout(Done + 1)'
        BY <1>5, <1>9
    <2>3. HasPaths' /\ runs'[Done + 1] = Migrated(Legacy[Done + 1])
        BY <1>1, <1>2 DEF RowsInv, HasPaths
    <2> QED
        BY <1>2, <1>3, <1>8, <1>9, <2>1, <2>2, <2>3 DEF RowsInv
<1>11. OpeningInv'
    BY <1>1, <1>2, <1>8, <1>10 DEF OpeningInv, HasPaths
<1> QED
    BY <1>5, <1>7, <1>11

LEMMA InsertStderrKeeps == MigrationInv /\ InsertStderr => MigrationInv'
<1> SUFFICES ASSUME MigrationInv, InsertStderr PROVE MigrationInv'
    OBVIOUS
<1> USE DEF MigrationInv
<1> DEFINE row == Head(opening.rows)
<1> PICK k : k = Done + 1
    OBVIOUS
<1>1. /\ opening.step = "stderr" /\ opening' = NextRow
      /\ UNCHANGED <<runs, schema, applied>>
      /\ InsertLegacyArtifact(row, StderrRole(Kind(row)), row.stderr)
    BY DEF InsertStderr, table
<1>2. /\ 2 \notin applied /\ RowsInv /\ Columns \subseteq schema
      /\ DOMAIN opening = {"step", "statements", "rows"}
    BY <1>1 DEF OpeningInv
<1>3. /\ k \in DOMAIN Legacy /\ row \in {Legacy[k], Migrated(Legacy[k])}
      /\ opening.rows # <<>> /\ HasStdout(k) /\ runs[k] = Migrated(Legacy[k])
    BY <1>1, <1>2, RowsShape DEF RowsInv
<1> HIDE DEF row
<1>4. /\ row.id = k /\ Kind(row) = Kind(Legacy[k]) /\ row.stderr = Legacy[k].stderr
      /\ row.cwd = Legacy[k].cwd
    BY <1>3, FetchedRow
<1>5. ArtifactsInv' /\ artifacts \subseteq artifacts' /\ HasStderr(k)'
    <2>1. InsertLegacyArtifact(row, StderrRole(Kind(Legacy[k])), Legacy[k].stderr)
        BY <1>1, <1>4
    <2>2. /\ ArtifactsInv' /\ artifacts \subseteq artifacts'
          /\ HasArtifact(k, StderrRole(Kind(Legacy[k])), Legacy[k].stderr)'
        BY <1>1, <1>3, <1>4, <2>1, InsertKeeps
    <2> QED
        BY <2>2 DEF HasStderr
<1>6. \A i : (HasStdout(i) => HasStdout(i)') /\ (HasStderr(i) => HasStderr(i)')
    BY <1>1, <1>5, ArtifactsKept DEF HasPaths
<1>7. TableInv' /\ LegacyInv'
    BY <1>1, <1>2 DEF TableInv, LegacyInv
<1>8. RowsInv'
    <2>1. HasStdout(k)'
        BY <1>3, <1>6
    <2>2. \A i \in DOMAIN Legacy : i <= Done => runs'[i] = runs[i]
        BY <1>1
    <2>3. runs'[k] = Migrated(Legacy[k])
        BY <1>1, <1>3
    <2> QED
        BY <1>1, <1>2, <1>3, <1>5, <1>6, <2>1, <2>2, <2>3, NextRowKeeps
<1>9. opening'.step = "row" /\ DOMAIN opening' = {"step", "statements", "rows"}
    BY <1>1, <1>2 DEF NextRow
<1>10. OpeningInv'
    BY <1>1, <1>2, <1>8, <1>9 DEF OpeningInv, HasPaths
<1> QED
    BY <1>5, <1>7, <1>10

LEMMA MarkVersion2Keeps == MigrationInv /\ MarkVersion2 => MigrationInv'
<1> SUFFICES ASSUME MigrationInv, MarkVersion2 PROVE MigrationInv'
    OBVIOUS
<1> USE DEF MigrationInv
<1>1. /\ opening.step = "row" /\ opening.rows = <<>> /\ applied' = applied \cup {2}
      /\ opening' = [opening EXCEPT !.step = "version 3"]
      /\ UNCHANGED <<runs, schema, artifacts>>
    BY DEF MarkVersion2, table
<1>2. /\ RowsInv /\ Columns \subseteq schema /\ DOMAIN opening = {"step", "statements", "rows"}
    BY <1>1 DEF OpeningInv
<1>3. Len(Legacy) \in Nat /\ DOMAIN Legacy = 1..Len(Legacy)
    BY LegacyAssumption
<1>4. Done = Len(Legacy)
    <2>1. Len(<<>>) = 0
        OBVIOUS
    <2>2. Len(opening.rows) = 0
        BY <1>1, <2>1, Zenon
    <2> QED
        BY <1>3, <2>2 DEF Done
<1>5. \A i : (HasStdout(i) => HasStdout(i)') /\ (HasStderr(i) => HasStderr(i)')
    BY <1>1, ArtifactsKept DEF HasPaths
<1>6. ASSUME NEW i \in DOMAIN Legacy
      PROVE  IsMigrated(runs[i], Legacy[i]) /\ HasStdout(i)' /\ HasStderr(i)'
    <2>1. runs[i] = Migrated(Legacy[i]) /\ HasStdout(i) /\ HasStderr(i)
        BY <1>2, <1>3, <1>4 DEF RowsInv
    <2> QED
        BY <1>5, <2>1, FetchedRow
<1>7. LegacyInv'
    BY <1>1, <1>6 DEF LegacyInv
<1>8. TableInv' /\ ArtifactsInv'
    BY <1>1 DEF TableInv, ArtifactsInv, ArtifactOf
<1>9. opening'.step = "version 3" /\ DOMAIN opening' = {"step", "statements", "rows"}
    BY <1>1, <1>2
<1>10. OpeningInv'
    BY <1>1, <1>2, <1>9 DEF OpeningInv, HasPaths
<1> QED
    BY <1>7, <1>8, <1>10

LEMMA Version3Keeps == MigrationInv /\ (ApplyVersion3 \/ MarkVersion3) => MigrationInv'
<1> SUFFICES ASSUME MigrationInv, ApplyVersion3 \/ MarkVersion3 PROVE MigrationInv'
    OBVIOUS
<1> USE DEF MigrationInv
<1>1. /\ opening.step \in {"version 3", "mark 3"} /\ UNCHANGED <<runs, artifacts>>
      /\ schema' = schema \/ schema' = Ensured("target_json")
      /\ applied' = applied \/ applied' = applied \cup {3}
    BY DEF ApplyVersion3, MarkVersion3, table
<1>2. /\ Columns \subseteq schema /\ 2 \in applied
      /\ DOMAIN opening = {"step", "statements", "rows"}
    BY <1>1 DEF OpeningInv
<1>3. schema \subseteq schema' /\ ("paths" \in schema' <=> "paths" \in schema)
    BY <1>1, EnsuredPaths
<1>4. \A i : (HasStdout(i) => HasStdout(i)') /\ (HasStderr(i) => HasStderr(i)')
    BY <1>1, <1>3, ArtifactsKept DEF HasPaths
<1>5. 2 \in applied'
    BY <1>1, <1>2
<1>6. TableInv' /\ LegacyInv' /\ ArtifactsInv'
    <2>1. TableInv'
        BY <1>1 DEF TableInv
    <2>2. LegacyInv'
        BY <1>1, <1>2, <1>4, <1>5 DEF LegacyInv
    <2>3. ArtifactsInv'
        BY <1>1 DEF ArtifactsInv, ArtifactOf
    <2> QED
        BY <2>1, <2>2, <2>3
<1>7. opening'.step \in {"mark 3", "open"} /\ DOMAIN opening' = {"step", "statements", "rows"}
    BY <1>2 DEF ApplyVersion3, MarkVersion3
<1>8. Columns \subseteq schema'
    BY <1>2, <1>3
<1>9. HasPaths' <=> "paths" \in Found
    BY <1>3 DEF OpeningInv, HasPaths
<1> QED
    BY <1>5, <1>6, <1>7, <1>8, <1>9 DEF OpeningInv

LEMMA MigrateKeeps == MigrationInv /\ Migrate => MigrationInv'
    BY OpenDatabaseKeeps, DefineSchemaKeeps, StartVersion2Keeps, UpdateRowKeeps,
       InsertStdoutKeeps, InsertStderrKeeps, MarkVersion2Keeps, Version3Keeps DEF Migrate

-----------------------------------------------------------------------------
(* What executes                                                             *)

\* The executing command changes nothing of the others.
LEMMA SameCommandExecutes ==
    ASSUME ExecutingInv, Open, UNCHANGED <<command, opening>>,
           {"step", "next", "failures"} \subseteq DOMAIN sweep',
           {"step", "target", "failures"} \subseteq DOMAIN eval', "step" \in DOMAIN reparse',
           sweep'.step \in {"none", "next", "starting", "waiting", "drawing", "terminating",
                            "ok", "raised", "interrupted"},
           sweep'.step # "none" => command.name = "bench",
           eval'.step # "none" => command.name = "agent",
           shown'.done => command.name = "compare",
           reparse'.step # "none" => command.name = "reparse"
    PROVE  ExecutingInv'
<1>1. ~Refused
    BY DEF ExecutingInv, Open
<1>2. ~Refused'
    BY <1>1 DEF Refused
<1> QED
    BY <1>2 DEF ExecutingInv, Open

\* A command that is over has left nothing that executes.
LEMMA NothingExecutes ==
    ASSUME ExecutingInv, Over, sweep' = NoSweep \/ (sweep' = sweep /\ sweep.step = "none"),
           eval' = NoEval \/ (eval' = eval /\ eval.step = "none"), ~shown'.done,
           reparse' = NoReparse \/ (reparse' = reparse /\ reparse.step = "none")
    PROVE  ExecutingInv'
<1>1. ~Refused'
    BY DEF Refused, Over, NoCommand
<1>2. {"step", "next", "failures"} \subseteq DOMAIN sweep' /\ sweep'.step = "none"
    BY DEF NoSweep, ExecutingInv
<1>3. {"step", "target", "failures"} \subseteq DOMAIN eval' /\ eval'.step = "none"
    BY DEF NoEval, ExecutingInv
<1>4. "step" \in DOMAIN reparse' /\ reparse'.step = "none"
    BY DEF NoReparse, ExecutingInv
<1> QED
    BY <1>1, <1>2, <1>3, <1>4 DEF ExecutingInv

LEMMA SweepSteps ==
    ASSUME {"step", "next", "failures"} \subseteq DOMAIN sweep
    PROVE  /\ Continued.step = "next" /\ DOMAIN Continued = DOMAIN sweep
           /\ Raised.step \in {"next", "raised"} /\ DOMAIN Raised = DOMAIN sweep
           /\ Interrupted.step = "interrupted" /\ DOMAIN Interrupted = DOMAIN sweep
    BY DEF Continued, Raised, Interrupted

LEMMA EvalSteps ==
    ASSUME {"step", "target", "failures"} \subseteq DOMAIN eval
    PROVE  /\ EvalRaised.step \in {"target", "raised"} /\ DOMAIN EvalRaised = DOMAIN eval
           /\ NextTarget.step = "target" /\ DOMAIN NextTarget = DOMAIN eval
           /\ \A result : Got(result).step = "response" /\ DOMAIN Got(result) = DOMAIN eval
    BY DEF EvalRaised, NextTarget, Got

\* The rows of the commands have what identifies a row.
LEMMA NewRowFields ==
    \A kind, suite, label, work, config :
        /\ RowFields \subseteq DOMAIN NewRow(kind, suite, label, work, config)
        /\ NewRow(kind, suite, label, work, config).status = "running"
    BY DEF NewRow, RowFields

-----------------------------------------------------------------------------
(* The bench processes                                                       *)

\* A step that starts no bench and records no new row
LEMMA NoNewBench ==
    ASSUME TableInv, BenchesInv, UNCHANGED <<todo, applied>>, benches' \subseteq benches,
           Len(runs') = Len(runs), DOMAIN runs' = DOMAIN runs,
           \A b \in benches' : runs'[b.run].status # "ok",
           \/ sweep'.step = "none" /\ command' # NoCommand
           \/ sweep'.step \in {"next", "starting", "ok"}
           => \A b \in benches' : b.sweep > SweepId,
           sweep'.step = "starting" \/ eval'.step \in Evaluating =>
               \A b \in benches' : b.run < Current,
           sweep'.step = "starting" => sweep.step = "starting" /\ UNCHANGED runs,
           sweep'.step \in Waiting =>
               \A b \in benches' : b.sweep = SweepId \/ b.run = Current => b = ThisBench
    PROVE  BenchesInv'
<1>1. Current' = Current /\ SweepId' = SweepId
    BY DEF Current, SweepId
<1>2. ThisBench' = ThisBench
    BY <1>1 DEF ThisBench
<1> QED
    BY <1>1, <1>2 DEF BenchesInv

\* A command begins a row: no bench has it.
LEMMA NewRowIsFree ==
    ASSUME TableInv, BenchesInv, UNCHANGED <<todo, applied, benches>>, NEW row,
           RowFields \subseteq DOMAIN row, row.status # "ok", runs' = Append(runs, row),
           sweep'.step = "starting" => \A b \in benches : b.sweep > SweepId,
           sweep'.step \in {"none", "starting"},
           sweep'.step = "none" /\ command' # NoCommand =>
               sweep.step = "none" /\ command # NoCommand
    PROVE  BenchesInv'
<1>1. /\ Len(runs) \in Nat /\ DOMAIN runs = 1..Len(runs)
      /\ Len(runs') = Len(runs) + 1 /\ DOMAIN runs' = 1..(Len(runs) + 1)
      /\ \A i \in DOMAIN runs : runs'[i] = runs[i]
    BY TableShape, AppendKeepsRows
<1>5. runs'[Len(runs) + 1] = row
    <2> DEFINE S == {runs[i] : i \in DOMAIN runs}
    <2>1. runs \in Seq(S)
        BY DEF TableInv
    <2> HIDE DEF S
    <2> QED
        BY <2>1
<1>2. Current' = Len(runs) + 1 /\ SweepId' = SweepId
    BY <1>1 DEF Current, SweepId
<1>3. \A b \in benches : /\ b.run \in 1..(Len(runs) + 1) /\ b.run < Len(runs) + 1
                         /\ runs'[b.run].status # "ok"
    BY <1>1 DEF BenchesInv
<1>4. sweep'.step \notin Waiting
    BY DEF Waiting
<1> QED
    BY <1>1, <1>2, <1>3, <1>4, <1>5 DEF BenchesInv

LEMMA SweepIdIsNat == BenchesInv => SweepId \in Nat
    BY DEF BenchesInv, SweepId

-----------------------------------------------------------------------------
(* The steps of `llama bench`                                                *)

\* What a step of a sweep leaves alone
LEMMA BenchLeaves ==
    ASSUME Bench
    PROVE  /\ UNCHANGED todo
           /\ UNCHANGED command \/ Over
    BY DEF Bench, StartSweep, BeginTrial, StartBench, CannotStart, Draw, Drawn, BenchEnds,
           InterruptTrial, InterruptWait, Terminated, InterruptHandler, EndSweep, LeaveSweep,
           OrphanEnds, given

LEMMA TrialRowFields ==
    \A config, trial : /\ RowFields \subseteq DOMAIN TrialRow(config, trial)
                       /\ TrialRow(config, trial).status = "running"
    BY NewRowFields DEF TrialRow

LEMMA BenchKeepsRows == TableInv /\ Bench => RowsKept
<1> SUFFICES ASSUME TableInv, Bench PROVE RowsKept
    OBVIOUS
<1>1. CASE UNCHANGED runs
    BY <1>1, RowsUnchanged
<1>2. CASE BeginTrial
    <2>1. \/ UNCHANGED runs
          \/ \E row : RowFields \subseteq DOMAIN row /\ runs' = Append(runs, row)
        BY <1>2, TrialRowFields DEF BeginTrial, Begin, table
    <2> QED
        BY <2>1, <1>1, AppendKeepsRows
<1>3. CASE CannotStart \/ BenchEnds \/ InterruptTrial \/ InterruptWait \/ Terminated
           \/ InterruptHandler
    <2>1. UNCHANGED runs \/ \E status, metrics : runs' = Ended(status, metrics)
        BY <1>3 DEF CannotStart, BenchEnds, InterruptTrial, InterruptWait, Terminated,
                    InterruptHandler
    <2> QED
        BY <2>1, <1>1, EndedKeepsRows
<1>4. CASE StartSweep \/ StartBench \/ Draw \/ Drawn \/ EndSweep \/ LeaveSweep \/ OrphanEnds
    <2>1. UNCHANGED runs
        BY <1>4 DEF StartSweep, StartBench, Draw, Drawn, EndSweep, LeaveSweep, OrphanEnds, table
    <2> QED
        BY <1>1, <2>1
<1> QED
    BY <1>2, <1>3, <1>4 DEF Bench

LEMMA BenchKeepsExecuting ==
    ASSUME ExecutingInv, Open, Bench, UNCHANGED <<migration, evaluating, reporting, kills>>
    PROVE  ExecutingInv'
<1>1. /\ {"step", "next", "failures"} \subseteq DOMAIN sweep
      /\ UNCHANGED <<opening, eval, shown, reparse>>
    BY DEF ExecutingInv, migration, evaluating, reporting
<1>2. /\ {"step", "target", "failures"} \subseteq DOMAIN eval /\ "step" \in DOMAIN reparse
      /\ eval.step # "none" => command.name = "agent"
      /\ shown.done => command.name = "compare"
      /\ reparse.step # "none" => command.name = "reparse"
      /\ sweep.step # "none" => command.name = "bench"
      /\ sweep.step \in {"none", "next", "starting", "waiting", "drawing", "terminating",
                         "ok", "raised", "interrupted"}
    BY DEF ExecutingInv
<1> DEFINE steps == {"none", "next", "starting", "waiting", "drawing", "terminating", "ok",
                     "raised", "interrupted"}
           fields == {"step", "next", "failures"}
<1>3. CASE LeaveSweep
    <2>1. Over /\ sweep' = NoSweep /\ command.name = "bench"
        BY <1>2, <1>3 DEF LeaveSweep
    <2>2. eval.step = "none" /\ ~shown'.done /\ reparse.step = "none"
        BY <1>1, <1>2, <2>1
    <2> QED
        BY <1>1, <2>1, <2>2, NothingExecutes
<1>4. CASE UNCHANGED command /\ fields \subseteq DOMAIN sweep' /\ sweep'.step \in steps
           /\ (command.name = "bench" \/ UNCHANGED sweep)
    BY <1>1, <1>2, <1>4, SameCommandExecutes
<1>5. CASE StartSweep
    BY <1>5, <1>4 DEF StartSweep, given
<1>6. CASE BeginTrial
    BY <1>1, <1>2, <1>6, <1>4, SweepSteps DEF BeginTrial, given
<1>7. CASE StartBench \/ CannotStart \/ Draw \/ Drawn
    BY <1>1, <1>2, <1>7, <1>4, SweepSteps DEF StartBench, CannotStart, Draw, Drawn, given
<1>8. CASE BenchEnds
    BY <1>1, <1>2, <1>8, <1>4, SweepSteps DEF BenchEnds, given
<1>9. CASE InterruptTrial \/ InterruptWait \/ Terminated \/ InterruptHandler
    BY <1>1, <1>2, <1>9, <1>4, SweepSteps
       DEF InterruptTrial, InterruptWait, Terminated, InterruptHandler, given
<1>10. CASE EndSweep \/ OrphanEnds
    BY <1>1, <1>2, <1>10, <1>4 DEF EndSweep, OrphanEnds, given
<1> QED
    BY <1>3, <1>5, <1>6, <1>7, <1>8, <1>9, <1>10 DEF Bench

LEMMA BenchKeepsBenches ==
    ASSUME TableInv, ExecutingInv, BenchesInv, 2 \in applied, Bench,
           UNCHANGED <<migration, evaluating>>
    PROVE  BenchesInv'
<1>1. /\ UNCHANGED <<todo, applied, eval>>
      /\ {"step", "next", "failures"} \subseteq DOMAIN sweep
      /\ sweep.step # "none" => command.name = "bench"
      /\ eval.step # "none" => command.name = "agent"
    BY BenchLeaves DEF migration, database, evaluating, ExecutingInv
<1>2. command.name = "bench" => eval.step = "none" /\ eval.step \notin Evaluating
    BY <1>1 DEF Evaluating
<1>3. /\ \A b \in benches : /\ b.sweep \in Nat /\ b.sweep >= SweepId
                            /\ b.run \in DOMAIN runs /\ runs[b.run].status # "ok"
      /\ \/ sweep.step = "none" /\ command # NoCommand
         \/ sweep.step \in {"next", "starting", "ok"}
         => \A b \in benches : b.sweep > SweepId
      /\ sweep.step = "starting" \/ eval.step \in Evaluating =>
             \A b \in benches : b.run < Current
      /\ sweep.step = "starting" => Current \in DOMAIN runs /\ runs[Current].status # "ok"
      /\ sweep.step \in Waiting =>
             \A b \in benches : b.sweep = SweepId \/ b.run = Current => b = ThisBench
    BY DEF BenchesInv
<1>4. ThisBench.sweep = SweepId /\ ThisBench.run = Current
    BY DEF ThisBench
<1>5. SweepId \in Nat
    BY SweepIdIsNat
<1>6. NoCommand.name = "none"
    BY DEF NoCommand
\* Steps after which the sweep is at no trial, whatever becomes of its row
<1>7. CASE /\ sweep'.step = "interrupted" /\ command.name = "bench" /\ benches' \subseteq benches
           /\ Len(runs') = Len(runs) /\ DOMAIN runs' = DOMAIN runs
           /\ \A b \in benches' : runs'[b.run].status # "ok"
    BY <1>1, <1>2, <1>7, NoNewBench DEF Waiting
<1>8. ASSUME NEW metrics, runs' = Ended("failed", metrics)
      PROVE  /\ Len(runs') = Len(runs) /\ DOMAIN runs' = DOMAIN runs
             /\ \A b \in benches : runs'[b.run].status # "ok"
    BY <1>3, <1>8, EndedKeepsRows
<1>9. CASE StartSweep
    <2>1. sweep'.step = "next" /\ UNCHANGED <<runs, benches>> /\ command.name = "bench"
        BY <1>9 DEF StartSweep, table
    <2>2. \A b \in benches : b.sweep > SweepId
        BY <1>3, <1>6, <1>9, <2>1 DEF StartSweep
    <2> QED
        BY <1>1, <1>2, <1>3, <2>1, <2>2, NoNewBench DEF Waiting
<1>10. CASE BeginTrial
    <2>1. /\ sweep.step = "next" /\ UNCHANGED <<benches, command>> /\ command.name = "bench"
          /\ \A b \in benches : b.sweep > SweepId
        BY <1>1, <1>3, <1>10 DEF BeginTrial, given
    <2>2. CASE sweep' = Raised /\ UNCHANGED runs
        <3>1. sweep'.step \in {"next", "raised"}
            BY <1>1, <2>2, SweepSteps
        <3> QED
            BY <1>1, <1>2, <1>3, <2>1, <2>2, <3>1, NoNewBench DEF Waiting
    <2>3. CASE /\ sweep' = [sweep EXCEPT !.step = "starting"]
               /\ \E row : /\ RowFields \subseteq DOMAIN row /\ row.status = "running"
                           /\ runs' = Append(runs, row)
        <3>1. sweep'.step = "starting"
            BY <1>1, <2>3
        <3> QED
            BY <1>1, <2>1, <2>3, <3>1, NewRowIsFree
    <2> QED
        BY <1>10, <2>2, <2>3, TrialRowFields DEF BeginTrial, Begin, table
<1>11. CASE StartBench
    <2>1. /\ sweep.step = "starting" /\ benches' = benches \cup {ThisBench}
          /\ sweep'.step = "waiting" /\ UNCHANGED <<runs, command>> /\ command.name = "bench"
        BY <1>1, <1>11 DEF StartBench, table, given
    <2>2. Current' = Current /\ SweepId' = SweepId
        BY <1>1, <2>1 DEF Current, SweepId
    <2>3. ThisBench' = ThisBench
        BY <2>2 DEF ThisBench
    <2>4. /\ \A b \in benches : b.sweep > SweepId /\ b.run < Current
          /\ Current \in DOMAIN runs /\ runs[Current].status # "ok"
        BY <1>3, <2>1
    <2>5. ThisBench = [run |-> ThisBench.run, sweep |-> ThisBench.sweep]
        BY DEF ThisBench
    <2>6. Current \in Nat
        BY TableShape DEF Current
    <2>7. \A b \in benches' :
              /\ b = [run |-> b.run, sweep |-> b.sweep]
              /\ b.sweep \in Nat /\ b.sweep >= SweepId
              /\ b.run \in DOMAIN runs' /\ runs'[b.run].status # "ok"
        BY <1>4, <1>5, <2>1, <2>4, <2>5 DEF BenchesInv
    <2>8. \A b, c \in benches' : b.sweep = c.sweep => b = c
        BY <1>3, <1>4, <1>5, <2>1, <2>4 DEF BenchesInv
    <2>9. \A b \in benches' : b.sweep = SweepId \/ b.run = Current => b = ThisBench
        BY <1>3, <1>5, <2>1, <2>4, <2>6 DEF BenchesInv
    <2> QED
        BY <1>1, <1>2, <2>1, <2>2, <2>3, <2>7, <2>8, <2>9 DEF BenchesInv, Waiting
<1>12. CASE CannotStart
    <2>1. /\ sweep.step = "starting" /\ runs' = Ended("failed", NoMetrics) /\ sweep' = Raised
          /\ UNCHANGED benches /\ command.name = "bench"
        BY <1>1, <1>12 DEF CannotStart
    <2>2. sweep'.step \in {"next", "raised"} /\ \A b \in benches : b.sweep > SweepId
        BY <1>1, <1>3, <2>1, SweepSteps
    <2>3. /\ Len(runs') = Len(runs) /\ DOMAIN runs' = DOMAIN runs
          /\ \A b \in benches : runs'[b.run].status # "ok"
        BY <1>8, <2>1
    <2> QED
        BY <1>1, <1>2, <2>1, <2>2, <2>3, NoNewBench DEF Waiting
<1>13. CASE Draw \/ Drawn
    <2>1. /\ sweep.step \in Waiting /\ sweep'.step \in {"waiting", "drawing"}
          /\ UNCHANGED <<runs, benches>> /\ command.name = "bench"
        BY <1>1, <1>13 DEF Draw, Drawn, Waiting, table
    <2> QED
        BY <1>1, <1>2, <1>3, <2>1, NoNewBench DEF Waiting
<1>14. CASE BenchEnds
    <2>1. /\ sweep.step = "waiting" /\ benches' = benches \ {ThisBench}
          /\ command.name = "bench"
        BY <1>1, <1>14 DEF BenchEnds
    <2>2. PICK status, metrics : runs' = Ended(status, metrics)
        BY <1>14 DEF BenchEnds
    <2>3. sweep'.step \in {"next", "raised"}
        BY <1>1, <1>14, SweepSteps DEF BenchEnds
    <2>4. \A b \in benches' : /\ b \in benches /\ b.sweep # SweepId /\ b.run # Current
                              /\ b.sweep > SweepId
        BY <1>3, <1>5, <2>1 DEF Waiting
    <2>5. /\ Len(runs') = Len(runs) /\ DOMAIN runs' = DOMAIN runs
          /\ \A b \in benches' : runs'[b.run].status # "ok"
        BY <1>3, <2>2, <2>4, EndedKeepsRows
    <2> QED
        BY <1>1, <1>2, <2>1, <2>3, <2>4, <2>5, NoNewBench DEF Waiting
<1>15. CASE InterruptTrial
    <2>1. /\ sweep'.step = "interrupted" /\ UNCHANGED benches /\ command.name = "bench"
          /\ UNCHANGED runs \/ runs' = Ended("failed", NoMetrics)
        BY <1>1, <1>15, SweepSteps DEF InterruptTrial
    <2> QED
        BY <1>3, <1>7, <1>8, <2>1
<1>16. CASE InterruptWait
    <2>1. CASE command.progress
        <3>1. /\ sweep.step = "waiting" /\ sweep'.step = "terminating"
              /\ UNCHANGED <<runs, benches>> /\ command.name = "bench"
            BY <1>1, <1>16, <2>1 DEF InterruptWait
        <3> QED
            BY <1>1, <1>2, <1>3, <3>1, NoNewBench DEF Waiting
    <2>2. CASE ~command.progress
        <3>1. /\ sweep'.step = "interrupted" /\ benches' \subseteq benches /\ command.name = "bench"
              /\ runs' = Ended("failed", NoMetrics)
            BY <1>1, <1>16, <2>2, SweepSteps DEF InterruptWait
        <3> QED
            BY <1>7, <1>8, <3>1
    <2> QED
        BY <2>1, <2>2
<1>17. CASE Terminated \/ InterruptHandler
    <2>1. /\ sweep'.step = "interrupted" /\ benches' \subseteq benches /\ command.name = "bench"
          /\ runs' = Ended("failed", NoMetrics)
        BY <1>1, <1>17, SweepSteps DEF Terminated, InterruptHandler
    <2> QED
        BY <1>7, <1>8, <2>1
<1>18. CASE EndSweep
    <2>1. /\ sweep.step = "next" /\ sweep'.step \in {"ok", "raised"}
          /\ UNCHANGED <<runs, benches>> /\ command.name = "bench"
        BY <1>1, <1>18 DEF EndSweep, table
    <2> QED
        BY <1>1, <1>2, <1>3, <2>1, NoNewBench DEF Waiting
<1>19. CASE LeaveSweep
    <2>1. /\ sweep'.step = "none" /\ command' = NoCommand /\ UNCHANGED <<runs, benches>>
          /\ command.name = "bench"
        BY <1>1, <1>19 DEF LeaveSweep, NoSweep, Over, table
    <2> QED
        BY <1>1, <1>2, <1>3, <2>1, NoNewBench DEF Waiting
<1>20. CASE OrphanEnds
    <2>1. benches' \subseteq benches /\ UNCHANGED <<runs, sweep, command>>
        BY <1>20 DEF OrphanEnds, table, given
    <2>2. Len(runs') = Len(runs) /\ DOMAIN runs' = DOMAIN runs
        BY <2>1
    <2> QED
        BY <1>1, <1>3, <2>1, <2>2, NoNewBench
<1> QED
    BY <1>9, <1>10, <1>11, <1>12, <1>13, <1>14, <1>15, <1>16, <1>17, <1>18, <1>19, <1>20
       DEF Bench

-----------------------------------------------------------------------------
(* The steps of `agent eval`, `compare`, `reparse` and                       *)
(* `backfill-system-metadata`                                                *)

LEMMA EvalRowFields ==
    \A config, endpoint : /\ RowFields \subseteq DOMAIN EvalRow(config, endpoint)
                          /\ EvalRow(config, endpoint).status = "running"
    BY NewRowFields DEF EvalRow

\* What a step of an evaluation does to the table: begin a row, end the current one,
\* or nothing.
LEMMA EvaluateRows ==
    ASSUME Evaluate
    PROVE  /\ UNCHANGED todo /\ (UNCHANGED command \/ Over)
           /\ \/ UNCHANGED runs
              \/ BeginTarget
              \/ \E status, metrics :
                     /\ runs' = Ended(status, metrics)
                     /\ eval.step \in Evaluating \/ status = "failed"
    BY DEF Evaluate, StartEval, BeginTarget, ClaimArtifact, Ask, AppendResponse, AppendError,
           RecordSample, Measure, Complete, InterruptEval, EndEval, LeaveEval, Evaluating, table, given

LEMMA EvaluateKeepsRows == TableInv /\ Evaluate => RowsKept
<1> SUFFICES ASSUME TableInv, Evaluate PROVE RowsKept
    OBVIOUS
<1>1. CASE BeginTarget
    <2>1. \E row : RowFields \subseteq DOMAIN row /\ runs' = Append(runs, row)
        BY <1>1, EvalRowFields DEF BeginTarget, Begin
    <2> QED
        BY <2>1, AppendKeepsRows
<1> QED
    BY <1>1, EvaluateRows, RowsUnchanged, EndedKeepsRows

LEMMA EvaluateKeepsExecuting ==
    ASSUME ExecutingInv, Open, Evaluate, UNCHANGED <<migration, benching, reporting, kills>>
    PROVE  ExecutingInv'
<1>1. UNCHANGED <<opening, sweep, shown, reparse>>
    BY DEF migration, benching, reporting
<1>2. /\ {"step", "next", "failures"} \subseteq DOMAIN sweep
      /\ {"step", "target", "failures"} \subseteq DOMAIN eval /\ "step" \in DOMAIN reparse
      /\ eval.step # "none" => command.name = "agent"
      /\ shown.done => command.name = "compare"
      /\ reparse.step # "none" => command.name = "reparse"
      /\ sweep.step # "none" => command.name = "bench"
      /\ sweep.step \in {"none", "next", "starting", "waiting", "drawing", "terminating",
                         "ok", "raised", "interrupted"}
    BY DEF ExecutingInv
<1> DEFINE fields == {"step", "target", "failures"}
<1>3. CASE LeaveEval
    <2>1. Over /\ eval' = NoEval /\ command.name = "agent"
        BY <1>2, <1>3 DEF LeaveEval
    <2>2. sweep.step = "none" /\ ~shown'.done /\ reparse.step = "none"
        BY <1>1, <1>2, <2>1
    <2> QED
        BY <1>1, <2>1, <2>2, NothingExecutes
<1>4. CASE UNCHANGED command /\ fields \subseteq DOMAIN eval' /\ command.name = "agent"
    BY <1>1, <1>2, <1>4, SameCommandExecutes
<1>5. CASE StartEval
    BY <1>5, <1>4 DEF StartEval, NoEval, given
<1>6. CASE BeginTarget \/ ClaimArtifact \/ AppendResponse \/ AppendError \/ RecordSample \/ Measure
    BY <1>2, <1>6, <1>4 DEF BeginTarget, ClaimArtifact, AppendResponse, AppendError, RecordSample, Measure, given
<1>7. CASE Ask
    <2>1. eval.step = "ask" /\ UNCHANGED command
        BY <1>7 DEF Ask, given
    <2>2. DOMAIN eval' = DOMAIN eval
        <3>1. PICK reply :
                  \/ \E result : eval' = Got(result)
                  \/ eval' = [eval EXCEPT !.attempt = @ + 1]
            BY <1>7 DEF Ask
        <3> QED
            BY <1>2, <3>1, EvalSteps
    <2> QED
        BY <1>2, <1>4, <2>1, <2>2
<1>8. CASE Complete
    BY <1>2, <1>8, <1>4, EvalSteps DEF Complete, given
<1>9. CASE InterruptEval \/ EndEval
    BY <1>2, <1>9, <1>4 DEF InterruptEval, EndEval, given
<1> QED
    BY <1>3, <1>5, <1>6, <1>7, <1>8, <1>9 DEF Evaluate

\* While an evaluation has a current row no bench process has that row.
LEMMA EvaluateKeepsBenches ==
    ASSUME TableInv, ExecutingInv, BenchesInv, Evaluate, UNCHANGED <<migration, benching>>
    PROVE  BenchesInv'
<1>1. /\ UNCHANGED <<todo, applied, sweep, benches>>
      /\ sweep.step # "none" => command.name = "bench"
      /\ eval.step # "none" => command.name = "agent"
      /\ {"step", "target", "failures"} \subseteq DOMAIN eval
    BY EvaluateRows DEF migration, database, benching, ExecutingInv
<1>2. command.name = "agent"
    BY <1>1 DEF Evaluate, StartEval, BeginTarget, ClaimArtifact, Ask, AppendResponse, AppendError,
                RecordSample, Measure, Complete, InterruptEval, EndEval, LeaveEval
<1>3. sweep.step = "none" /\ sweep'.step = "none" /\ command # NoCommand
    BY <1>1, <1>2 DEF NoCommand
<1>4. /\ \A b \in benches : /\ b.sweep \in Nat /\ b.sweep > SweepId
                            /\ b.run \in DOMAIN runs /\ runs[b.run].status # "ok"
      /\ eval.step \in Evaluating => \A b \in benches : b.run < Current
    BY <1>3 DEF BenchesInv
<1>5. CASE BeginTarget
    <2>1. \E row : /\ RowFields \subseteq DOMAIN row /\ row.status = "running"
                   /\ runs' = Append(runs, row)
        BY <1>5, EvalRowFields DEF BeginTarget, Begin
    <2> QED
        BY <1>1, <1>3, <2>1, NewRowIsFree
<1>6. CASE ~BeginTarget
    <2>1. eval'.step \in Evaluating => eval.step \in Evaluating
        <3>1. CASE ClaimArtifact \/ Ask \/ AppendResponse \/ AppendError \/ RecordSample \/ Measure
                   \/ Complete
            <4>1. eval.step \in {"claim", "ask", "response", "error", "sample", "measure", "complete"}
                BY <3>1, Zenon DEF ClaimArtifact, Ask, AppendResponse, AppendError, RecordSample,
                                   Measure, Complete
            <4> QED
                BY <4>1 DEF Evaluating
        <3>2. CASE StartEval \/ InterruptEval \/ EndEval \/ LeaveEval
            <4>1. CASE StartEval \/ LeaveEval
                <5>1. {"step", "target"} \subseteq DOMAIN NoEval /\ NoEval.step = "none"
                    BY DEF NoEval
                <5>2. eval'.step = "target" \/ eval'.step = "none"
                    BY <4>1, <5>1 DEF StartEval, LeaveEval
                <5> QED
                    BY <5>2 DEF Evaluating
            <4>2. CASE InterruptEval \/ EndEval
                <5>1. eval'.step \in {"ok", "raised", "interrupted"}
                    BY <1>1, <4>2 DEF InterruptEval, EndEval
                <5> QED
                    BY <5>1 DEF Evaluating
            <4> QED
                BY <3>2, <4>1, <4>2
        <3> QED
            BY <1>6, <3>1, <3>2 DEF Evaluate
    <2>2. /\ Len(runs') = Len(runs) /\ DOMAIN runs' = DOMAIN runs
          /\ \A b \in benches' : runs'[b.run].status # "ok"
        <3>1. CASE UNCHANGED runs
            BY <1>1, <1>4, <3>1
        <3>2. ASSUME NEW status, NEW metrics, runs' = Ended(status, metrics),
                     eval.step \in Evaluating \/ status = "failed"
              PROVE  /\ Len(runs') = Len(runs) /\ DOMAIN runs' = DOMAIN runs
                     /\ \A b \in benches' : runs'[b.run].status # "ok"
            <4>1. Current \in Nat /\ DOMAIN runs \subseteq Nat
                BY TableShape DEF Current
            <4>2. eval.step \in Evaluating => \A b \in benches : b.run # Current
                BY <1>4, <4>1
            <4> QED
                BY <1>1, <1>4, <3>2, <4>2, EndedKeepsRows
        <3> QED
            BY <1>6, <3>1, <3>2, EvaluateRows
    <2> QED
        BY <1>1, <1>3, <1>4, <2>1, <2>2, NoNewBench DEF Waiting
<1> QED
    BY <1>5, <1>6

\* `reparse` and `backfill-system-metadata` set one column; the others only read.
LEMMA ReportRows ==
    ASSUME TableInv, Report
    PROVE  /\ RowsKept /\ Len(runs') = Len(runs) /\ DOMAIN runs' = DOMAIN runs
           /\ \A i \in DOMAIN runs : runs'[i].status = runs[i].status
           /\ UNCHANGED todo
<1>1. UNCHANGED todo
    BY DEF Report, Compare, LeaveCompare, StartReparse, ReparseRow, LeaveReparse, Backfill, given
<1>2. CASE UNCHANGED runs
    BY <1>1, <1>2, RowsUnchanged
<1>3. CASE ReparseRow
    <2>1. \/ UNCHANGED runs
          \/ \E k, value : runs' = [runs EXCEPT ![k].metrics = value]
        BY <1>3 DEF ReparseRow
    <2>2. ASSUME NEW k, NEW value, runs' = [runs EXCEPT ![k].metrics = value]
          PROVE  /\ runs' = [i \in DOMAIN runs |-> runs'[i]]
                 /\ \A i \in DOMAIN runs :
                        \/ runs'[i] = runs[i]
                        \/ \E v : runs'[i] = [runs[i] EXCEPT !.metrics = v]
        BY <2>2
    <2> QED
        BY <1>1, <1>2, <2>1, <2>2, ColumnKeepsRows
<1>4. CASE Backfill
    <2>1. /\ runs' = [i \in DOMAIN runs |-> runs'[i]]
          /\ \A i \in DOMAIN runs :
                 \/ runs'[i] = runs[i]
                 \/ \E v : runs'[i] = [runs[i] EXCEPT !.system = v]
        BY <1>4 DEF Backfill
    <2> QED
        BY <1>1, <2>1, ColumnKeepsRows
<1>5. CASE Compare \/ LeaveCompare \/ StartReparse \/ LeaveReparse
    BY <1>2, <1>5 DEF Compare, LeaveCompare, StartReparse, LeaveReparse, table
<1> QED
    BY <1>3, <1>4, <1>5 DEF Report

LEMMA ReportKeepsExecuting ==
    ASSUME ExecutingInv, Open, Report, UNCHANGED <<migration, benching, evaluating, kills>>
    PROVE  ExecutingInv'
<1>1. UNCHANGED <<opening, sweep, eval>>
    BY DEF migration, benching, evaluating
<1>2. /\ {"step", "next", "failures"} \subseteq DOMAIN sweep
      /\ {"step", "target", "failures"} \subseteq DOMAIN eval /\ "step" \in DOMAIN reparse
      /\ eval.step # "none" => command.name = "agent"
      /\ shown.done => command.name = "compare"
      /\ reparse.step # "none" => command.name = "reparse"
      /\ sweep.step # "none" => command.name = "bench"
      /\ sweep.step \in {"none", "next", "starting", "waiting", "drawing", "terminating",
                         "ok", "raised", "interrupted"}
    BY DEF ExecutingInv
<1>3. CASE Compare
    BY <1>1, <1>2, <1>3, SameCommandExecutes DEF Compare, given
<1>4. CASE LeaveCompare
    <2>1. /\ command.name = "compare" /\ Over /\ ~shown'.done /\ UNCHANGED reparse
        BY <1>2, <1>4 DEF LeaveCompare, NothingShown
    <2>2. sweep.step = "none" /\ eval.step = "none" /\ reparse.step = "none"
        BY <1>2, <2>1
    <2> QED
        BY <1>1, <2>1, <2>2, NothingExecutes
<1>5. CASE StartReparse
    BY <1>1, <1>2, <1>5, SameCommandExecutes DEF StartReparse, NoReparse, given
<1>6. CASE ReparseRow
    <2>1. /\ "step" \in DOMAIN reparse' /\ reparse'.step = reparse.step
          /\ UNCHANGED <<command, shown>>
        BY <1>2, <1>6 DEF ReparseRow, given
    <2> QED
        BY <1>1, <1>2, <2>1, SameCommandExecutes
<1>7. CASE LeaveReparse
    <2>1. /\ command.name = "reparse" /\ Over /\ reparse' = NoReparse /\ UNCHANGED shown
        BY <1>2, <1>7 DEF LeaveReparse
    <2>2. sweep.step = "none" /\ eval.step = "none" /\ ~shown'.done
        BY <1>2, <2>1
    <2> QED
        BY <1>1, <2>1, <2>2, NothingExecutes
<1>8. CASE Backfill
    <2>1. command.name = "backfill" /\ Over /\ UNCHANGED <<shown, reparse>>
        BY <1>8 DEF Backfill, reporting
    <2>2. sweep.step = "none" /\ eval.step = "none" /\ reparse.step = "none" /\ ~shown'.done
        BY <1>2, <2>1
    <2> QED
        BY <1>1, <2>1, <2>2, NothingExecutes
<1> QED
    BY <1>3, <1>4, <1>5, <1>6, <1>7, <1>8 DEF Report

LEMMA ReportKeepsBenches ==
    ASSUME TableInv, ExecutingInv, BenchesInv, Report,
           UNCHANGED <<migration, benching, evaluating>>
    PROVE  BenchesInv'
<1>1. /\ UNCHANGED <<todo, applied, sweep, benches, eval>>
      /\ Len(runs') = Len(runs) /\ DOMAIN runs' = DOMAIN runs
      /\ \A i \in DOMAIN runs : runs'[i].status = runs[i].status
    BY ReportRows DEF migration, database, benching, evaluating
<1>2. command.name \in {"compare", "reparse", "backfill"}
    BY DEF Report, Compare, LeaveCompare, StartReparse, ReparseRow, LeaveReparse, Backfill,
           ExecutingInv
<1>3. sweep.step = "none" /\ eval.step = "none" /\ command # NoCommand
    BY <1>2 DEF ExecutingInv, NoCommand
<1>4. /\ \A b \in benches : b.sweep > SweepId
      /\ \A b \in benches' : runs'[b.run].status # "ok"
    BY <1>1, <1>3 DEF BenchesInv
<1> QED
    BY <1>1, <1>3, <1>4, NoNewBench DEF Waiting, Evaluating

-----------------------------------------------------------------------------
(* Every step keeps the invariant.                                           *)

LEMMA MigrateKeepsCommands ==
    ASSUME CommandsInv, ~Refused, Migrate,
           UNCHANGED <<benching, evaluating, reporting, kills>>
    PROVE  CommandsInv'
<1> USE DEF CommandsInv
<1>1. MigrationInv'
    BY MigrateKeeps
<1>2. /\ UNCHANGED <<todo, command, sweep, benches, eval, shown, reparse>>
      /\ ~Open /\ applied \subseteq applied'
    BY DEF Migrate, OpenDatabase, DefineSchema, StartVersion2, UpdateRow, InsertStdout,
           InsertStderr, MarkVersion2, ApplyVersion3, MarkVersion3, Open, benching, evaluating,
           reporting, given, database
<1>3. ~Refused'
    BY <1>2 DEF Refused
<1>4. ExecutingInv'
    BY <1>2, <1>3 DEF ExecutingInv
<1>5. CASE UNCHANGED runs
    <2>1. Current' = Current /\ SweepId' = SweepId
        BY <1>2, <1>5 DEF Current, SweepId
    <2>2. ThisBench' = ThisBench
        BY <2>1 DEF ThisBench
    <2> QED
        BY <1>1, <1>2, <1>4, <1>5, <2>1, <2>2 DEF BenchesInv
<1>6. CASE UpdateRow
    <2>1. 2 \notin applied
        BY <1>6 DEF UpdateRow, MigrationInv, OpeningInv
    <2>2. benches = {}
        BY <2>1 DEF BenchesInv
    <2>3. sweep.step = "none"
        BY <1>2 DEF ExecutingInv
    <2> QED
        BY <1>1, <1>2, <1>4, <2>2, <2>3 DEF BenchesInv, Waiting
<1>7. UNCHANGED runs \/ UpdateRow
    BY DEF Migrate, OpenDatabase, DefineSchema, StartVersion2, UpdateRow, InsertStdout,
           InsertStderr, MarkVersion2, ApplyVersion3, MarkVersion3, table
<1> QED
    BY <1>5, <1>6, <1>7

\* A step of an open database's command, which keeps what was migrated
LEMMA OpenKeepsMigration ==
    ASSUME MigrationInv, Open, RowsKept, UNCHANGED migration
    PROVE  MigrationInv'
<1>1. 2 \in applied /\ opening.step = "open"
    BY DEF MigrationInv, OpeningInv, Open
<1> QED
    BY <1>1, CommandKeepsMigration DEF migration, database

LEMMA BenchKeepsCommands ==
    ASSUME CommandsInv, Open, Bench, UNCHANGED <<migration, evaluating, reporting, kills>>
    PROVE  CommandsInv'
<1>1. TableInv /\ 2 \in applied
    BY DEF CommandsInv, MigrationInv, OpeningInv, Open
<1>2. MigrationInv'
    BY <1>1, BenchKeepsRows, OpenKeepsMigration DEF CommandsInv
<1> QED
    BY <1>1, <1>2, BenchKeepsExecuting, BenchKeepsBenches DEF CommandsInv

LEMMA EvaluateKeepsCommands ==
    ASSUME CommandsInv, Open, Evaluate, UNCHANGED <<migration, benching, reporting, kills>>
    PROVE  CommandsInv'
<1>1. TableInv
    BY DEF CommandsInv, MigrationInv
<1>2. MigrationInv'
    BY <1>1, EvaluateKeepsRows, OpenKeepsMigration DEF CommandsInv
<1> QED
    BY <1>1, <1>2, EvaluateKeepsExecuting, EvaluateKeepsBenches DEF CommandsInv

LEMMA ReportKeepsCommands ==
    ASSUME CommandsInv, Open, Report, UNCHANGED <<migration, benching, evaluating, kills>>
    PROVE  CommandsInv'
<1>1. TableInv
    BY DEF CommandsInv, MigrationInv
<1>2. MigrationInv'
    BY <1>1, ReportRows, OpenKeepsMigration DEF CommandsInv
<1> QED
    BY <1>1, <1>2, ReportKeepsExecuting, ReportKeepsBenches DEF CommandsInv

LEMMA GiveKeepsCommands == CommandsInv /\ Give => CommandsInv'
<1> SUFFICES ASSUME CommandsInv, Give PROVE CommandsInv'
    OBVIOUS
<1>1. /\ command = NoCommand /\ todo # <<>> /\ command' = Head(todo) /\ todo' = Tail(todo)
      /\ opening' = Shut /\ UNCHANGED <<runs, schema, applied, artifacts, sweep, benches, eval,
                                        shown, reparse>>
    BY DEF Give, table, database, benching, evaluating, reporting
<1>2. MigrationInv /\ TableInv /\ ExecutingInv /\ BenchesInv
    BY DEF CommandsInv, MigrationInv
<1>3. MigrationInv'
    BY <1>1, <1>2, RowsUnchanged, CommandKeepsMigration
<1>4. NoCommand.name = "none"
    BY DEF NoCommand
<1>5. sweep.step = "none" /\ eval.step = "none" /\ ~shown.done /\ reparse.step = "none"
    BY <1>1, <1>2, <1>4 DEF ExecutingInv
<1>6. ExecutingInv'
    <2>1. ~shown'.done /\ opening'.step = "shut"
        BY <1>1, <1>5 DEF Shut
    <2> QED
        BY <1>1, <1>2, <1>5, <2>1 DEF ExecutingInv
<1>7. BenchesInv'
    <2> DEFINE Given == AllCommands
    <2>1. todo \in Seq(Given)
        BY <1>2 DEF BenchesInv
    <2> HIDE DEF Given
    <2>2. todo' \in Seq(Given) /\ Len(todo) \in Nat /\ Len(todo') = Len(todo) - 1
        BY <1>1, <2>1
    <2>3. \A b \in benches : b.sweep \in Nat /\ b.sweep >= SweepId' /\ b.sweep > SweepId'
        BY <1>2, <2>2 DEF BenchesInv, SweepId
    <2>4. Current' = Current
        BY <1>1 DEF Current
    <2> QED
        BY <1>1, <1>2, <1>5, <2>2, <2>3, <2>4 DEF BenchesInv, Waiting, Evaluating, Given
<1> QED
    BY <1>3, <1>6, <1>7 DEF CommandsInv

\* A command that is refused or killed leaves the database, and any bench process.
LEMMA LeavingKeepsBenches ==
    ASSUME BenchesInv, UNCHANGED <<runs, todo, applied, benches>>, Over, sweep'.step = "none",
           eval'.step = "none"
    PROVE  BenchesInv'
<1>1. Current' = Current /\ SweepId' = SweepId
    BY DEF Current, SweepId
<1> QED
    BY <1>1 DEF BenchesInv, Over, Waiting, Evaluating

LEMMA RefuseKeepsCommands == CommandsInv /\ Refuse => CommandsInv'
<1> SUFFICES ASSUME CommandsInv, Refuse PROVE CommandsInv'
    OBVIOUS
<1>1. /\ Refused /\ Over
      /\ UNCHANGED <<runs, todo, schema, applied, artifacts, opening, sweep, benches, eval,
                     shown, reparse>>
    BY DEF Refuse, table, migration, database, benching, evaluating, reporting
<1>2. MigrationInv /\ TableInv /\ ExecutingInv /\ BenchesInv
    BY DEF CommandsInv, MigrationInv
<1>3. MigrationInv'
    BY <1>1, <1>2, RowsUnchanged, CommandKeepsMigration
<1>4. sweep.step = "none" /\ eval.step = "none" /\ ~shown'.done /\ reparse.step = "none"
    BY <1>1, <1>2 DEF ExecutingInv, Refused, Open
<1>5. ExecutingInv'
    BY <1>1, <1>2, <1>4, NothingExecutes
<1>6. BenchesInv'
    BY <1>1, <1>2, <1>4, LeavingKeepsBenches
<1> QED
    BY <1>3, <1>5, <1>6 DEF CommandsInv

LEMMA KillKeepsCommands == CommandsInv /\ Kill => CommandsInv'
<1> SUFFICES ASSUME CommandsInv, Kill PROVE CommandsInv'
    OBVIOUS
<1>1. /\ Over /\ opening' = Shut /\ sweep' = NoSweep /\ eval' = NoEval
      /\ shown' = NothingShown /\ reparse' = NoReparse
      /\ UNCHANGED <<runs, todo, schema, applied, artifacts, benches>>
    BY DEF Kill, database
<1>2. MigrationInv /\ TableInv /\ ExecutingInv /\ BenchesInv
    BY DEF CommandsInv, MigrationInv
<1>3. MigrationInv'
    BY <1>1, <1>2, RowsUnchanged, CommandKeepsMigration
<1>4. ~shown'.done /\ sweep'.step = "none" /\ eval'.step = "none"
    BY <1>1 DEF NothingShown, NoSweep, NoEval
<1>5. ExecutingInv'
    BY <1>1, <1>2, <1>4, NothingExecutes
<1>6. BenchesInv'
    BY <1>1, <1>2, <1>4, LeavingKeepsBenches
<1> QED
    BY <1>3, <1>5, <1>6 DEF CommandsInv

LEMMA InitGivesCommandsInv == Init => CommandsInv
<1> SUFFICES ASSUME Init PROVE CommandsInv
    OBVIOUS
<1>1. /\ runs = Legacy /\ schema = Found /\ applied = {} /\ artifacts = {} /\ opening = Shut
      /\ todo \in Scripts /\ command = NoCommand /\ sweep = NoSweep /\ benches = {}
      /\ eval = NoEval /\ shown = NothingShown /\ reparse = NoReparse
    BY DEF Init, MigrationInit
<1>2. TableInv
    <2>1. Len(Legacy) \in Nat
        BY LegacyAssumption
    <2> QED
        BY <1>1, <2>1, LegacyAssumption DEF TableInv, RowFields
<1>3. LegacyInv
    BY <1>1 DEF LegacyInv
<1>4. ArtifactsInv
    BY <1>1 DEF ArtifactsInv
<1>5. OpeningInv
    BY <1>1 DEF OpeningInv, Shut, HasPaths
<1>6. ExecutingInv
    BY <1>1 DEF ExecutingInv, NoSweep, NoEval, NoReparse, NothingShown, Refused, NoCommand
<1>7. BenchesInv
    BY <1>1, CommandsAssumption DEF BenchesInv, NoSweep
<1> QED
    BY <1>2, <1>3, <1>4, <1>5, <1>6, <1>7 DEF CommandsInv, MigrationInv

LEMMA NextKeepsCommandsInv == CommandsInv /\ [Next]_vars => CommandsInv'
<1> SUFFICES ASSUME CommandsInv, [Next]_vars PROVE CommandsInv'
    OBVIOUS
<1>1. CASE UNCHANGED vars
    <2>1. UNCHANGED <<runs, todo, command, schema, applied, artifacts, opening, sweep, benches,
                      eval, shown, reparse>>
        BY <1>1 DEF vars, table, given, migration, database, benching, evaluating, reporting
    <2>2. MigrationInv /\ TableInv
        BY DEF CommandsInv, MigrationInv
    <2>3. MigrationInv'
        BY <2>1, <2>2, RowsUnchanged, CommandKeepsMigration
    <2>4. ExecutingInv'
        BY <2>1 DEF CommandsInv, ExecutingInv, Refused, Open
    <2>5. Current' = Current /\ SweepId' = SweepId
        BY <2>1 DEF Current, SweepId
    <2>6. ThisBench' = ThisBench
        BY <2>5 DEF ThisBench
    <2>7. BenchesInv'
        BY <2>1, <2>5, <2>6 DEF CommandsInv, BenchesInv
    <2> QED
        BY <2>3, <2>4, <2>7 DEF CommandsInv
<1>2. CASE Next
    BY <1>2, GiveKeepsCommands, RefuseKeepsCommands, KillKeepsCommands, MigrateKeepsCommands,
       BenchKeepsCommands, EvaluateKeepsCommands, ReportKeepsCommands DEF Next
<1> QED
    BY <1>1, <1>2

LEMMA CommandsInvHolds == Spec => []CommandsInv
    BY InitGivesCommandsInv, NextKeepsCommandsInv, PTL DEF Spec

-----------------------------------------------------------------------------
\* Whatever openings were killed, from whichever directories they were made and
\* whatever the commands have done since, a database that a command may use has been
\* migrated exactly once (storage/migrations.py _migrate_legacy_runs).
THEOREM OpenDatabasesAreMigrated == Spec => []MigrationConverges
<1>1. CommandsInv => MigrationConverges
    <2> SUFFICES ASSUME CommandsInv, Open PROVE MigrationConverges
        BY DEF MigrationConverges
    <2>1. TableInv /\ LegacyInv /\ ArtifactsInv /\ OpeningInv /\ 2 \in applied
        BY DEF CommandsInv, MigrationInv, OpeningInv, Open
    <2>2. Columns \subseteq schema
        BY <2>1 DEF OpeningInv, Open
    <2>3. ASSUME NEW i \in DOMAIN Legacy,
                 NEW role, NEW path, NEW kind, kind = Kind(Legacy[i]),
                 \/ role = StdoutRole(kind) /\ path = Legacy[i].stdout
                 \/ role = StderrRole(kind) /\ path = Legacy[i].stderr,
                 path # NoPath, HasPaths
          PROVE  \E a \in artifacts :
                     /\ a.run = i /\ a.role = role /\ a.place[2] = path.name
                     /\ ~path.absolute /\ a.place \notin Files =>
                            {<<Legacy[i].cwd, path.name>>, <<"database", path.name>>}
                                \cap Files = {}
        <3>1. PICK a \in artifacts : a.run = i /\ a.role = role
            BY <2>1, <2>3 DEF LegacyInv, HasStdout, HasStderr, HasArtifact
        <3>2. ArtifactOf(a, i)
            BY <2>1, <3>1 DEF ArtifactsInv
        <3>3. Placed(a.place, path, Legacy[i].cwd)
            BY <2>3, <3>1, <3>2, RolesDiffer DEF ArtifactOf
        <3> QED
            BY <3>1, <3>3 DEF Placed
    <2>4. ASSUME NEW i \in DOMAIN Legacy
          PROVE  /\ runs[i].kind = Kind(Legacy[i]) /\ runs[i].spec = Fingerprint(Legacy[i])
                 /\ runs[i].config = MigrateConfig(Legacy[i].config)
                 /\ runs[i].name.label = Legacy[i].name.label
                 /\ runs[i].name.suffixes = <<Fingerprint(Legacy[i])>>
        <3>1. IsMigrated(runs[i], Legacy[i])
            BY <2>1 DEF LegacyInv
        <3>2. {"label", "suffixes"} \subseteq DOMAIN Legacy[i].name
              /\ Legacy[i].name.suffixes = <<>>
            BY LegacyAssumption
        <3>3. /\ NormalizedName(Legacy[i]).label = Legacy[i].name.label
              /\ NormalizedName(Legacy[i]).suffixes = <<Fingerprint(Legacy[i])>>
            BY <3>2 DEF NormalizedName
        <3> QED
            BY <3>1, <3>3 DEF IsMigrated
    <2>5. \A a, b \in artifacts : a.run = b.run /\ a.role = b.role => a = b
        BY <2>1 DEF ArtifactsInv
    <2> DEFINE Found_(i, role, path) ==
            path # NoPath /\ HasPaths =>
                \E a \in artifacts :
                    /\ a.run = i /\ a.role = role /\ a.place[2] = path.name
                    /\ ~path.absolute /\ a.place \notin Files =>
                           {<<Legacy[i].cwd, path.name>>, <<"database", path.name>>}
                               \cap Files = {}
    <2>6. ASSUME NEW i \in DOMAIN Legacy
          PROVE  /\ Found_(i, StdoutRole(Kind(Legacy[i])), Legacy[i].stdout)
                 /\ Found_(i, StderrRole(Kind(Legacy[i])), Legacy[i].stderr)
        BY <2>3
    <2> QED
        BY <2>2, <2>4, <2>5, <2>6, Zenon DEF MigrationConverges
<1> QED
    BY <1>1, CommandsInvHolds, PTL

\* Whatever is interrupted or killed, no bench process of a sweep runs beside another
\* of it or outlives a trial recorded as measured, and none of this sweep is left
\* between two trials (benchmarks/llama_bench/runner.py, process.py).
THEOREM BenchesEndWithTheirTrial == Spec => []NoBenchLeftBehind
<1>1. CommandsInv => NoBenchLeftBehind
    <2> SUFFICES ASSUME CommandsInv PROVE NoBenchLeftBehind
        OBVIOUS
    <2>1. BenchesInv /\ SweepId \in Nat
        BY SweepIdIsNat DEF CommandsInv
    <2> QED
        BY <2>1 DEF BenchesInv, NoBenchLeftBehind
<1> QED
    BY <1>1, CommandsInvHolds, PTL

-----------------------------------------------------------------------------
(* The inductive invariant: the records of evaluations                       *)

IsSequence(s) == s \in Seq({s[i] : i \in DOMAIN s})

\* A result is ok or has the reason why it is not.
Reasons == {"empty", "raised"}
IsResult(r) ==
    /\ r.ok \in BOOLEAN
    /\ IF r.ok THEN r.error = "none" ELSE r.error \in Reasons
IsResults(rs) == IsSequence(rs) /\ \A i \in DOMAIN rs : IsResult(rs[i])

Wrong(rs) == Chosen(rs, {j \in DOMAIN rs : ~rs[j].ok})
ErrorsOf(rs) == [j \in DOMAIN Wrong(rs) |-> Wrong(rs)[j].error]

\* The samples of a run i that has recorded m results
SamplesOf(i, rs, m) == {[run |-> i, number |-> k, result |-> rs[k]] : k \in 1..m}
Mine(i) == {s \in samples : s.run = i}

\* Metrics are of every request, or those a reparse makes when nothing was asked.
HasMetrics(row, file) ==
    (file.measured \/ ~HasMeasurement(file)) /\ row.metrics = Counted(file.responses)

\* What holds of the row, files and samples of an evaluation whenever it was cut off
IsEval(row) == row.kind = "agent_eval" /\ row.spec.scheme = 1
Accounted(i, row, file, mine) ==
    /\ "metrics" \in DOMAIN row
    /\ IsResults(file.responses) /\ file.errors \in Seq(Reasons)
    /\ \E m \in {Len(file.responses) - 1, Len(file.responses)} :
           m >= 0 /\ mine = SamplesOf(i, file.responses, m)
    /\ \/ ErrorsOf(file.responses) = file.errors
       \/ \E e \in Reasons : ErrorsOf(file.responses) = Append(file.errors, e)
    /\ file.measured => Len(file.responses) = Len(row.config.requests)
    /\ ~HasMeasurement(file) => file.responses = <<>>
    /\ row.metrics # NoMetrics => HasMetrics(row, file)
    /\ row.status = "ok" =>
           /\ file.measured /\ ~file.torn /\ file.errors = <<>>
           /\ \A j \in DOMAIN file.responses : file.responses[j].ok

\* How far the evaluation of a target is: which of its records have the last result
Progress(ev, i, requests, row, file, mine) ==
    /\ "metrics" \in DOMAIN row /\ row.status = "running" /\ row.metrics = NoMetrics
    /\ row.config.requests = requests /\ Len(requests) \in Nat
    /\ ~file.torn /\ (file.measured <=> ev.step = "complete")
    /\ IsResults(ev.results) /\ IsResults(file.responses) /\ file.errors \in Seq(Reasons)
    /\ ev.request \in 1..Len(requests)
    /\ IF ev.step = "claim" THEN file.claimed \in 0..2 /\ ev.request = 1 ELSE file.claimed = 3
    /\ Len(ev.results) = IF ev.step \in {"claim", "ask"} THEN ev.request - 1 ELSE ev.request
    /\ ev.step \in {"measure", "complete"} => ev.request = Len(requests)
    /\ IF ev.step = "response" THEN ev.results = Append(file.responses, Last(ev.results))
       ELSE ev.results = file.responses
    /\ IF ev.step = "error"
       THEN /\ Last(ev.results).error \in Reasons
            /\ ErrorsOf(file.responses) = Append(file.errors, Last(ev.results).error)
       ELSE ErrorsOf(file.responses) = file.errors
    /\ mine = SamplesOf(i, ev.results, IF ev.step \in {"response", "error", "sample"}
                                       THEN ev.request - 1 ELSE Len(ev.results))

EvalFields == {"step", "target", "request", "attempt", "results", "failures"}
FileFields == {"printed", "claimed", "responses", "torn", "errors", "measured"}
FilesInv ==
    /\ IsSequence(files) /\ Len(files) = Len(runs)
    /\ \A i \in DOMAIN runs : DOMAIN files[i] = FileFields /\ runs[i].id = i
    /\ \A s \in samples : s.run \in DOMAIN runs

\* The row of the trial or target that is being measured is the current one, and
\* `reparse` has only rows of the table before it.
SweepsRow ==
    sweep.step = "starting" \/ sweep.step \in Waiting =>
        Current \in DOMAIN runs /\ runs[Current].kind = "llama_bench"
EvaluatesRow ==
    /\ DOMAIN eval = EvalFields
    /\ eval.step \in {"none", "target", "ok", "raised"} \cup Evaluating
    /\ eval.step \in Evaluating =>
           /\ Current \in DOMAIN runs
           /\ Progress(eval, Current, Requests, runs[Current], files[Current], Mine(Current))
ReparsesRows ==
    /\ DOMAIN reparse = {"step", "left", "errors"}
    /\ reparse.left # {} => Open /\ reparse.step = "rows"
    /\ \A row \in reparse.left : row.id \in DOMAIN runs /\ runs[row.id].kind = row.kind
CurrentInv ==
    /\ command = NoCommand \/ command \in AllCommands
    /\ SweepsRow /\ EvaluatesRow /\ ReparsesRows

EvalsInv == \A i \in DOMAIN runs : IsEval(runs[i]) => Accounted(i, runs[i], files[i], Mine(i))

RecordsInv == FilesInv /\ CurrentInv /\ EvalsInv

-----------------------------------------------------------------------------
(* Sequences                                                                 *)

LEMMA AppendIsSequence ==
    ASSUME NEW s, IsSequence(s), NEW e
    PROVE  /\ Len(s) \in Nat /\ DOMAIN s = 1..Len(s)
           /\ IsSequence(Append(s, e)) /\ Len(Append(s, e)) = Len(s) + 1
           /\ DOMAIN Append(s, e) = 1..(Len(s) + 1)
           /\ \A i \in 1..Len(s) : Append(s, e)[i] = s[i]
           /\ Append(s, e)[Len(s) + 1] = e
<1> DEFINE S == {s[i] : i \in DOMAIN s}
           t == Append(s, e)
<1>1. s \in Seq(S)
    BY DEF IsSequence
<1> HIDE DEF S
<1>2. t \in Seq(S \cup {e})
    BY <1>1
<1>3. t \in Seq({t[i] : i \in DOMAIN t})
    BY <1>2, SequenceOfItsElements
<1> QED
    BY <1>1, <1>3 DEF IsSequence

\* The last element of what was appended to
LEMMA LastOfAppend ==
    ASSUME NEW s, IsSequence(s), NEW e
    PROVE  Last(Append(s, e)) = e
    BY AppendIsSequence DEF Last

\* A function that is built along 0..n: IsUpto(f, n, seq, places) says f[m] is what is
\* chosen of the first m elements.
IsUpto(f, n, seq, places) ==
    f = [m \in 0..n |-> IF m = 0 THEN <<>>
                        ELSE IF m \in places THEN Append(f[m - 1], seq[m]) ELSE f[m - 1]]

LEMMA UptoValues ==
    ASSUME NEW f, NEW n \in Nat, NEW seq, NEW places, IsUpto(f, n, seq, places)
    PROVE  /\ f[0] = <<>>
           /\ \A m \in 1..n : f[m] = IF m \in places THEN Append(f[m - 1], seq[m])
                                     ELSE f[m - 1]
<1>1. \A m \in 0..n : f[m] = IF m = 0 THEN <<>>
                             ELSE IF m \in places THEN Append(f[m - 1], seq[m]) ELSE f[m - 1]
    BY DEF IsUpto
<1> QED
    BY <1>1

LEMMA UptoExists ==
    ASSUME NEW seq, NEW places, NEW n \in Nat
    PROVE  \E f : IsUpto(f, n, seq, places)
<1> DEFINE Bad == {k \in Nat : ~ \E f : IsUpto(f, k, seq, places)}
<1>1. SUFFICES ASSUME Bad # {} PROVE FALSE
    OBVIOUS
<1>2. PICK k \in Bad : \A j \in Bad : k <= j
    <2> HIDE DEF Bad
    <2>1. Bad \subseteq Nat
        BY DEF Bad
    <2> QED
        BY <1>1, <2>1, LeastExists
<1>3. k \in Nat /\ ~ \E f : IsUpto(f, k, seq, places)
    OBVIOUS
<1>4. CASE k = 0
    <2> DEFINE f == [m \in 0..0 |-> <<>>]
    <2>1. IsUpto(f, 0, seq, places)
        BY DEF IsUpto
    <2> QED
        BY <1>3, <1>4, <2>1
<1>5. CASE k # 0
    <2>1. k - 1 \in Nat /\ ~(k <= k - 1)
        BY <1>3, <1>5
    <2>2. k - 1 \notin Bad
        BY <1>2, <2>1
    <2>3. PICK f : IsUpto(f, k - 1, seq, places)
        BY <2>1, <2>2
    <2> DEFINE step(h, m) == IF m \in places THEN Append(h[m - 1], seq[m]) ELSE h[m - 1]
               g == [m \in 0..k |-> IF m = k THEN step(f, k) ELSE f[m]]
    <2>4. f[0] = <<>> /\ \A m \in 1..(k - 1) : f[m] = step(f, m)
        BY <2>1, <2>3, UptoValues
    <2>5. \A m \in 0..(k - 1) : g[m] = f[m]
        BY <1>3
    <2>6. g[k] = step(f, k)
        BY <1>3
    <2> HIDE DEF g
    <2>7. \A m \in 1..k : step(g, m) = step(f, m)
        BY <1>3, <2>5
    <2> HIDE DEF step
    <2>8. \A m \in 0..k : g[m] = IF m = 0 THEN <<>> ELSE step(g, m)
        <3> SUFFICES ASSUME NEW m \in 0..k PROVE g[m] = IF m = 0 THEN <<>> ELSE step(g, m)
            OBVIOUS
        <3>1. CASE m = 0
            BY <1>3, <1>5, <2>4, <2>5, <3>1
        <3>2. CASE m \in 1..(k - 1)
            BY <1>3, <2>4, <2>5, <2>7, <3>2
        <3>3. CASE m = k
            BY <1>3, <1>5, <2>6, <2>7, <3>3
        <3> QED
            BY <1>3, <3>1, <3>2, <3>3
    <2>9. g = [m \in 0..k |-> g[m]]
        BY DEF g
    <2>10. g = [m \in 0..k |-> IF m = 0 THEN <<>> ELSE step(g, m)]
        BY <2>8, <2>9
    <2>11. IsUpto(g, k, seq, places)
        BY <2>10 DEF IsUpto, step
    <2> QED
        BY <1>3, <2>11
<1> QED
    BY <1>4, <1>5

\* What is chosen of a prefix depends on it alone.
LEMMA UptoAgrees ==
    ASSUME NEW n \in Nat, NEW k \in Nat, n <= k, NEW s, NEW t, NEW P, NEW Q, NEW f, NEW g,
           IsUpto(f, n, s, P), IsUpto(g, k, t, Q),
           \A m \in 1..n : s[m] = t[m] /\ (m \in P <=> m \in Q)
    PROVE  \A m \in 0..n : f[m] = g[m]
<1> DEFINE Bad == {m \in 0..n : f[m] # g[m]}
<1>1. SUFFICES ASSUME Bad # {} PROVE FALSE
    OBVIOUS
<1>2. PICK m \in Bad : \A j \in Bad : m <= j
    <2>1. Bad \subseteq Nat
        OBVIOUS
    <2> HIDE DEF Bad
    <2> QED
        BY <1>1, <2>1, LeastExists
<1>3. f[0] = <<>> /\ g[0] = <<>>
    BY UptoValues
<1>4. m \in 1..n /\ m \in 1..k /\ m - 1 \in 0..n /\ ~(m <= m - 1)
    BY <1>2, <1>3
<1>5. f[m - 1] = g[m - 1]
    BY <1>2, <1>4
<1>6. /\ f[m] = IF m \in P THEN Append(f[m - 1], s[m]) ELSE f[m - 1]
      /\ g[m] = IF m \in Q THEN Append(g[m - 1], t[m]) ELSE g[m - 1]
    BY <1>4, UptoValues
<1>7. f[m] = g[m]
    BY <1>4, <1>5, <1>6
<1> QED
    BY <1>2, <1>7

LEMMA ChosenValue ==
    ASSUME NEW seq, NEW places, Len(seq) \in Nat
    PROVE  \E f : IsUpto(f, Len(seq), seq, places) /\ Chosen(seq, places) = f[Len(seq)]
<1> DEFINE f == CHOOSE f : IsUpto(f, Len(seq), seq, places)
<1>1. IsUpto(f, Len(seq), seq, places)
    BY UptoExists
<1>2. Chosen(seq, places) = f[Len(seq)]
    BY DEF Chosen, IsUpto
<1> QED
    BY <1>1, <1>2

LEMMA NothingChosen == \A places : Chosen(<<>>, places) = <<>>
<1> SUFFICES ASSUME NEW places PROVE Chosen(<<>>, places) = <<>>
    OBVIOUS
<1>1. Len(<<>>) = 0
    OBVIOUS
<1>2. PICK f : IsUpto(f, 0, <<>>, places) /\ Chosen(<<>>, places) = f[0]
    BY <1>1, ChosenValue
<1> QED
    BY <1>2, UptoValues

\* One more element is chosen or not.
LEMMA ChosenOfMore ==
    ASSUME NEW n \in Nat, NEW s, NEW t, NEW P, NEW Q, Len(s) = n, Len(t) = n + 1,
           \A m \in 1..n : s[m] = t[m] /\ (m \in P <=> m \in Q)
    PROVE  Chosen(t, Q) = IF n + 1 \in Q THEN Append(Chosen(s, P), t[n + 1])
                          ELSE Chosen(s, P)
<1>1. PICK f : IsUpto(f, n, s, P) /\ Chosen(s, P) = f[n]
    BY ChosenValue
<1>2. PICK g : IsUpto(g, n + 1, t, Q) /\ Chosen(t, Q) = g[n + 1]
    BY ChosenValue
<1>3. f[n] = g[n]
    BY <1>1, <1>2, UptoAgrees
<1>4. g[n + 1] = IF n + 1 \in Q THEN Append(g[n], t[n + 1]) ELSE g[n]
    BY <1>2, UptoValues
<1> QED
    BY <1>1, <1>2, <1>3, <1>4

LEMMA ChosenIsSequence ==
    ASSUME NEW S, NEW s \in Seq(S), NEW P
    PROVE  Chosen(s, P) \in Seq(S) /\ Len(Chosen(s, P)) <= Len(s)
<1> DEFINE n == Len(s)
<1>1. n \in Nat /\ \A m \in 1..n : s[m] \in S
    OBVIOUS
<1>2. PICK f : IsUpto(f, n, s, P) /\ Chosen(s, P) = f[n]
    BY <1>1, ChosenValue
<1> HIDE DEF n
<1> DEFINE Bad == {m \in 0..n : ~(f[m] \in Seq(S) /\ Len(f[m]) <= m)}
<1>3. Bad = {}
    <2>1. SUFFICES ASSUME Bad # {} PROVE FALSE
        OBVIOUS
    <2>2. PICK m \in Bad : \A j \in Bad : m <= j
        <3>1. Bad \subseteq Nat
            BY <1>1
        <3> HIDE DEF Bad
        <3> QED
            BY <2>1, <3>1, LeastExists
    <2>3. f[0] \in Seq(S) /\ Len(f[0]) <= 0
        <3>1. f[0] = <<>>
            BY <1>1, <1>2, UptoValues
        <3>2. <<>> \in Seq(S) /\ Len(<<>>) = 0
            OBVIOUS
        <3> QED
            BY <3>1, <3>2
    <2>4. m \in 1..n /\ m - 1 \in 0..n /\ ~(m <= m - 1)
        <3>1. m \in 0..n /\ ~(f[m] \in Seq(S) /\ Len(f[m]) <= m)
            BY <2>2
        <3>2. m # 0
            BY <2>3, <3>1
        <3> QED
            BY <1>1, <3>1, <3>2
    <2>5. f[m - 1] \in Seq(S) /\ Len(f[m - 1]) <= m - 1
        BY <2>2, <2>4
    <2>6. f[m] = IF m \in P THEN Append(f[m - 1], s[m]) ELSE f[m - 1]
        BY <1>1, <1>2, <2>4, UptoValues
    <2>7. f[m] \in Seq(S) /\ Len(f[m]) <= m
        <3> DEFINE before == f[m - 1]
        <3>1. before \in Seq(S) /\ Len(before) <= m - 1 /\ s[m] \in S /\ m \in Nat
            BY <1>1, <2>4, <2>5
        <3> HIDE DEF before
        <3>2. Append(before, s[m]) \in Seq(S) /\ Len(Append(before, s[m])) = Len(before) + 1
            BY <3>1
        <3>3. Len(before) \in Nat
            BY <3>1
        <3> QED
            BY <2>6, <3>1, <3>2, <3>3 DEF before
    <2> QED
        BY <2>2, <2>7
<1> QED
    BY <1>1, <1>2, <1>3 DEF n

LEMMA NothingIsChosen ==
    ASSUME NEW s, NEW P, Len(s) \in Nat, \A m \in 1..Len(s) : m \notin P
    PROVE  Chosen(s, P) = <<>>
<1> DEFINE n == Len(s)
<1>1. PICK f : IsUpto(f, n, s, P) /\ Chosen(s, P) = f[n]
    BY ChosenValue
<1>2. n \in Nat /\ f[0] = <<>> /\ \A m \in 1..n : f[m] = f[m - 1]
    BY <1>1, UptoValues
<1> HIDE DEF n
<1> DEFINE Bad == {m \in 0..n : f[m] # <<>>}
<1>3. Bad = {}
    <2>1. SUFFICES ASSUME Bad # {} PROVE FALSE
        OBVIOUS
    <2>2. PICK m \in Bad : \A j \in Bad : m <= j
        <3>1. Bad \subseteq Nat
            OBVIOUS
        <3> HIDE DEF Bad
        <3> QED
            BY <2>1, <3>1, LeastExists
    <2>3. m \in 1..n /\ m - 1 \in 0..n /\ ~(m <= m - 1)
        BY <1>2, <2>2
    <2> QED
        BY <1>2, <2>2, <2>3
<1> QED
    BY <1>1, <1>3 DEF n

-----------------------------------------------------------------------------
(* What the records of an evaluation say of its responses                    *)

LEMMA NoErrors == ErrorsOf(<<>>) = <<>>
<1>1. Wrong(<<>>) = <<>>
    BY NothingChosen DEF Wrong
<1>2. DOMAIN <<>> = {}
    OBVIOUS
<1> QED
    BY <1>1, <1>2 DEF ErrorsOf

\* Results that are all ok have no errors.
LEMMA NoErrorsOfGood ==
    ASSUME NEW rs, IsResults(rs), \A j \in DOMAIN rs : rs[j].ok
    PROVE  ErrorsOf(rs) = <<>>
<1>1. Len(rs) \in Nat
    BY DEF IsResults, IsSequence
<1>2. Wrong(rs) = <<>>
    <2> DEFINE P == {j \in DOMAIN rs : ~rs[j].ok}
    <2>1. \A m \in 1..Len(rs) : m \notin P
        OBVIOUS
    <2> HIDE DEF P
    <2>2. Chosen(rs, P) = <<>>
        BY <1>1, <2>1, NothingIsChosen
    <2> QED
        BY <2>2 DEF Wrong, P
<1> QED
    BY <1>2, NoErrors DEF ErrorsOf

LEMMA MoreResults ==
    ASSUME NEW rs, IsResults(rs), NEW r, IsResult(r)
    PROVE  IsResults(Append(rs, r))
    BY AppendIsSequence DEF IsResults

\* A response that is wrong adds its error to the errors.
LEMMA MoreErrors ==
    ASSUME NEW rs, IsResults(rs), NEW r, IsResult(r)
    PROVE  ErrorsOf(Append(rs, r)) = IF r.ok THEN ErrorsOf(rs)
                                     ELSE Append(ErrorsOf(rs), r.error)
<1> DEFINE n == Len(rs)
           t == Append(rs, r)
           P == {j \in DOMAIN rs : ~rs[j].ok}
           Q == {j \in DOMAIN t : ~t[j].ok}
           S == {rs[j] : j \in DOMAIN rs}
<1>1. /\ n \in Nat /\ DOMAIN rs = 1..n /\ Len(t) = n + 1 /\ DOMAIN t = 1..(n + 1)
      /\ \A i \in 1..n : t[i] = rs[i]
      /\ t[n + 1] = r
    BY AppendIsSequence DEF IsResults
<1> HIDE DEF n, t
<1>2. \A m \in 1..n : rs[m] = t[m] /\ (m \in P <=> m \in Q)
    BY <1>1
<1>3. n + 1 \in Q <=> ~r.ok
    BY <1>1
<1> HIDE DEF P, Q
<1>4. Chosen(t, Q) = IF n + 1 \in Q THEN Append(Chosen(rs, P), t[n + 1]) ELSE Chosen(rs, P)
    BY <1>1, <1>2, ChosenOfMore DEF n
<1>5. Wrong(rs) = Chosen(rs, P) /\ Wrong(t) = Chosen(t, Q)
    BY DEF Wrong, P, Q
<1>6. Wrong(rs) \in Seq(S)
    <2>1. rs \in Seq(S)
        BY DEF IsResults, IsSequence
    <2> HIDE DEF S
    <2> QED
        BY <1>5, <2>1, ChosenIsSequence
<1> HIDE DEF S
<1>7. CASE r.ok
    BY <1>1, <1>3, <1>4, <1>5, <1>7 DEF ErrorsOf, t
<1>8. CASE ~r.ok
    <2>1. Wrong(t) = Append(Wrong(rs), r)
        BY <1>1, <1>3, <1>4, <1>5, <1>8
    <2> DEFINE w == Wrong(rs)
               before == [j \in DOMAIN w |-> w[j].error]
               after == [j \in DOMAIN Append(w, r) |-> Append(w, r)[j].error]
               k == Len(w)
    <2>2. /\ k \in Nat /\ DOMAIN w = 1..k /\ DOMAIN Append(w, r) = 1..(k + 1)
          /\ \A j \in 1..k : Append(w, r)[j] = w[j]
          /\ Append(w, r)[k + 1] = r
        BY <1>6
    <2> HIDE DEF w, k
    <2>3. before = [j \in 1..k |-> before[j]]
        BY <2>2
    <2>4. IsSequence(before) /\ Len(before) = k
        <3> HIDE DEF before
        <3> QED
            BY <2>2, <2>3, FunctionIsSequence DEF IsSequence
    <2>5. /\ DOMAIN Append(before, r.error) = 1..(k + 1)
          /\ \A j \in 1..k : Append(before, r.error)[j] = before[j]
          /\ Append(before, r.error)[k + 1] = r.error
          /\ IsSequence(Append(before, r.error))
          /\ Len(Append(before, r.error)) = k + 1
        <3> HIDE DEF before
        <3> QED
            BY <2>4, AppendIsSequence
    <2>6. Append(before, r.error) = [j \in 1..(k + 1) |-> Append(before, r.error)[j]]
        <3> HIDE DEF before
        <3> DEFINE u == Append(before, r.error)
        <3>1. IsSequence(u) /\ Len(u) = k + 1
            BY <2>5
        <3> HIDE DEF u
        <3>2. u = [j \in 1..Len(u) |-> u[j]]
            BY <3>1 DEF IsSequence
        <3> QED
            BY <3>1, <3>2 DEF u
    <2>7. \A j \in 1..(k + 1) : after[j] = Append(before, r.error)[j]
        <3> SUFFICES ASSUME NEW j \in 1..(k + 1) PROVE after[j] = Append(before, r.error)[j]
            OBVIOUS
        <3>1. CASE j \in 1..k
            <4>1. after[j] = w[j].error /\ before[j] = w[j].error
                BY <2>2, <3>1
            <4> QED
                BY <2>5, <3>1, <4>1
        <3>2. CASE j = k + 1
            BY <2>2, <2>5, <3>2
        <3> QED
            BY <2>2, <3>1, <3>2
    <2>8. after = [j \in 1..(k + 1) |-> after[j]]
        BY <2>2
    <2>9. after = Append(before, r.error)
        <3> HIDE DEF after, before
        <3> QED
            BY <2>6, <2>7, <2>8
    <2>10. ErrorsOf(rs) = before /\ ErrorsOf(t) = after
        BY <2>1 DEF ErrorsOf, w
    <2> QED
        BY <1>8, <2>9, <2>10 DEF t
<1> QED
    BY <1>7, <1>8

LEMMA NoSamples == \A i, rs : SamplesOf(i, rs, 0) = {}
    BY DEF SamplesOf

LEMMA OneMoreSample ==
    ASSUME NEW i, NEW rs, NEW m \in Nat
    PROVE  SamplesOf(i, rs, m + 1)
               = SamplesOf(i, rs, m) \cup {[run |-> i, number |-> m + 1, result |-> rs[m + 1]]}
<1>1. 1..(m + 1) = 1..m \cup {m + 1}
    OBVIOUS
<1> QED
    BY <1>1 DEF SamplesOf

LEMMA SamplesOfPrefix ==
    ASSUME NEW i, NEW rs, NEW t, NEW m \in Nat, \A k \in 1..m : t[k] = rs[k]
    PROVE  SamplesOf(i, t, m) = SamplesOf(i, rs, m)
    BY DEF SamplesOf

LEMMA NumberOfSamples ==
    ASSUME NEW i, NEW rs, NEW m \in Nat
    PROVE  Cardinality(SamplesOf(i, rs, m)) = m
<1> DEFINE S == SamplesOf(i, rs, m)
           f == [k \in 1..m |-> [run |-> i, number |-> k, result |-> rs[k]]]
<1>1. f \in Bijection(1..m, S)
    <2>1. f \in [1..m -> S]
        BY DEF SamplesOf
    <2>2. \A k, j \in 1..m : f[k] = f[j] => k = j
        <3>1. \A k \in 1..m : f[k].number = k
            OBVIOUS
        <3> HIDE DEF f
        <3> QED
            BY <3>1
    <2>3. \A s \in S : \E k \in 1..m : f[k] = s
        BY DEF SamplesOf
    <2> HIDE DEF f, S
    <2> QED
        BY <2>1, <2>2, <2>3 DEF Bijection, Injection, Surjection, IsInjective
<1>2. IsFiniteSet(1..m) /\ Cardinality(1..m) = m
    BY FS_Interval
<1>3. Cardinality(S) = Cardinality(1..m)
    BY <1>1, <1>2, FS_Bijection DEF ExistsBijection
<1> QED
    BY <1>2, <1>3

\* The error count that makes an evaluation ok is that of the results.
LEMMA ErrorCount ==
    ASSUME NEW rs, IsResults(rs), Counted(rs)[<<"error_count">>] = 0
    PROVE  \A j \in DOMAIN rs : rs[j].ok
<1> DEFINE wrong == {j \in DOMAIN rs : ~rs[j].ok}
<1>1. Counted(rs)[<<"error_count">>] = Cardinality(wrong)
    BY DEF Counted
<1>2. IsFiniteSet(wrong)
    <2>1. Len(rs) \in Nat /\ DOMAIN rs = 1..Len(rs)
        BY DEF IsResults, IsSequence
    <2>2. IsFiniteSet(1..Len(rs)) /\ wrong \in SUBSET (1..Len(rs))
        BY <2>1, FS_Interval
    <2> QED
        BY <2>2, FS_Subset
<1>3. wrong = {}
    BY <1>1, <1>2, FS_EmptySet
<1> QED
    BY <1>3

-----------------------------------------------------------------------------
(* The requests of an evaluation                                             *)

\* What FlattenSeq builds along its sequences
IsFlat(f, n, seqs) ==
    f = [i \in 1..n |-> IF i = 1 THEN seqs[i] ELSE f[i - 1] \o seqs[i]]

LEMMA FlatExists ==
    ASSUME NEW seqs, NEW n \in Nat
    PROVE  \E f : IsFlat(f, n, seqs)
<1> DEFINE Bad == {k \in Nat : ~ \E f : IsFlat(f, k, seqs)}
<1>1. SUFFICES ASSUME Bad # {} PROVE FALSE
    OBVIOUS
<1>2. PICK k \in Bad : \A j \in Bad : k <= j
    <2>1. Bad \subseteq Nat
        OBVIOUS
    <2> HIDE DEF Bad
    <2> QED
        BY <1>1, <2>1, LeastExists
<1>3. k \in Nat /\ ~ \E f : IsFlat(f, k, seqs)
    OBVIOUS
<1>4. CASE k = 0
    <2> DEFINE f == [i \in 1..0 |-> <<>>]
    <2>1. IsFlat(f, 0, seqs)
        BY DEF IsFlat
    <2> QED
        BY <1>3, <1>4, <2>1
<1>5. CASE k # 0
    <2>1. k - 1 \in Nat /\ ~(k <= k - 1)
        BY <1>3, <1>5
    <2>2. k - 1 \notin Bad
        BY <1>2, <2>1
    <2>3. PICK f : IsFlat(f, k - 1, seqs)
        BY <2>1, <2>2
    <2> DEFINE step(h, i) == IF i = 1 THEN seqs[i] ELSE h[i - 1] \o seqs[i]
               g == [i \in 1..k |-> IF i = k THEN step(f, k) ELSE f[i]]
    <2>4. \A i \in 1..(k - 1) : f[i] = step(f, i)
        BY <2>3 DEF IsFlat
    <2>5. \A i \in 1..(k - 1) : g[i] = f[i]
        BY <1>3
    <2>6. g[k] = step(f, k)
        BY <1>3, <1>5
    <2>7. g = [i \in 1..k |-> g[i]]
        OBVIOUS
    <2> HIDE DEF g
    <2>8. \A i \in 1..k : step(g, i) = step(f, i)
        <3>1. \A i \in 1..k : i = 1 \/ i - 1 \in 1..(k - 1)
            BY <1>3
        <3> QED
            BY <2>5, <3>1
    <2> HIDE DEF step
    <2>9. \A i \in 1..k : g[i] = step(g, i)
        <3>1. \A i \in 1..k : i = k \/ i \in 1..(k - 1)
            BY <1>3
        <3> QED
            BY <2>4, <2>5, <2>6, <2>8, <3>1
    <2>10. g = [i \in 1..k |-> step(g, i)]
        BY <2>7, <2>9
    <2>11. IsFlat(g, k, seqs)
        BY <2>10 DEF IsFlat, step
    <2> QED
        BY <1>3, <2>11
<1> QED
    BY <1>4, <1>5

\* Sequences of elements flatten to one, which is not empty if none of them is.
LEMMA FlattenIsSequence ==
    ASSUME NEW S, NEW seqs \in Seq(Seq(S))
    PROVE  /\ FlattenSeq(seqs) \in Seq(S)
           /\ seqs # <<>> /\ (\A i \in DOMAIN seqs : seqs[i] # <<>>) => FlattenSeq(seqs) # <<>>
<1> DEFINE n == Len(seqs)
<1>1. n \in Nat /\ DOMAIN seqs = 1..n /\ \A i \in 1..n : seqs[i] \in Seq(S)
    OBVIOUS
<1>2. CASE n = 0
    <2>1. seqs = <<>>
        BY <1>1, <1>2
    <2> QED
        BY <1>2, <2>1 DEF FlattenSeq
<1>3. CASE n # 0
    <2> DEFINE f == CHOOSE f : IsFlat(f, n, seqs)
    <2>1. IsFlat(f, n, seqs)
        BY <1>1, FlatExists
    <2>2. FlattenSeq(seqs) = f[n]
        BY <1>3 DEF FlattenSeq, IsFlat
    <2> HIDE DEF f, n
    <2>3. \A i \in 1..n : f[i] = IF i = 1 THEN seqs[i] ELSE f[i - 1] \o seqs[i]
        BY <2>1 DEF IsFlat
    <2> DEFINE Good(i) == f[i] \in Seq(S) /\ Len(f[i]) >= Len(seqs[i])
               Bad == {i \in 1..n : ~Good(i)}
    <2>4. Bad = {}
        <3>1. SUFFICES ASSUME Bad # {} PROVE FALSE
            OBVIOUS
        <3>2. PICK i \in Bad : \A j \in Bad : i <= j
            <4>1. Bad \subseteq Nat
                BY <1>1
            <4> HIDE DEF Bad
            <4> QED
                BY <3>1, <4>1, LeastExists
        <3>3. i \in 1..n /\ ~Good(i)
            BY <3>2
        <3>4. CASE i = 1
            <4>1. f[i] = seqs[i] /\ seqs[i] \in Seq(S)
                BY <1>1, <2>3, <3>3, <3>4
            <4>2. Len(seqs[i]) \in Nat
                BY <4>1
            <4> QED
                BY <3>3, <4>1, <4>2
        <3>5. CASE i # 1
            <4>1. i - 1 \in 1..n /\ ~(i <= i - 1)
                BY <1>1, <3>3, <3>5
            <4>2. Good(i - 1)
                BY <3>2, <4>1
            <4> DEFINE a == f[i - 1]
                       b == seqs[i]
            <4>3. a \in Seq(S) /\ b \in Seq(S)
                BY <1>1, <3>3, <4>2
            <4>4. f[i] = a \o b
                BY <2>3, <3>3, <3>5
            <4> HIDE DEF a, b
            <4>5. a \o b \in Seq(S) /\ Len(a \o b) = Len(a) + Len(b)
                  /\ Len(a) \in Nat /\ Len(b) \in Nat
                BY <4>3
            <4>6. Good(i)
                BY <4>4, <4>5 DEF b
            <4> QED
                BY <3>3, <4>6
        <3> QED
            BY <3>4, <3>5
    <2>5. n \in 1..n /\ Good(n)
        BY <1>1, <1>3, <2>4
    <2>6. seqs[n] # <<>> => Len(seqs[n]) > 0
        BY <1>1, <2>5
    <2>7. seqs[n] # <<>> => f[n] # <<>>
        <3>1. Len(<<>>) = 0
            OBVIOUS
        <3> QED
            BY <2>5, <2>6, <3>1
    <2> QED
        BY <1>1, <2>2, <2>5, <2>7
<1> QED
    BY <1>2, <1>3

\* An evaluation that is not refused has requests (expand_geoanalyst_requests).
LEMMA RequestsOfEvaluation ==
    ASSUME command \in AllCommands, command.name = "agent", ~Refused
    PROVE  IsSequence(Requests) /\ Len(Requests) \in Nat \ {0}
<1> DEFINE config == command.config
           tasks == Selected(config)
           variants == config.prompt_variants
           types == config.response_types
<1>1. /\ config.tasks \in Seq(Range(config.tasks)) /\ config.limit \in Nat
      /\ variants \in Seq(Range(variants)) \ {<<>>} /\ types \in Seq(Range(types)) \ {<<>>}
    BY ConfigsAssumption
<1>2. tasks # <<>>
    BY DEF Refused, CannotSelect
<1>3. tasks \in Seq(Range(config.tasks))
    <2> DEFINE T == Range(config.tasks)
               places == {i \in DOMAIN config.tasks :
                              /\ config.tasks[i].open \/ ~config.open_source_only
                              /\ config.task_ids = {} \/ config.tasks[i].id \in config.task_ids}
               all == Chosen(config.tasks, places)
               k == IF config.limit < Len(all) THEN config.limit ELSE Len(all)
    <2>1. tasks = SubSeq(all, 1, k)
        BY DEF Selected
    <2>2. all \in Seq(T)
        <3> HIDE DEF places
        <3> QED
            BY <1>1, ChosenIsSequence
    <2> HIDE DEF all, T
    <2>3. k \in Nat /\ k <= Len(all)
        BY <1>1, <2>2
    <2> HIDE DEF k
    <2>4. SubSeq(all, 1, k) \in Seq(T)
        BY <2>2, <2>3
    <2> QED
        BY <2>1, <2>4 DEF T
<1> HIDE DEF tasks, variants, types
<1> DEFINE R == {[task |-> t, prompt_variant |-> v, response_type |-> r] :
                     t \in Range(config.tasks), v \in Range(variants), r \in Range(types)}
           one(t, v) == [r \in DOMAIN types |->
                            [task |-> tasks[t], prompt_variant |-> variants[v],
                             response_type |-> types[r]]]
           some(t) == FlattenSeq([v \in DOMAIN variants |-> one(t, v)])
           each == [t \in DOMAIN tasks |-> some(t)]
<1>4. Requests = FlattenSeq(each)
    BY DEF Requests, ExpandRequests, tasks, variants, types
<1>5. \A t \in DOMAIN tasks, v \in DOMAIN variants : one(t, v) \in Seq(R) \ {<<>>}
    <2> SUFFICES ASSUME NEW t \in DOMAIN tasks, NEW v \in DOMAIN variants
                 PROVE  one(t, v) \in Seq(R) \ {<<>>}
        OBVIOUS
    <2>1. tasks[t] \in Range(config.tasks) /\ variants[v] \in Range(variants)
        BY <1>1, <1>3
    <2>2. /\ Len(types) \in Nat \ {0} /\ DOMAIN types = 1..Len(types)
          /\ \A r \in 1..Len(types) : types[r] \in Range(types)
        BY <1>1
    <2>3. \A r \in 1..Len(types) :
              [task |-> tasks[t], prompt_variant |-> variants[v], response_type |-> types[r]] \in R
        BY <2>1, <2>2
    <2> HIDE DEF R
    <2>4. one(t, v) \in Seq(R) /\ Len(one(t, v)) = Len(types)
        BY <2>2, <2>3
    <2> QED
        BY <2>2, <2>4
<1> HIDE DEF R, one
<1>6. \A t \in DOMAIN tasks : some(t) \in Seq(R) \ {<<>>}
    <2> SUFFICES ASSUME NEW t \in DOMAIN tasks PROVE some(t) \in Seq(R) \ {<<>>}
        OBVIOUS
    <2> DEFINE parts == [v \in DOMAIN variants |-> one(t, v)]
    <2>1. Len(variants) \in Nat \ {0} /\ DOMAIN variants = 1..Len(variants)
        BY <1>1
    <2>2. parts \in Seq(Seq(R)) /\ Len(parts) = Len(variants) /\ DOMAIN parts = DOMAIN variants
        BY <1>5, <2>1
    <2>3. parts # <<>> /\ \A v \in DOMAIN parts : parts[v] # <<>>
        BY <1>5, <2>1, <2>2
    <2> HIDE DEF parts
    <2> QED
        BY <2>2, <2>3, FlattenIsSequence DEF parts
<1> HIDE DEF some
<1>7. /\ each \in Seq(Seq(R)) /\ each # <<>> /\ \A t \in DOMAIN each : each[t] # <<>>
    <2>1. Len(tasks) \in Nat \ {0} /\ DOMAIN tasks = 1..Len(tasks)
        BY <1>2, <1>3
    <2>2. each \in Seq(Seq(R)) /\ Len(each) = Len(tasks) /\ DOMAIN each = DOMAIN tasks
        BY <1>6, <2>1
    <2> QED
        BY <1>6, <2>1, <2>2
<1> HIDE DEF each
<1>8. Requests \in Seq(R) /\ Requests # <<>>
    BY <1>4, <1>7, FlattenIsSequence
<1> QED
    BY <1>8, SequenceOfItsElements DEF IsSequence

-----------------------------------------------------------------------------
(* The steps of the evaluation of one target                                 *)

\* Cut off at any of its steps, an evaluation is accounted for.
LEMMA ProgressAccounts ==
    ASSUME NEW ev, NEW i, NEW requests, NEW row, NEW file, NEW mine,
           ev.step \in Evaluating, Progress(ev, i, requests, row, file, mine)
    PROVE  Accounted(i, row, file, mine)
<1> USE DEF Progress
<1> DEFINE rs == file.responses
           res == ev.results
           n == ev.request
<1>1. /\ Len(res) \in Nat /\ Len(rs) \in Nat /\ n \in Nat /\ n >= 1
    BY DEF IsResults, IsSequence
<1>2. \E m \in {Len(rs) - 1, Len(rs)} : m >= 0 /\ mine = SamplesOf(i, rs, m)
    <2>1. CASE ev.step = "response"
        <3>1. /\ Len(res) = Len(rs) + 1 /\ \A k \in 1..Len(rs) : res[k] = rs[k]
            BY <2>1, AppendIsSequence DEF IsResults
        <3>2. mine = SamplesOf(i, res, n - 1) /\ Len(rs) = n - 1
            BY <1>1, <2>1, <3>1
        <3>3. SamplesOf(i, res, Len(rs)) = SamplesOf(i, rs, Len(rs))
            BY <1>1, <3>1, SamplesOfPrefix
        <3> QED
            BY <1>1, <3>2, <3>3
    <2>2. CASE ev.step \in {"error", "sample"}
        <3>1. mine = SamplesOf(i, rs, n - 1) /\ n - 1 = Len(rs) - 1 /\ n - 1 >= 0
            BY <1>1, <2>2
        <3> QED
            BY <3>1
    <2>3. CASE ev.step \in {"claim", "ask", "measure", "complete"}
        BY <1>1, <2>3
    <2> QED
        BY <2>1, <2>2, <2>3 DEF Evaluating
<1>3. \/ ErrorsOf(rs) = file.errors
      \/ \E e \in Reasons : ErrorsOf(rs) = Append(file.errors, e)
    OBVIOUS
<1>4. file.measured => Len(rs) = Len(row.config.requests)
    BY <1>1
<1>5. ~HasMeasurement(file) => rs = <<>>
    <2>1. CASE ev.step = "claim"
        <3>1. rs = res /\ Len(res) = 0
            BY <1>1, <2>1
        <3> QED
            BY <3>1 DEF IsResults, IsSequence
    <2>2. CASE ev.step # "claim"
        BY <2>2 DEF HasMeasurement
    <2> QED
        BY <2>1, <2>2
<1> QED
    BY <1>2, <1>3, <1>4, <1>5 DEF Accounted

\* The session of a target has begun.
LEMMA BeginProgress ==
    ASSUME NEW ev, DOMAIN ev = EvalFields, NEW i, NEW requests, NEW row,
           Len(requests) \in Nat \ {0},
           "metrics" \in DOMAIN row, row.status = "running", row.metrics = NoMetrics,
           row.config.requests = requests
    PROVE  LET new == [ev EXCEPT !.step = "claim", !.request = 1, !.attempt = 0, !.results = <<>>]
           IN  Progress(new, i, requests, row, NoFiles, {})
<1> DEFINE new == [ev EXCEPT !.step = "claim", !.request = 1, !.attempt = 0, !.results = <<>>]
<1>1. new.step = "claim" /\ new.request = 1 /\ new.results = <<>>
    BY DEF EvalFields
<1>2. /\ NoFiles.responses = <<>> /\ NoFiles.errors = <<>> /\ NoFiles.torn = FALSE
      /\ NoFiles.measured = FALSE /\ NoFiles.claimed = 0
    BY DEF NoFiles
<1>3. Len(<<>>) = 0 /\ <<>> \in Seq(Reasons) /\ IsResults(<<>>)
    BY DEF IsResults, IsSequence
<1>4. {} = SamplesOf(i, <<>>, Len(<<>>)) /\ Len(<<>>) = 1 - 1
    BY <1>3, NoSamples
<1> HIDE DEF new
<1>5. 1 \in 1..Len(requests)
    OBVIOUS
<1>6. Progress(new, i, requests, row, NoFiles, {})
    <2>1. ErrorsOf(NoFiles.responses) = NoFiles.errors
        BY <1>2, NoErrors
    <2>2. new.results = NoFiles.responses /\ Len(new.results) = new.request - 1
        BY <1>1, <1>2, <1>4
    <2>3. {} = SamplesOf(i, new.results, Len(new.results))
        BY <1>1, <1>4
    <2> QED
        BY <1>1, <1>2, <1>3, <1>5, <2>1, <2>2, <2>3 DEF Progress
<1> QED
    BY <1>6 DEF new

\* create_artifact of the responses, the errors and the measurement
LEMMA ClaimProgress ==
    ASSUME NEW ev, DOMAIN ev = EvalFields, NEW i, NEW requests, NEW row, NEW file, NEW mine,
           DOMAIN file = FileFields, ev.step = "claim",
           Progress(ev, i, requests, row, file, mine)
    PROVE  LET new == [ev EXCEPT !.step = IF file.claimed = 2 THEN "ask" ELSE "claim"]
               filed == [file EXCEPT !.claimed = @ + 1]
           IN  Progress(new, i, requests, row, filed, mine)
<1> DEFINE new == [ev EXCEPT !.step = IF file.claimed = 2 THEN "ask" ELSE "claim"]
           filed == [file EXCEPT !.claimed = @ + 1]
<1>1. /\ new.step = (IF file.claimed = 2 THEN "ask" ELSE "claim")
      /\ new.request = ev.request /\ new.results = ev.results
    BY DEF EvalFields
<1>2. /\ filed.responses = file.responses /\ filed.errors = file.errors
      /\ filed.torn = file.torn /\ filed.measured = file.measured
      /\ filed.claimed = file.claimed + 1
    BY DEF FileFields
<1>3. file.claimed \in 0..2 /\ ev.request = 1 /\ Len(ev.results) = 0
    BY DEF Progress
<1> HIDE DEF new, filed
<1>4. Progress(new, i, requests, row, filed, mine)
    <2>1. CASE file.claimed = 2
        BY <1>1, <1>2, <1>3, <2>1 DEF Progress
    <2>2. CASE file.claimed # 2
        BY <1>1, <1>2, <1>3, <2>2 DEF Progress
    <2> QED
        BY <2>1, <2>2
<1> QED
    BY <1>4 DEF new, filed

LEMMA LastIsResult ==
    ASSUME NEW rs, IsResults(rs), Len(rs) # 0
    PROVE  IsResult(Last(rs))
<1>1. Len(rs) \in DOMAIN rs
    BY DEF IsResults, IsSequence
<1> QED
    BY <1>1 DEF IsResults, Last

\* A request is asked again.
LEMMA RetryProgress ==
    ASSUME NEW ev, DOMAIN ev = EvalFields, NEW i, NEW requests, NEW row, NEW file, NEW mine,
           ev.step = "ask", Progress(ev, i, requests, row, file, mine)
    PROVE  Progress([ev EXCEPT !.attempt = @ + 1], i, requests, row, file, mine)
<1> DEFINE new == [ev EXCEPT !.attempt = @ + 1]
<1>1. new.step = "ask" /\ new.request = ev.request /\ new.results = ev.results
    BY DEF EvalFields
<1> HIDE DEF new
<1>2. Progress(new, i, requests, row, file, mine)
    BY <1>1 DEF Progress
<1> QED
    BY <1>2 DEF new

\* A request has a result.
LEMMA ResultProgress ==
    ASSUME NEW ev, DOMAIN ev = EvalFields, NEW i, NEW requests, NEW row, NEW file, NEW mine,
           ev.step = "ask", Progress(ev, i, requests, row, file, mine),
           NEW result, IsResult(result)
    PROVE  Progress([ev EXCEPT !.step = "response", !.results = Append(@, result),
                               !.attempt = 0], i, requests, row, file, mine)
<1> DEFINE res == ev.results
           n == ev.request
           after == Append(res, result)
           new == [ev EXCEPT !.step = "response", !.results = Append(@, result), !.attempt = 0]
<1>1. new.step = "response" /\ new.request = n /\ new.results = after
    BY DEF EvalFields
<1>2. /\ Len(res) = n - 1 /\ n \in 1..Len(requests) /\ Len(requests) \in Nat
      /\ IsResults(res) /\ file.responses = res /\ mine = SamplesOf(i, res, Len(res))
      /\ ErrorsOf(res) = file.errors
    BY DEF Progress
<1>3. n \in Nat /\ (n - 1) + 1 = n /\ n - 1 \in Nat
    BY <1>2
<1>4. IsSequence(res)
    BY <1>2 DEF IsResults
<1> HIDE DEF res, n, new
<1>5. IsResults(after) /\ Last(after) = result
    BY <1>2, <1>4, LastOfAppend, MoreResults
<1>6. Len(after) = n /\ \A k \in 1..(n - 1) : after[k] = res[k]
    BY <1>2, <1>3, <1>4, AppendIsSequence
<1>7. SamplesOf(i, after, n - 1) = SamplesOf(i, res, n - 1)
    BY <1>3, <1>6, SamplesOfPrefix
<1>8. after = Append(file.responses, Last(after))
    BY <1>2, <1>5
<1> HIDE DEF after
<1>9. Progress(new, i, requests, row, file, mine)
    BY <1>1, <1>2, <1>5, <1>6, <1>7, <1>8 DEF Progress, res
<1> QED
    BY <1>9 DEF new

\* append_result
LEMMA ResponseProgress ==
    ASSUME NEW ev, DOMAIN ev = EvalFields, NEW i, NEW requests, NEW row, NEW file, NEW mine,
           DOMAIN file = FileFields, ev.step = "response",
           Progress(ev, i, requests, row, file, mine)
    PROVE  LET new == [ev EXCEPT !.step = IF Last(ev.results).error # "none" THEN "error"
                                          ELSE "sample"]
               filed == [file EXCEPT !.responses = Append(@, Last(ev.results))]
           IN  Progress(new, i, requests, row, filed, mine)
<1> DEFINE res == ev.results
           n == ev.request
           rs == file.responses
           last == Last(res)
           new == [ev EXCEPT !.step = IF last.error # "none" THEN "error" ELSE "sample"]
           filed == [file EXCEPT !.responses = Append(@, last)]
<1>1. /\ new.step = (IF last.error # "none" THEN "error" ELSE "sample")
      /\ new.request = n /\ new.results = res
    BY DEF EvalFields
<1>2. /\ IsResults(res) /\ IsResults(rs) /\ Len(res) = n /\ n \in Nat /\ n >= 1
      /\ n \in 1..Len(requests) /\ Len(requests) \in Nat
      /\ res = Append(rs, last) /\ ErrorsOf(rs) = file.errors /\ file.errors \in Seq(Reasons)
      /\ mine = SamplesOf(i, res, n - 1) /\ ~file.torn /\ ~file.measured
      /\ "metrics" \in DOMAIN row /\ row.status = "running" /\ row.metrics = NoMetrics
      /\ row.config.requests = requests /\ file.claimed = 3
    BY DEF Progress
<1>3. /\ filed.responses = res /\ filed.errors = file.errors /\ filed.torn = file.torn
      /\ filed.measured = file.measured /\ filed.claimed = file.claimed
    BY <1>2 DEF FileFields
<1>4. IsResult(last)
    BY <1>2, LastIsResult
<1>5. ErrorsOf(res) = IF last.ok THEN ErrorsOf(rs) ELSE Append(ErrorsOf(rs), last.error)
    BY <1>2, <1>4, MoreErrors
<1>6. /\ last.error # "none" => ~last.ok /\ last.error \in Reasons
      /\ last.error = "none" => last.ok
    BY <1>4 DEF IsResult, Reasons
<1> HIDE DEF new, filed, res, n, rs, last
<1>7. Progress(new, i, requests, row, filed, mine)
    <2>1. CASE last.error # "none"
        <3>1. new.step = "error" /\ Last(new.results) = last
            BY <1>1, <2>1 DEF last
        <3> QED
            BY <1>1, <1>2, <1>3, <1>5, <1>6, <2>1, <3>1 DEF Progress
    <2>2. CASE last.error = "none"
        <3>1. new.step = "sample"
            BY <1>1, <2>2
        <3> QED
            BY <1>1, <1>2, <1>3, <1>5, <1>6, <2>2, <3>1 DEF Progress
    <2> QED
        BY <2>1, <2>2
<1> QED
    BY <1>7 DEF new, filed, res, last

\* append_error
LEMMA ErrorProgress ==
    ASSUME NEW ev, DOMAIN ev = EvalFields, NEW i, NEW requests, NEW row, NEW file, NEW mine,
           DOMAIN file = FileFields, ev.step = "error",
           Progress(ev, i, requests, row, file, mine)
    PROVE  LET new == [ev EXCEPT !.step = "sample"]
               filed == [file EXCEPT !.errors = Append(@, Last(ev.results).error)]
           IN  Progress(new, i, requests, row, filed, mine)
<1> DEFINE error == Last(ev.results).error
           new == [ev EXCEPT !.step = "sample"]
           filed == [file EXCEPT !.errors = Append(@, error)]
<1>1. new.step = "sample" /\ new.request = ev.request /\ new.results = ev.results
    BY DEF EvalFields
<1>2. /\ filed.responses = file.responses /\ filed.errors = Append(file.errors, error)
      /\ filed.torn = file.torn /\ filed.measured = file.measured
      /\ filed.claimed = file.claimed
    BY DEF FileFields
<1>3. file.errors \in Seq(Reasons) /\ error \in Reasons
    BY DEF Progress
<1> HIDE DEF new, filed, error
<1>4. Append(file.errors, error) \in Seq(Reasons)
    BY <1>3
<1>5. Progress(new, i, requests, row, filed, mine)
    BY <1>1, <1>2, <1>4 DEF Progress, error
<1> QED
    BY <1>5 DEF new, filed, error

\* record_samples, after which the next request is asked or there is none
LEMMA SampleProgress ==
    ASSUME NEW ev, DOMAIN ev = EvalFields, NEW i, NEW requests, NEW row, NEW file, NEW mine,
           ev.step = "sample", Progress(ev, i, requests, row, file, mine)
    PROVE  LET new == IF ev.request < Len(requests)
                      THEN [ev EXCEPT !.step = "ask", !.request = @ + 1]
                      ELSE [ev EXCEPT !.step = "measure"]
               sample == [run |-> i, number |-> ev.request, result |-> Last(ev.results)]
           IN  Progress(new, i, requests, row, file, mine \cup {sample})
<1> DEFINE res == ev.results
           n == ev.request
           new == IF n < Len(requests) THEN [ev EXCEPT !.step = "ask", !.request = @ + 1]
                  ELSE [ev EXCEPT !.step = "measure"]
           sample == [run |-> i, number |-> n, result |-> Last(res)]
<1>1. /\ new.step = (IF n < Len(requests) THEN "ask" ELSE "measure")
      /\ new.request = (IF n < Len(requests) THEN n + 1 ELSE n) /\ new.results = res
    BY DEF EvalFields
<1>2. /\ Len(res) = n /\ n \in Nat /\ n >= 1 /\ n \in 1..Len(requests) /\ Len(requests) \in Nat
      /\ file.responses = res /\ mine = SamplesOf(i, res, n - 1)
      /\ ErrorsOf(res) = file.errors /\ ~file.torn /\ ~file.measured
      /\ IsResults(res) /\ file.errors \in Seq(Reasons)
      /\ "metrics" \in DOMAIN row /\ row.status = "running" /\ row.metrics = NoMetrics
      /\ row.config.requests = requests /\ file.claimed = 3
    BY DEF Progress
<1>3. mine \cup {sample} = SamplesOf(i, res, n)
    <2>1. SamplesOf(i, res, (n - 1) + 1) = SamplesOf(i, res, n - 1)
              \cup {[run |-> i, number |-> (n - 1) + 1, result |-> res[(n - 1) + 1]]}
        BY <1>2, OneMoreSample
    <2>2. (n - 1) + 1 = n /\ Last(res) = res[n]
        BY <1>2 DEF Last
    <2> QED
        BY <1>2, <2>1, <2>2
<1> HIDE DEF new, sample, res, n
<1>4. Progress(new, i, requests, row, file, mine \cup {sample})
    <2>1. CASE n < Len(requests)
        <3>1. new.step = "ask" /\ new.request = n + 1 /\ (n + 1) - 1 = n
              /\ n + 1 \in 1..Len(requests)
            BY <1>1, <1>2, <2>1
        <3> QED
            BY <1>1, <1>2, <1>3, <3>1 DEF Progress
    <2>2. CASE ~(n < Len(requests))
        <3>1. new.step = "measure" /\ new.request = n /\ n = Len(requests)
            BY <1>1, <1>2, <2>2
        <3> QED
            BY <1>1, <1>2, <1>3, <3>1 DEF Progress
    <2> QED
        BY <2>1, <2>2
<1> QED
    BY <1>4 DEF new, sample, res, n

\* write_measurement
LEMMA MeasureProgress ==
    ASSUME NEW ev, DOMAIN ev = EvalFields, NEW i, NEW requests, NEW row, NEW file, NEW mine,
           DOMAIN file = FileFields, ev.step = "measure",
           Progress(ev, i, requests, row, file, mine)
    PROVE  LET new == [ev EXCEPT !.step = "complete"]
               filed == [file EXCEPT !.measured = TRUE]
           IN  Progress(new, i, requests, row, filed, mine)
<1> DEFINE new == [ev EXCEPT !.step = "complete"]
           filed == [file EXCEPT !.measured = TRUE]
<1>1. new.step = "complete" /\ new.request = ev.request /\ new.results = ev.results
    BY DEF EvalFields
<1>2. /\ filed.responses = file.responses /\ filed.errors = file.errors
      /\ filed.torn = file.torn /\ filed.measured = TRUE /\ filed.claimed = file.claimed
    BY DEF FileFields
<1> HIDE DEF new, filed
<1>3. Progress(new, i, requests, row, filed, mine)
    BY <1>1, <1>2 DEF Progress
<1> QED
    BY <1>3 DEF new, filed

\* Records are judged by what a row says of them.
LEMMA OtherRecordAccounts ==
    ASSUME NEW i, NEW row, NEW file, NEW mine, Accounted(i, row, file, mine), NEW other,
           "metrics" \in DOMAIN other, other.config = row.config,
           other.metrics # NoMetrics => HasMetrics(other, file),
           other.status = "ok" =>
               /\ file.measured /\ ~file.torn /\ file.errors = <<>>
               /\ \A j \in DOMAIN file.responses : file.responses[j].ok
    PROVE  Accounted(i, other, file, mine)
    BY DEF Accounted

\* What the final record of a target says
Outcome(ev, status, metrics) ==
    \/ status = "failed" /\ metrics = NoMetrics
    \/ /\ ev.step = "complete" /\ metrics = Counted(ev.results)
       /\ status \in {"ok", "failed"}
       /\ status = "ok" => metrics[<<"error_count">>] = 0

\* The final record of a target says what its files do.
LEMMA EndAccounts ==
    ASSUME NEW ev, NEW i, NEW requests, NEW row, NEW file, NEW mine, ev.step \in Evaluating,
           Progress(ev, i, requests, row, file, mine), NEW status, NEW metrics,
           Outcome(ev, status, metrics)
    PROVE  Accounted(i, [row EXCEPT !.status = status, !.metrics = metrics, !.listed = TRUE],
                     file, mine)
<1> DEFINE ended == [row EXCEPT !.status = status, !.metrics = metrics, !.listed = TRUE]
<1>1. Accounted(i, row, file, mine)
    BY ProgressAccounts
<1>2. /\ "metrics" \in DOMAIN ended /\ ended.metrics = metrics
      /\ ended.status = status \/ ended.status = row.status
      /\ ended.config = row.config
    <2>1. "metrics" \in DOMAIN row
        BY DEF Progress
    <2> QED
        BY <2>1
<1>3. row.status # "ok"
    BY DEF Progress
<1> HIDE DEF ended
<1>4. CASE status = "failed" /\ metrics = NoMetrics
    BY <1>1, <1>2, <1>3, <1>4 DEF Accounted
<1>5. CASE /\ ev.step = "complete" /\ metrics = Counted(ev.results)
           /\ status \in {"ok", "failed"}
           /\ status = "ok" => metrics[<<"error_count">>] = 0
    <2>1. /\ file.measured /\ ~file.torn /\ ev.results = file.responses
          /\ ErrorsOf(file.responses) = file.errors /\ IsResults(file.responses)
        BY <1>5 DEF Progress
    <2>2. ASSUME ended.status = "ok"
          PROVE  /\ \A j \in DOMAIN file.responses : file.responses[j].ok
                 /\ file.errors = <<>>
        <3>1. \A j \in DOMAIN file.responses : file.responses[j].ok
            BY <1>2, <1>3, <1>5, <2>1, <2>2, ErrorCount
        <3> QED
            BY <2>1, <3>1, NoErrorsOfGood
    <2>3. Accounted(i, ended, file, mine)
        <3>1. ended.metrics # NoMetrics => HasMetrics(ended, file)
            BY <1>2, <1>5, <2>1 DEF HasMetrics
        <3>2. ended.status = "ok" =>
                  /\ file.measured /\ ~file.torn /\ file.errors = <<>>
                  /\ \A j \in DOMAIN file.responses : file.responses[j].ok
            BY <2>1, <2>2
        <3>3. "metrics" \in DOMAIN ended /\ ended.config = row.config
            BY <1>2
        <3> QED
            BY <1>1, <3>1, <3>2, <3>3, OtherRecordAccounts
    <2> QED
        BY <2>3 DEF ended
<1> QED
    BY <1>4, <1>5 DEF ended, Outcome

-----------------------------------------------------------------------------
(* What a step does to the records                                           *)

LEMMA OldIsNoEval ==
    ASSUME NEW i \in DOMAIN Legacy, NEW row,
           row \in {Legacy[i], Migrated(Legacy[i])} \/ IsMigrated(row, Legacy[i])
    PROVE  ~IsEval(row)
<1>1. Legacy[i].spec = NoSpec /\ {"kind", "spec", "name", "config"} \subseteq DOMAIN Legacy[i]
    BY LegacyAssumption
<1>2. Fingerprint(Legacy[i]).scheme = 0 /\ NoSpec.scheme = 0
    BY <1>1 DEF Fingerprint, NoSpec
<1>3. Migrated(Legacy[i]).spec = Fingerprint(Legacy[i])
    BY <1>1, MigratedFields
<1> QED
    BY <1>1, <1>2, <1>3 DEF IsEval, IsMigrated

LEMMA LegacyIsNoEval ==
    ASSUME LegacyInv, NEW i \in DOMAIN Legacy
    PROVE  ~IsEval(runs[i])
    BY OldIsNoEval DEF LegacyInv

LEMMA FilesShape ==
    ASSUME TableInv, FilesInv
    PROVE  /\ Len(files) = Len(runs) /\ Len(runs) \in Nat
           /\ DOMAIN files = DOMAIN runs /\ DOMAIN runs = 1..Len(runs)
           /\ Current = Len(runs)
<1>1. Len(runs) \in Nat /\ DOMAIN runs = 1..Len(runs)
    BY TableShape
<1>2. DOMAIN files = 1..Len(files)
    BY DEF FilesInv, IsSequence
<1> QED
    BY <1>1, <1>2 DEF FilesInv, Current

\* An evaluation that a step leaves alone stays accounted for.
LEMMA EvalsStep ==
    ASSUME EvalsInv,
           \A i \in DOMAIN runs' :
               IsEval(runs'[i]) =>
                   \/ Accounted(i, runs'[i], files'[i], Mine(i)')
                   \/ /\ i \in DOMAIN runs /\ runs'[i] = runs[i] /\ files'[i] = files[i]
                      /\ Mine(i)' = Mine(i)
    PROVE  EvalsInv'
    BY DEF EvalsInv

\* Files are changed in place.
LEMMA FilesStep ==
    ASSUME TableInv, FilesInv, Len(runs') = Len(runs), DOMAIN runs' = DOMAIN runs,
           \A i \in DOMAIN runs : runs'[i].id = runs[i].id,
           files' = [i \in DOMAIN files |-> files'[i]],
           \A i \in DOMAIN runs : DOMAIN files'[i] = DOMAIN files[i],
           \A s \in samples' : s \in samples \/ s.run \in DOMAIN runs
    PROVE  FilesInv'
<1>1. DOMAIN files = 1..Len(runs) /\ Len(runs) \in Nat /\ Len(files) = Len(runs)
    BY FilesShape
<1>2. IsSequence(files)' /\ Len(files') = Len(runs)
    <2> DEFINE n == Len(runs)
    <2>1. n \in Nat /\ files' = [i \in 1..n |-> files'[i]]
        BY <1>1
    <2> HIDE DEF n
    <2>2. files' \in Seq({files'[i] : i \in DOMAIN files'}) /\ Len(files') = n
        BY <2>1, FunctionIsSequence
    <2> QED
        BY <2>2 DEF IsSequence, n
<1> QED
    BY <1>1, <1>2 DEF FilesInv

\* A session records its new row and has its directory.
LEMMA BegunFiles ==
    ASSUME TableInv, FilesInv, NEW row, row.id = Len(runs) + 1, Begin(row), UNCHANGED samples
    PROVE  /\ FilesInv'
           /\ Len(runs') = Len(runs) + 1 /\ DOMAIN runs' = 1..(Len(runs) + 1)
           /\ \A i \in DOMAIN runs :
                  runs'[i] = runs[i] /\ files'[i] = files[i] /\ Mine(i)' = Mine(i)
           /\ runs'[Len(runs) + 1] = row /\ files'[Len(runs) + 1] = NoFiles
           /\ Mine(Len(runs) + 1) = {}
<1> DEFINE n == Len(runs)
<1>1. /\ Len(files) = n /\ n \in Nat /\ DOMAIN files = DOMAIN runs /\ DOMAIN runs = 1..n
      /\ runs' = Append(runs, row) /\ files' = Append(files, NoFiles)
      /\ IsSequence(runs) /\ IsSequence(files)
    BY FilesShape DEF Begin, TableInv, FilesInv, IsSequence
<1> HIDE DEF n
<1>2. /\ Len(runs') = n + 1 /\ DOMAIN runs' = 1..(n + 1) /\ runs'[n + 1] = row
      /\ \A i \in 1..n : runs'[i] = runs[i]
    BY <1>1, AppendIsSequence, Zenon DEF n
<1>3. /\ IsSequence(files') /\ Len(files') = n + 1 /\ files'[n + 1] = NoFiles
      /\ \A i \in 1..n : files'[i] = files[i]
    BY <1>1, AppendIsSequence
<1>4. DOMAIN NoFiles = FileFields
    BY DEF NoFiles, FileFields
<1>5. \A i \in DOMAIN runs' : DOMAIN files'[i] = FileFields /\ runs'[i].id = i
    <2> SUFFICES ASSUME NEW i \in DOMAIN runs'
                 PROVE  DOMAIN files'[i] = FileFields /\ runs'[i].id = i
        OBVIOUS
    <2>1. CASE i = n + 1
        BY <2>1, <1>2, <1>3, <1>4 DEF n
    <2>2. CASE i # n + 1
        <3>1. i \in 1..n
            BY <1>1, <1>2, <2>2
        <3> QED
            BY <1>1, <1>2, <1>3, <3>1 DEF FilesInv
    <2> QED
        BY <2>1, <2>2
<1>6. \A s \in samples' : s.run \in DOMAIN runs'
    BY <1>1, <1>2 DEF FilesInv
<1>7. FilesInv'
    BY <1>2, <1>3, <1>5, <1>6 DEF FilesInv
<1>8. \A i : Mine(i)' = Mine(i)
    BY DEF Mine
<1>9. Mine(n + 1) = {}
    BY <1>1 DEF FilesInv, Mine
<1> QED
    BY <1>1, <1>2, <1>3, <1>7, <1>8, <1>9 DEF n

-----------------------------------------------------------------------------
(* The records through what is no evaluation                                 *)

\* Nothing is written.
LEMMA NothingWritten ==
    ASSUME FilesInv, EvalsInv, UNCHANGED <<runs, files, samples>>
    PROVE  FilesInv' /\ EvalsInv' /\ Current' = Current
<1>1. \A i : Mine(i)' = Mine(i)
    BY DEF Mine
<1>2. FilesInv'
    BY DEF FilesInv
<1>3. EvalsInv'
    BY <1>1, EvalsStep
<1>4. Current' = Current
    BY DEF Current
<1> QED
    BY <1>2, <1>3, <1>4

LEMMA NothingIsNoEval == NoEval.step = "none" /\ DOMAIN NoEval = EvalFields
    BY DEF NoEval, EvalFields

LEMMA GiveKeepsRecords ==
    ASSUME CommandsInv, RecordsInv, Give
    PROVE  RecordsInv'
<1>1. /\ command = NoCommand /\ todo # <<>> /\ command' = Head(todo)
      /\ UNCHANGED <<runs, files, samples, sweep, eval, reparse>>
    BY DEF Give, table, benching, evaluating, reporting
<1>2. FilesInv' /\ EvalsInv'
    BY <1>1, NothingWritten DEF RecordsInv
<1>3. command' \in AllCommands
    <2> DEFINE Given == AllCommands
    <2>1. todo \in Seq(Given)
        BY DEF CommandsInv, BenchesInv
    <2> HIDE DEF Given
    <2>2. Head(todo) \in Given
        BY <1>1, <2>1
    <2> QED
        BY <1>1, <2>2 DEF Given
<1>4. sweep.step = "none" /\ eval.step = "none" /\ reparse.step = "none"
    BY <1>1 DEF CommandsInv, ExecutingInv, NoCommand
<1>5. reparse.left = {}
    BY <1>4 DEF RecordsInv, CurrentInv, ReparsesRows
<1>6. CurrentInv'
    BY <1>1, <1>3, <1>4, <1>5 DEF RecordsInv, CurrentInv, SweepsRow, EvaluatesRow, ReparsesRows,
       Waiting, Evaluating
<1> QED
    BY <1>2, <1>6 DEF RecordsInv

LEMMA RefuseKeepsRecords ==
    ASSUME CommandsInv, RecordsInv, Refuse
    PROVE  RecordsInv'
<1>1. /\ Refused /\ command' = NoCommand
      /\ UNCHANGED <<runs, files, samples, sweep, eval, opening, reparse>>
    BY DEF Refuse, Over, table, migration, benching, evaluating, reporting
<1>2. FilesInv' /\ EvalsInv'
    BY <1>1, NothingWritten DEF RecordsInv
<1>3. sweep.step = "none" /\ eval.step = "none"
    BY <1>1 DEF CommandsInv, ExecutingInv, Refused, Open
<1>4. CurrentInv'
    BY <1>1, <1>3 DEF RecordsInv, CurrentInv, SweepsRow, EvaluatesRow, ReparsesRows, Open,
       Waiting, Evaluating
<1> QED
    BY <1>2, <1>4 DEF RecordsInv

\* Killed while a response is written, an evaluation has a torn one.
LEMMA KillKeepsRecords ==
    ASSUME CommandsInv, RecordsInv, Kill
    PROVE  RecordsInv'
<1>1. /\ command' = NoCommand /\ sweep' = NoSweep /\ eval' = NoEval /\ reparse' = NoReparse
      /\ UNCHANGED <<runs, samples>>
      /\ \/ files' = files
         \/ eval.step = "response" /\ files' = [files EXCEPT ![Current].torn = TRUE]
    BY DEF Kill, Over
<1>2. FilesInv /\ EvalsInv /\ CurrentInv /\ TableInv
    BY DEF RecordsInv, CommandsInv, MigrationInv
<1>3. CurrentInv'
    BY <1>1, NothingIsNoEval DEF CurrentInv, SweepsRow, EvaluatesRow, ReparsesRows, NoSweep,
       NoReparse, Waiting, Evaluating
<1>4. CASE files' = files
    BY <1>1, <1>2, <1>3, <1>4, NothingWritten DEF RecordsInv
<1>5. CASE eval.step = "response" /\ files' = [files EXCEPT ![Current].torn = TRUE]
    <2>1. /\ Current \in DOMAIN runs
          /\ Progress(eval, Current, Requests, runs[Current], files[Current], Mine(Current))
        BY <1>2, <1>5 DEF CurrentInv, EvaluatesRow, Evaluating
    <2>2. /\ DOMAIN files = DOMAIN runs
          /\ \A i \in DOMAIN runs : DOMAIN files[i] = FileFields
        BY <1>2, FilesShape DEF FilesInv
    <2>3. /\ files' = [i \in DOMAIN files |-> files'[i]]
          /\ files'[Current] = [files[Current] EXCEPT !.torn = TRUE]
          /\ \A i \in DOMAIN runs : i # Current => files'[i] = files[i]
        BY <1>5, <2>1, <2>2
    <2>4. \A i \in DOMAIN runs : DOMAIN files'[i] = DOMAIN files[i]
        BY <2>3
    <2>5. FilesInv'
        BY <1>1, <1>2, <2>3, <2>4, FilesStep
    <2>6. \A i : Mine(i)' = Mine(i)
        BY <1>1 DEF Mine
    <2>7. Accounted(Current, runs[Current], files'[Current], Mine(Current))
        <3>1. Accounted(Current, runs[Current], files[Current], Mine(Current))
            BY <1>5, <2>1, ProgressAccounts DEF Evaluating
        <3>2. runs[Current].status = "running" /\ runs[Current].metrics = NoMetrics
            BY <2>1 DEF Progress
        <3>3. /\ files'[Current].responses = files[Current].responses
              /\ files'[Current].errors = files[Current].errors
              /\ files'[Current].measured = files[Current].measured
              /\ files'[Current].claimed = files[Current].claimed
            BY <2>1, <2>2, <2>3 DEF FileFields
        <3> QED
            BY <3>1, <3>2, <3>3 DEF Accounted, HasMeasurement
    <2>8. EvalsInv'
        BY <1>1, <1>2, <2>3, <2>6, <2>7, EvalsStep
    <2> QED
        BY <1>3, <2>5, <2>8 DEF RecordsInv
<1> QED
    BY <1>1, <1>4, <1>5

\* The migration changes old rows, which are no evaluations.
LEMMA MigrateKeepsRecords ==
    ASSUME CommandsInv, CommandsInv', RecordsInv, Migrate,
           UNCHANGED <<benching, evaluating, reporting, kills>>
    PROVE  RecordsInv'
<1>1. /\ UNCHANGED <<files, samples, command, sweep, eval, reparse>>
      /\ ~Open
      /\ \/ UNCHANGED runs
         \/ UpdateRow
    BY DEF Migrate, OpenDatabase, DefineSchema, StartVersion2, UpdateRow, InsertStdout,
           InsertStderr, MarkVersion2, ApplyVersion3, MarkVersion3, Open, benching, evaluating,
           reporting, given, table
<1>2. FilesInv /\ EvalsInv /\ CurrentInv /\ TableInv /\ LegacyInv
    BY DEF RecordsInv, CommandsInv, MigrationInv
<1>3. sweep.step = "none" /\ eval.step = "none" /\ reparse.left = {}
    BY <1>1, <1>2 DEF CommandsInv, ExecutingInv, CurrentInv, ReparsesRows
<1>4. CurrentInv'
    BY <1>1, <1>2, <1>3 DEF CurrentInv, SweepsRow, EvaluatesRow, ReparsesRows, Waiting, Evaluating
<1>5. CASE UNCHANGED runs
    BY <1>1, <1>2, <1>4, <1>5, NothingWritten DEF RecordsInv
<1>6. CASE UpdateRow
    <2> DEFINE row == Head(opening.rows)
    <2>1. opening.step = "row" /\ opening.rows # <<>> /\ runs' = [runs EXCEPT ![row.id] = Migrated(row)]
        BY <1>6 DEF UpdateRow
    <2>2. RowsInv /\ 2 \notin applied /\ 2 \notin applied'
        BY <1>6, <2>1 DEF CommandsInv, MigrationInv, OpeningInv, UpdateRow, database
    <2>3. PICK k \in DOMAIN Legacy : row \in {Legacy[k], Migrated(Legacy[k])}
        BY <2>1, <2>2, RowsShape
    <2>4. row.id = k /\ Migrated(row) = Migrated(Legacy[k])
        BY <2>3, FetchedRow
    <2> HIDE DEF row
    <2>5. /\ Len(runs) \in Nat /\ DOMAIN runs = 1..Len(runs)
          /\ DOMAIN Legacy \subseteq DOMAIN runs /\ Len(runs) = Len(Legacy)
          /\ DOMAIN Legacy = 1..Len(Legacy)
        BY <1>2, <2>2, TableShape DEF LegacyInv
    <2>6. /\ DOMAIN runs' = DOMAIN runs
          /\ \A i \in DOMAIN runs : i # k => runs'[i] = runs[i]
          /\ runs'[k] = Migrated(Legacy[k])
        BY <2>1, <2>4, <2>5
    <2>7. Len(runs') = Len(runs)
        BY <2>5, <2>6 DEF CommandsInv, MigrationInv, TableInv
    <2>8. runs'[k].id = k
        BY <2>3, <2>6, FetchedRow, MigratedFields, LegacyAssumption
    <2>9. FilesInv'
        <3>1. \A i \in DOMAIN runs : runs'[i].id = runs[i].id
            BY <1>2, <2>5, <2>6, <2>8 DEF FilesInv
        <3> QED
            BY <1>1, <1>2, <2>6, <2>7, <3>1, FilesStep DEF FilesInv, IsSequence
    <2>10. \A i \in DOMAIN runs' : ~IsEval(runs'[i])
        <3>1. \A i \in DOMAIN Legacy : ~IsEval(runs[i])
            BY <1>2, LegacyIsNoEval
        <3>2. ~IsEval(runs'[k])
            BY <2>3, <2>6, OldIsNoEval
        <3> QED
            BY <2>5, <2>6, <3>1, <3>2
    <2>11. EvalsInv'
        BY <2>10 DEF EvalsInv
    <2> QED
        BY <1>4, <2>9, <2>11 DEF RecordsInv
<1> QED
    BY <1>1, <1>5, <1>6

\* What a step of a sweep writes: a new row, the end of the current one, or nothing.
LEMMA BenchWrites ==
    ASSUME ExecutingInv, Bench
    PROVE  \/ /\ UNCHANGED <<runs, files>>
              /\ UNCHANGED command \/ Over
              /\ sweep'.step = "starting" \/ sweep'.step \in Waiting =>
                     sweep.step = "starting" \/ sweep.step \in Waiting
           \/ UNCHANGED command /\ \E config, trial : Begin(TrialRow(config, trial))
           \/ /\ sweep.step = "starting" \/ sweep.step \in Waiting
              /\ UNCHANGED command
              /\ \E status, metrics : runs' = Ended(status, metrics)
              /\ \/ files' = files
                 \/ \E printed : files' = [files EXCEPT ![Current].printed = printed]
<1> USE DEF Waiting
<1>0. {"step", "next", "failures"} \subseteq DOMAIN sweep
    BY DEF ExecutingInv
<1>1. CASE StartSweep \/ EndSweep
    BY <1>0, <1>1 DEF StartSweep, EndSweep, given, table
<1>2. CASE BeginTrial
    BY <1>0, <1>2, SweepSteps DEF BeginTrial, given, table
<1>3. CASE StartBench \/ Draw \/ Drawn \/ LeaveSweep \/ OrphanEnds
    BY <1>3 DEF StartBench, Draw, Drawn, LeaveSweep, OrphanEnds, NoSweep, given, table, Over
<1>4. CASE CannotStart \/ Terminated \/ InterruptHandler
    BY <1>4 DEF CannotStart, Terminated, InterruptHandler, given
<1>5. CASE BenchEnds
    BY <1>5 DEF BenchEnds, given
<1>6. CASE InterruptWait \/ InterruptTrial
    BY <1>0, <1>6, SweepSteps DEF InterruptWait, InterruptTrial, given, table
<1> QED
    BY <1>1, <1>2, <1>3, <1>4, <1>5, <1>6 DEF Bench

LEMMA NewRowIdentity ==
    /\ \A config, trial : /\ TrialRow(config, trial).id = Len(runs) + 1
                          /\ TrialRow(config, trial).kind = "llama_bench"
    /\ \A config, endpoint :
           LET row == EvalRow(config, endpoint)
           IN  /\ row.id = Len(runs) + 1 /\ row.kind = "agent_eval" /\ row.status = "running"
               /\ row.spec.scheme = 1 /\ "metrics" \in DOMAIN row /\ row.metrics = NoMetrics
               /\ row.config.requests = Requests
    BY DEF TrialRow, EvalRow, NewRow, Spec_

\* The final record of the current row
LEMMA EndedRow ==
    ASSUME TableInv, FilesInv, Current \in DOMAIN runs, NEW status, NEW metrics,
           runs' = Ended(status, metrics)
    PROVE  /\ Len(runs') = Len(runs) /\ DOMAIN runs' = DOMAIN runs
           /\ \A i \in DOMAIN runs : i # Current => runs'[i] = runs[i]
           /\ runs'[Current] = [runs[Current] EXCEPT !.status = status, !.metrics = metrics,
                                                     !.listed = TRUE]
           /\ \A i \in DOMAIN runs : runs'[i].id = runs[i].id
           /\ RowsKept
<1>1. /\ RowsKept /\ Len(runs') = Len(runs) /\ DOMAIN runs' = DOMAIN runs
      /\ \A i \in DOMAIN runs : i # Current => runs'[i] = runs[i]
    BY EndedKeepsRows
<1>2. runs'[Current] = [runs[Current] EXCEPT !.status = status, !.metrics = metrics,
                                             !.listed = TRUE]
    BY DEF Ended
<1>3. runs'[Current].id = runs[Current].id
    BY <1>2 DEF TableInv, RowFields
<1> QED
    BY <1>1, <1>2, <1>3

LEMMA BenchKeepsRecords ==
    ASSUME CommandsInv, RecordsInv, Open, Bench,
           UNCHANGED <<migration, evaluating, reporting, kills>>
    PROVE  RecordsInv'
<1>1. /\ FilesInv /\ EvalsInv /\ CurrentInv /\ TableInv /\ ExecutingInv
      /\ UNCHANGED <<samples, eval, reparse, opening>>
    BY DEF RecordsInv, CommandsInv, MigrationInv, migration, evaluating, reporting
<1>2. \A i : Mine(i)' = Mine(i)
    BY <1>1 DEF Mine
<1>3. RowsKept /\ DOMAIN runs \subseteq DOMAIN runs'
    <2>1. RowsKept
        BY <1>1, BenchKeepsRows
    <2>2. DOMAIN runs' = 1..Len(runs') /\ Len(runs') \in Nat
        BY <2>1 DEF RowsKept, TableInv
    <2>3. DOMAIN runs = 1..Len(runs) /\ Len(runs) \in Nat
        BY <1>1, TableShape
    <2> QED
        BY <2>1, <2>2, <2>3 DEF RowsKept
<1>4. ReparsesRows'
    BY <1>1, <1>3 DEF CurrentInv, ReparsesRows, RowsKept, Open
<1>5. CASE /\ UNCHANGED <<runs, files>>
           /\ UNCHANGED command \/ Over
           /\ sweep'.step = "starting" \/ sweep'.step \in Waiting =>
                  sweep.step = "starting" \/ sweep.step \in Waiting
    <2>1. FilesInv' /\ EvalsInv' /\ Current' = Current
        BY <1>1, <1>5, NothingWritten
    <2>2. CASE UNCHANGED command
        <3>1. Requests' = Requests
            BY <2>2 DEF Requests
        <3>2. EvaluatesRow'
            BY <1>1, <1>2, <1>5, <2>1, <3>1 DEF CurrentInv, EvaluatesRow
        <3> QED
            BY <1>1, <1>4, <1>5, <2>1, <2>2, <3>2 DEF CurrentInv, SweepsRow, RecordsInv
    <2>3. CASE Over /\ ~(UNCHANGED command)
        <3>1. LeaveSweep
            BY <2>3 DEF Bench, StartSweep, BeginTrial, StartBench, CannotStart, Draw, Drawn,
               BenchEnds, InterruptTrial, InterruptWait, Terminated, InterruptHandler, EndSweep,
               OrphanEnds, given
        <3>2. eval.step = "none"
            BY <1>1, <3>1 DEF LeaveSweep, ExecutingInv
        <3>3. EvaluatesRow'
            BY <1>1, <3>2 DEF CurrentInv, EvaluatesRow, Evaluating
        <3> QED
            BY <1>1, <1>4, <1>5, <2>1, <2>3, <3>3 DEF CurrentInv, SweepsRow, RecordsInv, Over
    <2> QED
        BY <1>5, <2>2, <2>3
<1>6. CASE UNCHANGED command /\ \E config, trial : Begin(TrialRow(config, trial))
    <2>1. PICK config, trial : Begin(TrialRow(config, trial))
        BY <1>6
    <2> DEFINE row == TrialRow(config, trial)
    <2>2. Begin(row) /\ row.id = Len(runs) + 1 /\ row.kind = "llama_bench"
        BY <2>1, NewRowIdentity
    <2> HIDE DEF row
    <2>3. /\ FilesInv'
          /\ Len(runs') = Len(runs) + 1 /\ DOMAIN runs' = 1..(Len(runs) + 1)
          /\ \A i \in DOMAIN runs :
                 runs'[i] = runs[i] /\ files'[i] = files[i] /\ Mine(i)' = Mine(i)
          /\ runs'[Len(runs) + 1] = row
        BY <1>1, <2>2, BegunFiles
    <2>4. DOMAIN runs = 1..Len(runs) /\ Len(runs) \in Nat
        BY <1>1, TableShape
    <2>5. ~IsEval(row)
        BY <2>2 DEF IsEval
    <2>6. \A i \in DOMAIN runs' : i \in DOMAIN runs \/ i = Len(runs) + 1
        BY <2>3, <2>4
    <2>7. EvalsInv'
        BY <1>1, <2>3, <2>5, <2>6, EvalsStep
    <2>8. eval.step \notin Evaluating
        <3>1. sweep.step # "none"
            BY <1>6, <2>3, <2>4 DEF Bench, StartSweep, BeginTrial, StartBench, CannotStart, Draw,
               Drawn, BenchEnds, InterruptTrial, InterruptWait, Terminated, InterruptHandler,
               EndSweep, LeaveSweep, OrphanEnds, table
        <3> QED
            BY <1>1, <3>1 DEF ExecutingInv, Evaluating
    <2>9. SweepsRow' /\ EvaluatesRow'
        <3>1. Current' \in DOMAIN runs' /\ runs'[Current'] = row
            BY <2>3, <2>4 DEF Current
        <3> QED
            BY <1>1, <2>2, <2>8, <3>1 DEF CurrentInv, SweepsRow, EvaluatesRow
    <2> QED
        BY <1>1, <1>4, <1>6, <2>3, <2>7, <2>9 DEF CurrentInv, RecordsInv
<1>7. CASE /\ sweep.step = "starting" \/ sweep.step \in Waiting
           /\ UNCHANGED command
           /\ \E status, metrics : runs' = Ended(status, metrics)
           /\ \/ files' = files
              \/ \E printed : files' = [files EXCEPT ![Current].printed = printed]
    <2>1. PICK status, metrics : runs' = Ended(status, metrics)
        BY <1>7
    <2>2. Current \in DOMAIN runs /\ runs[Current].kind = "llama_bench"
        BY <1>1, <1>7 DEF CurrentInv, SweepsRow
    <2>3. /\ Len(runs') = Len(runs) /\ DOMAIN runs' = DOMAIN runs
          /\ \A i \in DOMAIN runs : i # Current => runs'[i] = runs[i]
          /\ \A i \in DOMAIN runs : runs'[i].id = runs[i].id
        BY <1>1, <2>1, <2>2, EndedRow
    <2>4. runs'[Current].kind = "llama_bench"
        BY <1>3, <2>2 DEF RowsKept
    <2>5. /\ DOMAIN files = DOMAIN runs
          /\ \A i \in DOMAIN runs : DOMAIN files[i] = FileFields
        BY <1>1, FilesShape DEF FilesInv
    <2>6. /\ files' = [i \in DOMAIN files |-> files'[i]]
          /\ \A i \in DOMAIN runs : i # Current => files'[i] = files[i]
          /\ \A i \in DOMAIN runs : DOMAIN files'[i] = DOMAIN files[i]
        <3>1. CASE files' = files
            BY <1>1, <3>1 DEF FilesInv, IsSequence
        <3>2. CASE \E printed : files' = [files EXCEPT ![Current].printed = printed]
            BY <2>2, <2>5, <3>2
        <3> QED
            BY <1>7, <3>1, <3>2
    <2>7. FilesInv'
        BY <1>1, <2>3, <2>6, FilesStep
    <2>8. EvalsInv'
        BY <1>1, <1>2, <2>3, <2>4, <2>6, EvalsStep DEF IsEval
    <2>9. eval.step \notin Evaluating
        BY <1>1, <1>7 DEF ExecutingInv, Evaluating, Waiting
    <2>10. SweepsRow' /\ EvaluatesRow'
        <3>1. Current' = Current
            BY <2>3 DEF Current
        <3> QED
            BY <1>1, <2>2, <2>3, <2>4, <2>9, <3>1 DEF CurrentInv, SweepsRow, EvaluatesRow
    <2> QED
        BY <1>1, <1>4, <1>7, <2>7, <2>8, <2>10 DEF CurrentInv, RecordsInv
<1> QED
    BY <1>1, <1>5, <1>6, <1>7, BenchWrites

-----------------------------------------------------------------------------
(* The records through the evaluation                                        *)

\* While a target is evaluated no other command has anything under way.
LEMMA OnlyEvaluation ==
    ASSUME CommandsInv, RecordsInv, eval.step # "none"
    PROVE  /\ TableInv /\ FilesInv /\ EvalsInv /\ CurrentInv
           /\ command.name = "agent" /\ sweep.step = "none" /\ reparse.left = {}
           /\ Open /\ ~Refused /\ command \in AllCommands
<1>1. command.name = "agent" /\ Open
    BY DEF CommandsInv, ExecutingInv
<1>2. sweep.step = "none" /\ reparse.step = "none" /\ ~Refused
    BY <1>1 DEF CommandsInv, ExecutingInv, Open
<1>3. reparse.left = {}
    BY <1>2 DEF RecordsInv, CurrentInv, ReparsesRows
<1>4. command # NoCommand
    BY <1>1 DEF NoCommand
<1> QED
    BY <1>1, <1>2, <1>3, <1>4 DEF CommandsInv, MigrationInv, RecordsInv, CurrentInv

\* A step of the evaluation of a target writes to the target's own records.
LEMMA EvaluationGoesOn ==
    ASSUME CommandsInv, RecordsInv, eval.step \in Evaluating,
           UNCHANGED <<runs, command, sweep, reparse, opening>>,
           eval'.step \in Evaluating, DOMAIN eval' = EvalFields,
           \/ files' = files
           \/ \E file : DOMAIN file = FileFields /\ files' = [files EXCEPT ![Current] = file],
           \/ samples' = samples
           \/ \E s : s.run = Current /\ samples' = samples \cup {s},
           Progress(eval', Current, Requests, runs[Current], files'[Current],
                    {s \in samples' : s.run = Current})
    PROVE  RecordsInv'
<1>1. /\ TableInv /\ FilesInv /\ EvalsInv /\ CurrentInv /\ sweep.step = "none"
      /\ reparse.left = {}
    BY OnlyEvaluation DEF Evaluating
<1>2. /\ Current' = Current /\ Requests' = Requests /\ Current \in DOMAIN runs
    BY <1>1 DEF Current, Requests, CurrentInv, EvaluatesRow
<1>3. /\ DOMAIN files = DOMAIN runs
      /\ \A i \in DOMAIN runs : DOMAIN files[i] = FileFields
    BY <1>1, FilesShape DEF FilesInv
<1>4. /\ files' = [i \in DOMAIN files |-> files'[i]]
      /\ \A i \in DOMAIN runs : i # Current => files'[i] = files[i]
      /\ \A i \in DOMAIN runs : DOMAIN files'[i] = DOMAIN files[i]
    <2>1. CASE files' = files
        BY <1>1, <2>1 DEF FilesInv, IsSequence
    <2>2. CASE \E file : DOMAIN file = FileFields /\ files' = [files EXCEPT ![Current] = file]
        BY <1>2, <1>3, <2>2
    <2> QED
        BY <2>1, <2>2
<1>5. \A i : i # Current => Mine(i)' = Mine(i)
    BY DEF Mine
<1>6. \A s \in samples' : s \in samples \/ s.run \in DOMAIN runs
    BY <1>2
<1>7. FilesInv'
    BY <1>1, <1>4, <1>6, FilesStep
<1>8. Accounted(Current, runs'[Current], files'[Current], {s \in samples' : s.run = Current})
    BY ProgressAccounts
<1>9. \A i \in DOMAIN runs' :
          IsEval(runs'[i]) =>
              \/ Accounted(i, runs'[i], files'[i], Mine(i)')
              \/ /\ i \in DOMAIN runs /\ runs'[i] = runs[i] /\ files'[i] = files[i]
                 /\ Mine(i)' = Mine(i)
    <2> SUFFICES ASSUME NEW i \in DOMAIN runs'
                 PROVE  \/ Accounted(i, runs'[i], files'[i], Mine(i)')
                        \/ /\ i \in DOMAIN runs /\ runs'[i] = runs[i] /\ files'[i] = files[i]
                           /\ Mine(i)' = Mine(i)
        OBVIOUS
    <2>1. CASE i = Current
        BY <1>8, <2>1 DEF Mine
    <2>2. CASE i # Current
        BY <1>4, <1>5, <2>2
    <2> QED
        BY <2>1, <2>2
<1>10. EvalsInv'
    BY <1>1, <1>9, EvalsStep
<1>11. CurrentInv'
    <2>1. EvaluatesRow'
        <3>1. Mine(Current)' = {s \in samples' : s.run = Current}
            BY <1>2 DEF Mine
        <3> QED
            BY <1>2, <3>1 DEF EvaluatesRow
    <2> QED
        BY <1>1, <2>1 DEF CurrentInv, SweepsRow, ReparsesRows, Waiting
<1> QED
    BY <1>7, <1>10, <1>11 DEF RecordsInv

\* The final record of the target
LEMMA EvaluationEnds ==
    ASSUME CommandsInv, RecordsInv, eval.step \in Evaluating,
           UNCHANGED <<files, samples, command, sweep, reparse, opening>>,
           eval'.step \in {"target", "raised"}, DOMAIN eval' = EvalFields,
           NEW status, NEW metrics, runs' = Ended(status, metrics),
           Outcome(eval, status, metrics)
    PROVE  RecordsInv'
<1>1. /\ TableInv /\ FilesInv /\ EvalsInv /\ CurrentInv /\ sweep.step = "none"
      /\ reparse.left = {}
    BY OnlyEvaluation DEF Evaluating
<1>2. /\ Current \in DOMAIN runs
      /\ Progress(eval, Current, Requests, runs[Current], files[Current], Mine(Current))
    BY <1>1 DEF CurrentInv, EvaluatesRow
<1>3. /\ Len(runs') = Len(runs) /\ DOMAIN runs' = DOMAIN runs
      /\ \A i \in DOMAIN runs : i # Current => runs'[i] = runs[i]
      /\ runs'[Current] = [runs[Current] EXCEPT !.status = status, !.metrics = metrics,
                                                !.listed = TRUE]
      /\ \A i \in DOMAIN runs : runs'[i].id = runs[i].id
    BY <1>1, <1>2, EndedRow
<1>4. Accounted(Current, runs'[Current], files[Current], Mine(Current))
    <2>1. Accounted(Current, [runs[Current] EXCEPT !.status = status, !.metrics = metrics,
                                                   !.listed = TRUE],
                    files[Current], Mine(Current))
        BY <1>2, EndAccounts, Zenon
    <2> QED
        BY <1>3, <2>1, Zenon
<1>5. \A i : Mine(i)' = Mine(i)
    BY DEF Mine
<1>6. FilesInv'
    BY <1>1, <1>3, FilesStep DEF FilesInv, IsSequence
<1>7. EvalsInv'
    <2>1. \A i \in DOMAIN runs' :
              \/ i = Current
              \/ i \in DOMAIN runs /\ runs'[i] = runs[i]
        BY <1>3
    <2>2. \A i \in DOMAIN runs' :
              \/ Accounted(i, runs'[i], files'[i], Mine(i)')
              \/ /\ i \in DOMAIN runs /\ runs'[i] = runs[i] /\ files'[i] = files[i]
                 /\ Mine(i)' = Mine(i)
        BY <1>4, <1>5, <2>1
    <2> QED
        BY <1>1, <2>2, EvalsStep
<1>8. CurrentInv'
    BY <1>1 DEF CurrentInv, SweepsRow, EvaluatesRow, ReparsesRows, Waiting, Evaluating
<1> QED
    BY <1>6, <1>7, <1>8 DEF RecordsInv

\* The evaluation is between two targets, before the first or after the last.
LEMMA EvaluationIsBetween ==
    ASSUME CommandsInv, RecordsInv, UNCHANGED <<runs, files, samples, sweep, reparse, opening>>,
           command.name = "agent", command' = command \/ command' = NoCommand,
           eval'.step \in {"none", "target", "ok", "raised"}, DOMAIN eval' = EvalFields
    PROVE  RecordsInv'
<1>1. /\ FilesInv /\ EvalsInv /\ CurrentInv /\ ReparsesRows
    BY DEF RecordsInv, CurrentInv
<1>2. sweep.step = "none"
    BY DEF CommandsInv, ExecutingInv
<1>3. FilesInv' /\ EvalsInv'
    BY <1>1, NothingWritten
<1>4. ReparsesRows'
    BY <1>1 DEF ReparsesRows, Open
<1>5. CurrentInv'
    BY <1>1, <1>2, <1>4 DEF CurrentInv, SweepsRow, EvaluatesRow, Waiting, Evaluating
<1> QED
    BY <1>3, <1>5 DEF RecordsInv

\* A record of what was answered or raised has its reason.
LEMMA ResultsOfAsking ==
    \A request, reply :
        IsResult(Failure(request, "raised")) /\ IsResult(Scored(Answer(request, reply), reply))
<1> SUFFICES ASSUME NEW request, NEW reply
             PROVE  /\ IsResult(Failure(request, "raised"))
                    /\ IsResult(Scored(Answer(request, reply), reply))
    OBVIOUS
<1>1. IsResult(Failure(request, "raised"))
    BY DEF Failure, IsResult, Reasons
<1> DEFINE answer == Answer(request, reply)
           scored == Scored(answer, reply)
<1>2. IsResult(answer) /\ {"ok", "error", "score"} \subseteq DOMAIN answer
    BY DEF Answer, Failure, IsResult, Reasons
<1> HIDE DEF answer
<1>3. scored.ok = answer.ok /\ scored.error = answer.error
    BY <1>2 DEF Scored
<1>4. IsResult(scored)
    BY <1>2, <1>3 DEF IsResult
<1> QED
    BY <1>1, <1>4 DEF answer

LEMMA BeginTargetKeepsRecords ==
    ASSUME CommandsInv, RecordsInv, Open, BeginTarget,
           UNCHANGED <<migration, benching, reporting, kills>>
    PROVE  RecordsInv'
<1>1. /\ eval.step = "target" /\ Begin(EvalRow(command.config, Endpoints[eval.target]))
      /\ eval' = [eval EXCEPT !.step = "claim", !.request = 1, !.attempt = 0, !.results = <<>>]
      /\ UNCHANGED <<command, samples, sweep, reparse, opening>>
    BY DEF BeginTarget, given, migration, benching, reporting
<1>2. /\ TableInv /\ FilesInv /\ EvalsInv /\ CurrentInv /\ command.name = "agent"
      /\ sweep.step = "none" /\ reparse.left = {} /\ command \in AllCommands /\ ~Refused
    BY <1>1, OnlyEvaluation
<1> DEFINE row == EvalRow(command.config, Endpoints[eval.target])
<1>3. /\ row.id = Len(runs) + 1 /\ row.kind = "agent_eval" /\ row.status = "running"
      /\ "metrics" \in DOMAIN row /\ row.metrics = NoMetrics /\ row.config.requests = Requests
    BY NewRowIdentity
<1>4. Begin(row)
    BY <1>1
<1> HIDE DEF row
<1>5. /\ FilesInv'
      /\ Len(runs') = Len(runs) + 1 /\ DOMAIN runs' = 1..(Len(runs) + 1)
      /\ \A i \in DOMAIN runs :
             runs'[i] = runs[i] /\ files'[i] = files[i] /\ Mine(i)' = Mine(i)
      /\ runs'[Len(runs) + 1] = row /\ files'[Len(runs) + 1] = NoFiles
      /\ Mine(Len(runs) + 1) = {}
    BY <1>1, <1>2, <1>3, <1>4, BegunFiles
<1>6. DOMAIN runs = 1..Len(runs) /\ Len(runs) \in Nat
    BY <1>2, TableShape
<1>7. Len(Requests) \in Nat \ {0}
    BY <1>2, RequestsOfEvaluation
<1>8. DOMAIN eval = EvalFields
    BY <1>2 DEF CurrentInv, EvaluatesRow
<1>k. PICK k : k = Len(runs) + 1
    OBVIOUS
<1>9. Progress(eval', k, Requests, row, NoFiles, {})
    BY <1>1, <1>3, <1>7, <1>8, BeginProgress
<1>10. /\ DOMAIN eval' = EvalFields /\ eval'.step = "claim" /\ "claim" \in Evaluating
    BY <1>1, <1>8 DEF EvalFields, Evaluating
<1>11. Current' = k /\ Requests' = Requests /\ k \in DOMAIN runs'
    BY <1>1, <1>5, <1>6, <1>k DEF Current, Requests
<1>12. Mine(k)' = {}
    BY <1>1, <1>5, <1>k DEF Mine
<1>13. Accounted(k, row, NoFiles, {})
    BY <1>9, <1>10, ProgressAccounts
<1>14. EvalsInv'
    <2>1. \A i \in DOMAIN runs' : i \in DOMAIN runs \/ i = k
        BY <1>5, <1>6, <1>k
    <2>2. runs'[k] = row /\ files'[k] = NoFiles
        BY <1>5, <1>k
    <2>3. \A i \in DOMAIN runs' :
              \/ Accounted(i, runs'[i], files'[i], Mine(i)')
              \/ /\ i \in DOMAIN runs /\ runs'[i] = runs[i] /\ files'[i] = files[i]
                 /\ Mine(i)' = Mine(i)
        BY <1>5, <1>12, <1>13, <2>1, <2>2
    <2> QED
        BY <1>2, <2>3, EvalsStep
<1>15. EvaluatesRow'
    <2>1. runs'[k] = row /\ files'[k] = NoFiles
        BY <1>5, <1>k
    <2>2. Mine(Current)' = {}
        BY <1>11, <1>12 DEF Mine
    <2> QED
        BY <1>9, <1>10, <1>11, <2>1, <2>2 DEF EvaluatesRow
<1>16. CurrentInv'
    BY <1>1, <1>2, <1>15 DEF CurrentInv, SweepsRow, ReparsesRows, Waiting
<1> QED
    BY <1>5, <1>14, <1>16 DEF RecordsInv

\* Asking writes nothing.
LEMMA AskKeepsRecords ==
    ASSUME CommandsInv, RecordsInv, Ask, UNCHANGED <<migration, benching, reporting, kills>>
    PROVE  RecordsInv'
<1>1. /\ eval.step = "ask" /\ "ask" \in Evaluating /\ "response" \in Evaluating
      /\ UNCHANGED <<runs, files, samples, command, sweep, reparse, opening>>
    BY DEF Ask, Evaluating, table, given, migration, benching, reporting
<1>2. /\ DOMAIN eval = EvalFields
      /\ Progress(eval, Current, Requests, runs[Current], files[Current], Mine(Current))
    BY <1>1 DEF RecordsInv, CurrentInv, EvaluatesRow
<1>3. \/ eval' = [eval EXCEPT !.attempt = @ + 1]
      \/ \E result : IsResult(result) /\ eval' = Got(result)
    BY ResultsOfAsking DEF Ask
<1>4. /\ Progress(eval', Current, Requests, runs[Current], files[Current], Mine(Current))
      /\ eval'.step \in Evaluating /\ DOMAIN eval' = EvalFields
    <2>1. CASE eval' = [eval EXCEPT !.attempt = @ + 1]
        <3>1. Progress(eval', Current, Requests, runs[Current], files[Current], Mine(Current))
            BY <1>1, <1>2, <2>1, RetryProgress
        <3> QED
            BY <1>1, <1>2, <2>1, <3>1 DEF EvalFields
    <2>2. CASE \E result : IsResult(result) /\ eval' = Got(result)
        <3>1. PICK result : IsResult(result) /\ eval' = Got(result)
            BY <2>2
        <3>2. Progress(eval', Current, Requests, runs[Current], files[Current], Mine(Current))
            BY <1>1, <1>2, <3>1, ResultProgress DEF Got
        <3> QED
            BY <1>1, <1>2, <3>1, <3>2 DEF EvalFields, Got
    <2> QED
        BY <1>3, <2>1, <2>2
<1>5. files'[Current] = files[Current] /\ Mine(Current) = {s \in samples' : s.run = Current}
    BY <1>1 DEF Mine
<1> QED
    BY <1>1, <1>4, <1>5, EvaluationGoesOn

\* The current row has files, of which each step writes one.
LEMMA CurrentFiles ==
    ASSUME CommandsInv, RecordsInv, eval.step \in Evaluating
    PROVE  /\ DOMAIN eval = EvalFields /\ Current \in DOMAIN files
           /\ DOMAIN files[Current] = FileFields
           /\ Progress(eval, Current, Requests, runs[Current], files[Current], Mine(Current))
<1>1. TableInv /\ FilesInv /\ CurrentInv
    BY DEF CommandsInv, MigrationInv, RecordsInv
<1>2. DOMAIN files = DOMAIN runs
    BY <1>1, FilesShape
<1> QED
    BY <1>1, <1>2 DEF CurrentInv, EvaluatesRow, FilesInv

LEMMA ClaimArtifactKeepsRecords ==
    ASSUME CommandsInv, RecordsInv, ClaimArtifact,
           UNCHANGED <<migration, benching, reporting, kills>>
    PROVE  RecordsInv'
<1> DEFINE filed == [files[Current] EXCEPT !.claimed = @ + 1]
<1>1. /\ eval.step = "claim" /\ {"claim", "ask"} \subseteq Evaluating
      /\ eval' = [eval EXCEPT !.step = IF files[Current].claimed = 2 THEN "ask" ELSE "claim"]
      /\ files' = [files EXCEPT ![Current] = filed]
      /\ UNCHANGED <<runs, samples, command, sweep, reparse, opening>>
    BY DEF ClaimArtifact, Evaluating, given, migration, benching, reporting
<1>2. /\ DOMAIN eval = EvalFields /\ Current \in DOMAIN files
      /\ DOMAIN files[Current] = FileFields
      /\ Progress(eval, Current, Requests, runs[Current], files[Current], Mine(Current))
    BY <1>1, CurrentFiles
<1>3. Progress(eval', Current, Requests, runs[Current], filed, Mine(Current))
    BY <1>1, <1>2, ClaimProgress
<1>4. DOMAIN filed = FileFields
    BY <1>2
<1> HIDE DEF filed
<1>5. files'[Current] = filed /\ Mine(Current) = {s \in samples' : s.run = Current}
    BY <1>1, <1>2 DEF Mine
<1>6. eval'.step \in Evaluating /\ DOMAIN eval' = EvalFields
    BY <1>1, <1>2 DEF EvalFields
<1> QED
    BY <1>1, <1>3, <1>4, <1>5, <1>6, EvaluationGoesOn

LEMMA AppendResponseKeepsRecords ==
    ASSUME CommandsInv, RecordsInv, AppendResponse,
           UNCHANGED <<migration, benching, reporting, kills>>
    PROVE  RecordsInv'
<1> DEFINE filed == [files[Current] EXCEPT !.responses = Append(@, Last(eval.results))]
<1>1. /\ eval.step = "response" /\ {"response", "error", "sample"} \subseteq Evaluating
      /\ eval' = [eval EXCEPT !.step = IF Last(eval.results).error # "none" THEN "error"
                                       ELSE "sample"]
      /\ files' = [files EXCEPT ![Current] = filed]
      /\ UNCHANGED <<runs, samples, command, sweep, reparse, opening>>
    BY DEF AppendResponse, Evaluating, given, migration, benching, reporting
<1>2. /\ DOMAIN eval = EvalFields /\ Current \in DOMAIN files
      /\ DOMAIN files[Current] = FileFields
      /\ Progress(eval, Current, Requests, runs[Current], files[Current], Mine(Current))
    BY <1>1, CurrentFiles
<1>3. Progress(eval', Current, Requests, runs[Current], filed, Mine(Current))
    BY <1>1, <1>2, ResponseProgress
<1>4. DOMAIN filed = FileFields
    BY <1>2
<1> HIDE DEF filed
<1>5. files'[Current] = filed /\ Mine(Current) = {s \in samples' : s.run = Current}
    BY <1>1, <1>2 DEF Mine
<1>6. eval'.step \in Evaluating /\ DOMAIN eval' = EvalFields
    BY <1>1, <1>2 DEF EvalFields
<1> QED
    BY <1>1, <1>3, <1>4, <1>5, <1>6, EvaluationGoesOn

LEMMA AppendErrorKeepsRecords ==
    ASSUME CommandsInv, RecordsInv, AppendError,
           UNCHANGED <<migration, benching, reporting, kills>>
    PROVE  RecordsInv'
<1> DEFINE filed == [files[Current] EXCEPT !.errors = Append(@, Last(eval.results).error)]
<1>1. /\ eval.step = "error" /\ {"error", "sample"} \subseteq Evaluating
      /\ eval' = [eval EXCEPT !.step = "sample"]
      /\ files' = [files EXCEPT ![Current] = filed]
      /\ UNCHANGED <<runs, samples, command, sweep, reparse, opening>>
    BY DEF AppendError, Evaluating, given, migration, benching, reporting
<1>2. /\ DOMAIN eval = EvalFields /\ Current \in DOMAIN files
      /\ DOMAIN files[Current] = FileFields
      /\ Progress(eval, Current, Requests, runs[Current], files[Current], Mine(Current))
    BY <1>1, CurrentFiles
<1>3. Progress(eval', Current, Requests, runs[Current], filed, Mine(Current))
    BY <1>1, <1>2, ErrorProgress
<1>4. DOMAIN filed = FileFields
    BY <1>2
<1> HIDE DEF filed
<1>5. files'[Current] = filed /\ Mine(Current) = {s \in samples' : s.run = Current}
    BY <1>1, <1>2 DEF Mine
<1>6. eval'.step \in Evaluating /\ DOMAIN eval' = EvalFields
    BY <1>1, <1>2 DEF EvalFields
<1> QED
    BY <1>1, <1>3, <1>4, <1>5, <1>6, EvaluationGoesOn

LEMMA RecordSampleKeepsRecords ==
    ASSUME CommandsInv, RecordsInv, RecordSample,
           UNCHANGED <<migration, benching, reporting, kills>>
    PROVE  RecordsInv'
<1> DEFINE sample == [run |-> Current, number |-> eval.request, result |-> Last(eval.results)]
<1>1. /\ eval.step = "sample" /\ {"sample", "ask", "measure"} \subseteq Evaluating
      /\ eval' = IF eval.request < Len(Requests)
                 THEN [eval EXCEPT !.step = "ask", !.request = @ + 1]
                 ELSE [eval EXCEPT !.step = "measure"]
      /\ samples' = samples \cup {sample}
      /\ UNCHANGED <<runs, files, command, sweep, reparse, opening>>
    BY DEF RecordSample, Evaluating, table, given, migration, benching, reporting
<1>2. /\ DOMAIN eval = EvalFields
      /\ Progress(eval, Current, Requests, runs[Current], files[Current], Mine(Current))
    BY <1>1, CurrentFiles
<1>3. Progress(eval', Current, Requests, runs[Current], files[Current], Mine(Current) \cup {sample})
    BY <1>1, <1>2, SampleProgress
<1>4. sample.run = Current
    OBVIOUS
<1> HIDE DEF sample
<1>5. /\ files'[Current] = files[Current]
      /\ Mine(Current) \cup {sample} = {s \in samples' : s.run = Current}
    BY <1>1, <1>4 DEF Mine
<1>6. eval'.step \in Evaluating /\ DOMAIN eval' = EvalFields
    <2>1. CASE eval.request < Len(Requests)
        BY <1>1, <1>2, <2>1 DEF EvalFields
    <2>2. CASE ~(eval.request < Len(Requests))
        BY <1>1, <1>2, <2>2 DEF EvalFields
    <2> QED
        BY <2>1, <2>2
<1> QED
    BY <1>1, <1>3, <1>4, <1>5, <1>6, EvaluationGoesOn

LEMMA MeasureKeepsRecords ==
    ASSUME CommandsInv, RecordsInv, Measure, UNCHANGED <<migration, benching, reporting, kills>>
    PROVE  RecordsInv'
<1> DEFINE filed == [files[Current] EXCEPT !.measured = TRUE]
<1>1. /\ eval.step = "measure" /\ {"measure", "complete"} \subseteq Evaluating
      /\ eval' = [eval EXCEPT !.step = "complete"]
      /\ files' = [files EXCEPT ![Current] = filed]
      /\ UNCHANGED <<runs, samples, command, sweep, reparse, opening>>
    BY DEF Measure, Evaluating, given, migration, benching, reporting
<1>2. /\ DOMAIN eval = EvalFields /\ Current \in DOMAIN files
      /\ DOMAIN files[Current] = FileFields
      /\ Progress(eval, Current, Requests, runs[Current], files[Current], Mine(Current))
    BY <1>1, CurrentFiles
<1>3. Progress(eval', Current, Requests, runs[Current], filed, Mine(Current))
    BY <1>1, <1>2, MeasureProgress
<1>4. DOMAIN filed = FileFields
    BY <1>2
<1> HIDE DEF filed
<1>5. files'[Current] = filed /\ Mine(Current) = {s \in samples' : s.run = Current}
    BY <1>1, <1>2 DEF Mine
<1>6. eval'.step \in Evaluating /\ DOMAIN eval' = EvalFields
    BY <1>1, <1>2 DEF EvalFields
<1> QED
    BY <1>1, <1>3, <1>4, <1>5, <1>6, EvaluationGoesOn

LEMMA CompleteKeepsRecords ==
    ASSUME CommandsInv, RecordsInv, Complete, UNCHANGED <<migration, benching, reporting, kills>>
    PROVE  RecordsInv'
<1> DEFINE metrics == Counted(eval.results)
           ok == metrics[<<"error_count">>] = 0 /\ eval.results # <<>>
           status == IF ok THEN "ok" ELSE "failed"
<1>1. /\ eval.step = "complete" /\ "complete" \in Evaluating
      /\ runs' = Ended(status, metrics)
      /\ eval' = IF ok THEN NextTarget ELSE EvalRaised
      /\ UNCHANGED <<files, samples, command, sweep, reparse, opening>>
    BY DEF Complete, Evaluating, given, migration, benching, reporting
<1>2. DOMAIN eval = EvalFields
    BY <1>1, CurrentFiles
<1>3. eval'.step \in {"target", "raised"} /\ DOMAIN eval' = EvalFields
    BY <1>1, <1>2, EvalSteps DEF EvalFields
<1>4. Outcome(eval, status, metrics)
    BY <1>1 DEF Outcome
<1> HIDE DEF metrics, ok, status
<1> QED
    BY <1>1, <1>3, <1>4, EvaluationEnds

\* Ctrl-C
LEMMA InterruptEvalKeepsRecords ==
    ASSUME CommandsInv, RecordsInv, InterruptEval,
           UNCHANGED <<migration, benching, reporting, kills>>
    PROVE  RecordsInv'
<1>1. /\ eval.step \notin {"none", "ok", "raised"}
      /\ \/ eval.step # "target" /\ runs' = Ended("failed", NoMetrics)
         \/ UNCHANGED runs
      /\ eval' = [eval EXCEPT !.step = "raised"]
      /\ UNCHANGED <<files, samples, command, sweep, reparse, opening>>
    BY DEF InterruptEval, given, migration, benching, reporting
<1>2. DOMAIN eval = EvalFields /\ eval.step \in {"target"} \cup Evaluating
    BY <1>1 DEF RecordsInv, CurrentInv, EvaluatesRow
<1>3. eval'.step = "raised" /\ DOMAIN eval' = EvalFields
    BY <1>1, <1>2 DEF EvalFields
<1>4. CASE UNCHANGED runs
    <2>1. command.name = "agent"
        BY <1>1 DEF CommandsInv, ExecutingInv
    <2> QED
        BY <1>1, <1>3, <1>4, <2>1, EvaluationIsBetween
<1>5. CASE eval.step # "target" /\ runs' = Ended("failed", NoMetrics)
    <2>1. runs' = Ended("failed", NoMetrics) /\ eval.step \in Evaluating
        BY <1>1, <1>2, <1>5
    <2>2. Outcome(eval, "failed", NoMetrics)
        BY DEF Outcome
    <2> QED
        BY <1>1, <1>3, <2>1, <2>2, EvaluationEnds
<1> QED
    BY <1>1, <1>4, <1>5

LEMMA BetweenKeepsRecords ==
    ASSUME CommandsInv, RecordsInv, StartEval \/ EndEval \/ LeaveEval,
           UNCHANGED <<migration, benching, reporting, kills>>
    PROVE  RecordsInv'
<1>1. /\ UNCHANGED <<runs, files, samples, sweep, reparse, opening>>
      /\ command' = command \/ command' = NoCommand
    BY DEF StartEval, EndEval, LeaveEval, Over, table, given, migration, benching, reporting
<1>2. DOMAIN eval = EvalFields
    BY DEF RecordsInv, CurrentInv, EvaluatesRow
<1>3. command.name = "agent"
    BY DEF StartEval, EndEval, LeaveEval, CommandsInv, ExecutingInv
<1>4. eval'.step \in {"none", "target", "ok", "raised"} /\ DOMAIN eval' = EvalFields
    BY <1>2, NothingIsNoEval DEF StartEval, EndEval, LeaveEval, EvalFields
<1> QED
    BY <1>1, <1>3, <1>4, EvaluationIsBetween

LEMMA EvaluateKeepsRecords ==
    ASSUME CommandsInv, RecordsInv, Open, Evaluate,
           UNCHANGED <<migration, benching, reporting, kills>>
    PROVE  RecordsInv'
    BY BeginTargetKeepsRecords, ClaimArtifactKeepsRecords, AskKeepsRecords, AppendResponseKeepsRecords,
       AppendErrorKeepsRecords, RecordSampleKeepsRecords, MeasureKeepsRecords,
       CompleteKeepsRecords, InterruptEvalKeepsRecords, BetweenKeepsRecords DEF Evaluate

-----------------------------------------------------------------------------
(* The records through reports and repairs                                   *)

\* A report has no evaluation and no sweep under way.
LEMMA OnlyReport ==
    ASSUME CommandsInv, Report, UNCHANGED <<migration, benching, evaluating, kills>>
    PROVE  /\ sweep.step = "none" /\ eval.step = "none" /\ command # NoCommand
           /\ UNCHANGED <<files, samples, sweep, eval, opening>>
           /\ command' = command \/ command' = NoCommand
<1>1. ExecutingInv
    BY DEF CommandsInv
<1>2. command.name \in {"compare", "reparse", "backfill"}
    BY <1>1 DEF Report, Compare, LeaveCompare, StartReparse, ReparseRow, LeaveReparse, Backfill,
                ExecutingInv
<1>3. sweep.step = "none" /\ eval.step = "none" /\ command # NoCommand
    BY <1>1, <1>2 DEF ExecutingInv, NoCommand
<1>4. UNCHANGED files /\ (command' = command \/ command' = NoCommand)
    BY DEF Report, Compare, LeaveCompare, StartReparse, ReparseRow, LeaveReparse, Backfill,
           table, given, Over
<1> QED
    BY <1>3, <1>4 DEF migration, benching, evaluating

\* Rows keep what identifies them and what the evaluations say.
LEMMA ReportStep ==
    ASSUME CommandsInv, RecordsInv, Open, Report,
           UNCHANGED <<migration, benching, evaluating, kills>>, ReparsesRows', EvalsInv',
           \A i \in DOMAIN runs : runs'[i].id = runs[i].id
    PROVE  RecordsInv'
<1>1. /\ sweep.step = "none" /\ eval.step = "none"
      /\ UNCHANGED <<files, samples, sweep, eval, opening>>
      /\ command' = command \/ command' = NoCommand
    BY OnlyReport
<1>2. TableInv /\ FilesInv /\ CurrentInv
    BY DEF CommandsInv, MigrationInv, RecordsInv
<1>3. Len(runs') = Len(runs) /\ DOMAIN runs' = DOMAIN runs
    BY <1>2, ReportRows
<1>4. FilesInv'
    BY <1>1, <1>2, <1>3, FilesStep DEF FilesInv, IsSequence
<1>5. CurrentInv'
    BY <1>1, <1>2 DEF CurrentInv, SweepsRow, EvaluatesRow, Waiting, Evaluating
<1> QED
    BY <1>4, <1>5 DEF RecordsInv

LEMMA ReadingKeepsRecords ==
    ASSUME CommandsInv, RecordsInv, Open, Report,
           UNCHANGED <<migration, benching, evaluating, kills>>,
           Compare \/ LeaveCompare \/ StartReparse \/ LeaveReparse
    PROVE  RecordsInv'
<1>1. FilesInv /\ EvalsInv /\ CurrentInv /\ UNCHANGED runs
    BY DEF RecordsInv, Compare, LeaveCompare, StartReparse, LeaveReparse, table
<1>2. UNCHANGED <<files, samples, opening>>
    BY OnlyReport
<1>3. EvalsInv'
    BY <1>1, <1>2, NothingWritten
<1>4. ReparsesRows'
    <2>1. CASE UNCHANGED reparse \/ LeaveReparse
        BY <1>1, <1>2, <2>1 DEF CurrentInv, ReparsesRows, Open, LeaveReparse, NoReparse
    <2>2. CASE StartReparse
        <3>1. /\ DOMAIN reparse' = {"step", "left", "errors"} /\ reparse'.step = "rows"
              /\ reparse'.left \subseteq Range(runs)
            BY <2>2 DEF StartReparse, NoReparse
        <3>2. \A row \in Range(runs) : row.id \in DOMAIN runs /\ runs[row.id].kind = row.kind
            BY <1>1 DEF FilesInv, Range
        <3> QED
            BY <1>1, <1>2, <3>1, <3>2 DEF ReparsesRows, Open
    <2> QED
        BY <2>1, <2>2 DEF Compare, LeaveCompare
<1> QED
    BY <1>1, <1>3, <1>4, ReportStep

\* The metrics of an evaluation are made anew of its responses or left alone.
LEMMA ReparseRowKeepsRecords ==
    ASSUME CommandsInv, RecordsInv, Open, ReparseRow,
           UNCHANGED <<migration, benching, evaluating, kills>>
    PROVE  RecordsInv'
<1>1. PICK row \in reparse.left :
          LET result == ReparseRun(row)
              replace == result.how = "parsed" /\ (result.metrics # NoMetrics \/ command.force)
          IN  /\ runs' = IF replace THEN [runs EXCEPT ![row.id].metrics = result.metrics] ELSE runs
              /\ reparse' = [reparse EXCEPT
                                !.left = @ \ {row},
                                !.errors = @ + (IF result.how = "error" THEN 1 ELSE 0)]
    BY DEF ReparseRow
<1>2. Report
    BY DEF Report
<1>3. /\ TableInv /\ LegacyInv /\ FilesInv /\ EvalsInv /\ ReparsesRows
      /\ UNCHANGED <<files, samples, opening>>
    BY <1>2, OnlyReport DEF CommandsInv, MigrationInv, RecordsInv, CurrentInv
<1> DEFINE k == row.id
           parsed == ReparseRun(row)
<1>4. k \in DOMAIN runs /\ runs[k].kind = row.kind
    BY <1>3 DEF ReparsesRows
<1>5. \/ runs' = runs
      \/ parsed.how = "parsed" /\ runs' = [runs EXCEPT ![k].metrics = parsed.metrics]
    BY <1>1
<1>6. reparse' = [reparse EXCEPT !.left = @ \ {row}, !.errors = reparse'.errors]
    BY <1>1, <1>3 DEF ReparsesRows
<1>7. RowsKept /\ DOMAIN runs' = DOMAIN runs
    BY <1>2, <1>3, ReportRows
<1>8. ReparsesRows'
    <2>1. /\ DOMAIN reparse' = {"step", "left", "errors"} /\ reparse'.step = reparse.step
          /\ reparse'.left \subseteq reparse.left
        BY <1>3, <1>6 DEF ReparsesRows
    <2> QED
        BY <1>3, <1>7, <2>1 DEF ReparsesRows, RowsKept, Open
<1>9. \A i : Mine(i)' = Mine(i)
    BY <1>3 DEF Mine
<1>10. CASE runs' = runs
    BY <1>2, <1>3, <1>8, <1>10, NothingWritten, ReportStep
<1>11. CASE parsed.how = "parsed" /\ runs' = [runs EXCEPT ![k].metrics = parsed.metrics]
    <2>1. /\ \A i \in DOMAIN runs : i # k => runs'[i] = runs[i]
          /\ runs'[k] = [runs[k] EXCEPT !.metrics = parsed.metrics]
        BY <1>4, <1>11
    <2>2. runs'[k].id = runs[k].id
        BY <2>1
    <2>3. ASSUME IsEval(runs'[k])
          PROVE  Accounted(k, runs'[k], files[k], Mine(k))
        <3>1. IsEval(runs[k])
            BY <1>4, <1>7, <2>3 DEF IsEval, RowsKept
        <3>2. k \notin DOMAIN Legacy
            BY <1>3, <3>1, LegacyIsNoEval
        <3>3. Accounted(k, runs[k], files[k], Mine(k))
            BY <1>3, <1>4, <3>1 DEF EvalsInv
        <3>4. /\ files[k].measured \/ ~HasMeasurement(files[k])
              /\ parsed.metrics = Counted(files[k].responses)
            <4>1. parsed = ReparsedEval(files[k])
                BY <1>4, <3>1, <3>2 DEF ReparseRun, IsLegacy, IsEval
            <4> HIDE DEF k, parsed
            <4> QED
                BY <1>11, <4>1 DEF ReparsedEval, NotReparsed
        <3>5. /\ "metrics" \in DOMAIN runs'[k] /\ runs'[k].config = runs[k].config
              /\ runs'[k].metrics = parsed.metrics /\ runs'[k].status = runs[k].status
            BY <2>1, <3>3 DEF Accounted
        <3>6. runs[k].status = "ok" =>
                  /\ files[k].measured /\ ~files[k].torn /\ files[k].errors = <<>>
                  /\ \A j \in DOMAIN files[k].responses : files[k].responses[j].ok
            BY <3>3 DEF Accounted
        <3> HIDE DEF k, parsed
        <3> QED
            BY <3>3, <3>4, <3>5, <3>6, OtherRecordAccounts DEF HasMetrics
    <2> HIDE DEF k, parsed
    <2>4. EvalsInv'
        BY <1>3, <1>7, <1>9, <2>1, <2>3, EvalsStep
    <2> QED
        BY <1>2, <1>8, <2>1, <2>2, <2>4, ReportStep
<1> HIDE DEF parsed
<1> QED
    BY <1>5, <1>10, <1>11

LEMMA BackfillKeepsRecords ==
    ASSUME CommandsInv, RecordsInv, Open, Backfill,
           UNCHANGED <<migration, benching, evaluating, kills>>
    PROVE  RecordsInv'
<1>1. Report
    BY DEF Report
<1>2. /\ TableInv /\ FilesInv /\ EvalsInv /\ ReparsesRows
      /\ UNCHANGED <<files, samples, opening>>
    BY <1>1, OnlyReport DEF CommandsInv, MigrationInv, RecordsInv, CurrentInv
<1>3. /\ UNCHANGED reparse /\ DOMAIN runs' = DOMAIN runs
      /\ \A i \in DOMAIN runs :
             runs'[i] = runs[i] \/ runs'[i] = [runs[i] EXCEPT !.system = command.host]
    BY DEF Backfill, reporting
<1>4. \A i \in DOMAIN runs : runs'[i].id = runs[i].id
    BY <1>2, <1>3 DEF TableInv, RowFields
<1>5. RowsKept
    BY <1>1, <1>2, ReportRows
<1>6. ReparsesRows'
    BY <1>2, <1>3, <1>5 DEF ReparsesRows, RowsKept, Open
<1>7. \A i : Mine(i)' = Mine(i)
    BY <1>2 DEF Mine
<1>8. ASSUME NEW i \in DOMAIN runs', IsEval(runs'[i])
      PROVE  Accounted(i, runs'[i], files'[i], Mine(i)')
    <2>1. i \in DOMAIN runs /\ IsEval(runs[i])
        BY <1>3, <1>5, <1>8 DEF IsEval, RowsKept
    <2>2. Accounted(i, runs[i], files[i], Mine(i))
        BY <1>2, <2>1 DEF EvalsInv
    <2>3. /\ "metrics" \in DOMAIN runs[i]
          /\ runs[i].metrics # NoMetrics => HasMetrics(runs[i], files[i])
          /\ runs[i].status = "ok" =>
                 /\ files[i].measured /\ ~files[i].torn /\ files[i].errors = <<>>
                 /\ \A j \in DOMAIN files[i].responses : files[i].responses[j].ok
        BY <2>2 DEF Accounted
    <2>4. /\ "metrics" \in DOMAIN runs'[i] /\ runs'[i].config = runs[i].config
          /\ runs'[i].metrics = runs[i].metrics /\ runs'[i].status = runs[i].status
        <3>1. RowFields \subseteq DOMAIN runs[i]
            BY <1>2, <2>1 DEF TableInv
        <3> QED
            BY <1>3, <2>1, <2>3, <3>1 DEF RowFields
    <2>5. Accounted(i, runs'[i], files[i], Mine(i))
        BY <2>2, <2>3, <2>4, OtherRecordAccounts DEF HasMetrics
    <2> QED
        BY <1>2, <1>7, <2>5
<1>9. EvalsInv'
    BY <1>8 DEF EvalsInv
<1> QED
    BY <1>1, <1>4, <1>6, <1>9, ReportStep

LEMMA ReportKeepsRecords ==
    ASSUME CommandsInv, RecordsInv, Open, Report,
           UNCHANGED <<migration, benching, evaluating, kills>>
    PROVE  RecordsInv'
    BY ReadingKeepsRecords, ReparseRowKeepsRecords, BackfillKeepsRecords DEF Report

-----------------------------------------------------------------------------
(* Every step keeps the records.                                             *)

LEMMA InitGivesRecordsInv == Init => RecordsInv
<1> SUFFICES ASSUME Init PROVE RecordsInv
    OBVIOUS
<1>1. /\ runs = Legacy /\ files = [i \in DOMAIN Legacy |-> NoFiles]
      /\ command = NoCommand /\ sweep = NoSweep /\ eval = NoEval /\ samples = {}
      /\ reparse = NoReparse
    BY DEF Init, MigrationInit
<1>2. Len(Legacy) \in Nat /\ DOMAIN Legacy = 1..Len(Legacy)
    BY LegacyAssumption
<1>3. FilesInv
    <2> DEFINE n == Len(Legacy)
               made == [i \in 1..n |-> NoFiles]
    <2>1. n \in Nat /\ files = made /\ DOMAIN runs = 1..n /\ Len(runs) = n
        BY <1>1, <1>2
    <2> HIDE DEF n
    <2>2. IsSequence(made) /\ Len(made) = n /\ \A i \in 1..n : made[i] = NoFiles
        <3>1. made = [i \in 1..n |-> made[i]]
            OBVIOUS
        <3> QED
            BY <2>1, <3>1, FunctionIsSequence DEF IsSequence
    <2> HIDE DEF made
    <2>3. DOMAIN NoFiles = FileFields
        BY DEF NoFiles, FileFields
    <2>4. \A i \in DOMAIN runs : runs[i].id = i
        BY <1>1, LegacyAssumption
    <2> QED
        BY <1>1, <2>1, <2>2, <2>3, <2>4 DEF FilesInv
<1>4. CurrentInv
    BY <1>1, NothingIsNoEval DEF CurrentInv, SweepsRow, EvaluatesRow, ReparsesRows, NoSweep,
       NoReparse, Waiting, Evaluating
<1>5. EvalsInv
    <2>1. \A i \in DOMAIN runs : ~IsEval(runs[i])
        BY <1>1, OldIsNoEval
    <2> QED
        BY <2>1 DEF EvalsInv
<1> QED
    BY <1>3, <1>4, <1>5 DEF RecordsInv

LEMMA NextKeepsRecordsInv ==
    CommandsInv /\ CommandsInv' /\ RecordsInv /\ [Next]_vars => RecordsInv'
<1> SUFFICES ASSUME CommandsInv, CommandsInv', RecordsInv, [Next]_vars PROVE RecordsInv'
    OBVIOUS
<1>1. CASE UNCHANGED vars
    <2>1. UNCHANGED <<runs, files, samples, command, opening, sweep, eval, reparse>>
        BY <1>1 DEF vars, table, given, migration, benching, evaluating, reporting
    <2>2. FilesInv' /\ EvalsInv' /\ Current' = Current
        BY <2>1, NothingWritten DEF RecordsInv
    <2>3. Requests' = Requests /\ Mine(Current)' = Mine(Current)
        BY <2>1, <2>2 DEF Requests, Mine
    <2>4. CurrentInv'
        BY <2>1, <2>2, <2>3 DEF RecordsInv, CurrentInv, SweepsRow, EvaluatesRow, ReparsesRows, Open
    <2> QED
        BY <2>2, <2>4 DEF RecordsInv
<1>2. CASE Next
    BY <1>2, GiveKeepsRecords, RefuseKeepsRecords, KillKeepsRecords, MigrateKeepsRecords,
       BenchKeepsRecords, EvaluateKeepsRecords, ReportKeepsRecords DEF Next
<1> QED
    BY <1>1, <1>2

LEMMA RecordsInvHolds == Spec => []RecordsInv
    BY CommandsInvHolds, InitGivesRecordsInv, NextKeepsRecordsInv, PTL DEF Spec

\* What the records of one evaluation say of each other
Agrees(i, row, file, mine) ==
    LET responses == file.responses
        wrong == Chosen(responses, {j \in DOMAIN responses : ~responses[j].ok})
        errors == [j \in DOMAIN wrong |-> wrong[j].error]
    IN  /\ Cardinality(mine) \in {Len(responses) - 1, Len(responses)}
        /\ \A s \in mine : s.number <= Len(responses) /\ s.result = responses[s.number]
        /\ Len(errors) - Len(file.errors) \in {0, 1}
        /\ file.errors = SubSeq(errors, 1, Len(file.errors))
        /\ file.measured => Len(responses) = Len(row.config.requests)
        /\ ~HasMeasurement(file) => responses = <<>>
        /\ row.metrics # NoMetrics =>
               /\ file.measured \/ ~HasMeasurement(file)
               /\ row.metrics = Counted(responses)
        /\ row.status = "ok" =>
               /\ file.measured /\ ~file.torn /\ file.errors = <<>>
               /\ \A r \in Range(responses) : r.ok

LEMMA PrefixOfAtMostOneMore ==
    ASSUME NEW S, NEW s \in Seq(S), NEW t, t = s \/ \E e \in S : t = Append(s, e)
    PROVE  Len(t) - Len(s) \in {0, 1} /\ s = SubSeq(t, 1, Len(s))
<1> DEFINE n == Len(s)
<1>1. n \in Nat /\ DOMAIN s = 1..n /\ s = [j \in 1..n |-> s[j]]
    OBVIOUS
<1>2. t \in Seq(S) /\ Len(t) \in {n, n + 1} /\ \A j \in 1..n : t[j] = s[j]
    <2>1. CASE t = s
        BY <2>1, <1>1
    <2>2. CASE \E e \in S : t = Append(s, e)
        <3>1. PICK e \in S : t = Append(s, e)
            BY <2>2
        <3>2. IsSequence(s)
            BY SequenceOfItsElements DEF IsSequence
        <3>3. Append(s, e) \in Seq(S)
            BY <3>1
        <3> QED
            BY <3>1, <3>2, <3>3, AppendIsSequence
    <2> QED
        BY <2>1, <2>2
<1>3. SubSeq(t, 1, n) = [j \in 1..n |-> t[j]]
    BY <1>1, <1>2
<1> HIDE DEF n
<1>4. SubSeq(t, 1, n) = s
    BY <1>1, <1>2, <1>3
<1>5. Len(t) - n \in {0, 1}
    BY <1>1, <1>2
<1> QED
    BY <1>4, <1>5 DEF n

LEMMA AccountedAgrees ==
    ASSUME NEW i, NEW row, NEW file, NEW mine, Accounted(i, row, file, mine)
    PROVE  Agrees(i, row, file, mine)
<1> DEFINE responses == file.responses
           wrong == Chosen(responses, {j \in DOMAIN responses : ~responses[j].ok})
           errors == [j \in DOMAIN wrong |-> wrong[j].error]
<1>1. IsResults(responses) /\ file.errors \in Seq(Reasons)
    BY DEF Accounted
<1>2. errors = ErrorsOf(responses)
    BY DEF ErrorsOf, Wrong
<1>3. PICK m \in {Len(responses) - 1, Len(responses)} :
          m >= 0 /\ mine = SamplesOf(i, responses, m)
    BY DEF Accounted
<1>4. Len(responses) \in Nat /\ m \in Nat /\ m <= Len(responses)
    BY <1>1, <1>3 DEF IsResults, IsSequence
<1>5. Cardinality(mine) \in {Len(responses) - 1, Len(responses)}
    BY <1>3, <1>4, NumberOfSamples
<1>6. \A s \in mine : s.number <= Len(responses) /\ s.result = responses[s.number]
    BY <1>3, <1>4 DEF SamplesOf
<1>7. /\ Len(errors) - Len(file.errors) \in {0, 1}
      /\ file.errors = SubSeq(errors, 1, Len(file.errors))
    <2>1. errors = file.errors \/ \E e \in Reasons : errors = Append(file.errors, e)
        BY <1>2 DEF Accounted
    <2> HIDE DEF errors
    <2> QED
        BY <1>1, <2>1, PrefixOfAtMostOneMore
<1>8. /\ file.measured => Len(responses) = Len(row.config.requests)
      /\ ~HasMeasurement(file) => responses = <<>>
      /\ row.metrics # NoMetrics =>
             /\ file.measured \/ ~HasMeasurement(file)
             /\ row.metrics = Counted(responses)
    BY DEF Accounted, HasMetrics
<1>9. row.status = "ok" =>
          /\ file.measured /\ ~file.torn /\ file.errors = <<>>
          /\ \A r \in Range(responses) : r.ok
    BY DEF Accounted, Range
<1> QED
    BY <1>5, <1>6, <1>7, <1>8, <1>9 DEF Agrees

\* Wherever an evaluation was cut off, killed or interrupted, and whatever was done to
\* the database since, its records agree: the samples of its run are its responses, of
\* which the last may not have become one, its errors are those of the responses, the
\* metrics it has are what a reparse makes of its files and are of every request, or of
\* none when it was interrupted before it asked, and it is ok only if every request was
\* answered with some text (benchmarks/agent/runner.py and parser.py).
THEOREM EvaluationRecordsAgree == Spec => []AgentRecordsAgree
<1>1. RecordsInv => AgentRecordsAgree
    <2> SUFFICES ASSUME RecordsInv PROVE AgentRecordsAgree
        OBVIOUS
    <2>1. \A i \in DOMAIN runs : IsEval(runs[i]) => Accounted(i, runs[i], files[i], Mine(i))
        BY DEF RecordsInv, EvalsInv
    <2>2. \A i \in DOMAIN runs : IsEval(runs[i]) => Agrees(i, runs[i], files[i], Mine(i))
        BY <2>1, AccountedAgrees
    <2> QED
        BY <2>2, Zenon DEF Agrees, AgentRecordsAgree, IsEval, Mine
<1> QED
    BY <1>1, RecordsInvHolds, PTL

-----------------------------------------------------------------------------
(* The inductive invariant: the rows of a sweep                              *)

\* The trials of the first n that have a command line
BuiltOf(trials, n) == Built(SubSeq(trials, 1, n))

\* A row that is of a trial, and one whose session has recorded its outcome
IsOf(row, trial) ==
    /\ row.config.params = trial.params /\ row.config.model = trial.model.name
    /\ "metrics" \in DOMAIN row
IsOver(row) == row.status # "running"

\* The rows of a table after the first `before` ones are of the trials in `built`, and
\* those of the first k are over, or even ok.
AreOf(rows, before, built, k) ==
    /\ Len(rows) = before + Len(built)
    /\ \A i \in 1..Len(built) : IsOf(rows[before + i], built[i])
    /\ \A i \in 1..k : IsOver(rows[before + i])
AreOk(rows, before, k) == \A i \in 1..k : rows[before + i].status = "ok"

\* A sweep has run every trial of the first n, of which the rows of k are over, and
\* every one was ok.
Perfect(rows, before, built, n, k) == Len(built) = n /\ AreOk(rows, before, k)

Running == {"starting"} \cup Waiting

\* Between two trials, while the session of one is open, and when the sweep is over
BetweenTrials(sw, rows, trials, keep_going) ==
    LET n == sw.next - 1
        built == BuiltOf(trials, n)
        before == sw.first - 1
    IN  /\ AreOf(rows, before, built, Len(built))
        /\ sw.failures = <<>> <=> Perfect(rows, before, built, n, Len(built))
        /\ keep_going \/ sw.failures = <<>>
InTrial(sw, rows, trials, keep_going) ==
    LET n == sw.next
        built == BuiltOf(trials, n)
        before == sw.first - 1
    IN  /\ n <= Len(trials) /\ Len(built) > 0
        /\ AreOf(rows, before, built, Len(built) - 1)
        /\ sw.failures = <<>> <=> Perfect(rows, before, built, n, Len(built) - 1)
        /\ keep_going \/ sw.failures = <<>>
AfterTrials(sw, rows, trials, keep_going, n) ==
    LET built == BuiltOf(trials, n)
        before == sw.first - 1
    IN  /\ n \in {sw.next - 1, sw.next} /\ n <= Len(trials)
        /\ AreOf(rows, before, built, IF sw.step = "interrupted" THEN Len(built) - 1
                                      ELSE Len(built))
        /\ sw.step = "ok" => Perfect(rows, before, built, Len(trials), Len(built))
        /\ sw.step = "raised" => ~Perfect(rows, before, built, Len(trials), Len(built))
        /\ keep_going \/ AreOk(rows, before, Len(built) - 1)

SweepProgress(sw, rows, trials, keep_going) ==
    /\ sw.first \in Nat \ {0} /\ sw.next \in 1..(Len(trials) + 1)
    /\ IsSequence(sw.failures)
    /\ sw.step = "next" => BetweenTrials(sw, rows, trials, keep_going)
    /\ sw.step \in Running => InTrial(sw, rows, trials, keep_going)
    /\ sw.step \in {"ok", "raised", "interrupted"} =>
           \E n \in Nat : AfterTrials(sw, rows, trials, keep_going, n)

SweepFields == {"step", "next", "failures", "first"}
SweepInv ==
    /\ DOMAIN sweep = SweepFields
    /\ sweep.step # "none" => SweepProgress(sweep, runs, Trials, command.keep_going)

-----------------------------------------------------------------------------
(* The trials of a sweep and those that have a command line                  *)

LEMMA PrefixOfTrials ==
    ASSUME NEW trials, IsSequence(trials), NEW n \in 0..Len(trials)
    PROVE  /\ n \in Nat /\ Len(trials) \in Nat
           /\ Len(SubSeq(trials, 1, n)) = n
           /\ \A i \in 1..n : SubSeq(trials, 1, n)[i] = trials[i]
           /\ SubSeq(trials, 1, n) \in Seq({trials[i] : i \in DOMAIN trials})
           /\ DOMAIN SubSeq(trials, 1, n) = 1..n
<1> DEFINE S == {trials[i] : i \in DOMAIN trials}
<1>1. trials \in Seq(S)
    BY DEF IsSequence
<1> HIDE DEF S
<1>2. n \in Nat /\ Len(trials) \in Nat /\ n <= Len(trials)
    BY <1>1
<1>3. SubSeq(trials, 1, n) = [i \in 1..n |-> trials[i]]
    BY <1>1, <1>2
<1>4. SubSeq(trials, 1, n) \in Seq(S)
    BY <1>1, <1>2
<1> DEFINE p == SubSeq(trials, 1, n)
<1>5. Len(p) = n /\ DOMAIN p = 1..n
    BY <1>2, <1>3, <1>4
<1> QED
    BY <1>2, <1>3, <1>4, <1>5 DEF S

LEMMA BuiltOfNone ==
    ASSUME NEW trials, IsSequence(trials)
    PROVE  BuiltOf(trials, 0) = <<>>
<1>1. 0 \in 0..Len(trials)
    BY DEF IsSequence
<1>2. Len(SubSeq(trials, 1, 0)) = 0
    BY <1>1, PrefixOfTrials
<1> DEFINE p == SubSeq(trials, 1, 0)
<1> HIDE DEF p
<1>3. Built(p) = <<>>
    BY <1>2, NothingIsChosen DEF Built, p
<1> QED
    BY <1>3 DEF BuiltOf, p

LEMMA BuiltOfMore ==
    ASSUME NEW trials, IsSequence(trials), NEW n \in Nat, n + 1 <= Len(trials)
    PROVE  BuiltOf(trials, n + 1) =
               IF CannotBuild(trials[n + 1]) THEN BuiltOf(trials, n)
               ELSE Append(BuiltOf(trials, n), trials[n + 1])
<1> DEFINE s == SubSeq(trials, 1, n)
           t == SubSeq(trials, 1, n + 1)
<1>1. Len(trials) \in Nat
    BY DEF IsSequence
<1>2. n \in 0..Len(trials) /\ n + 1 \in 0..Len(trials)
    BY <1>1
<1>3. Len(s) = n /\ DOMAIN s = 1..n /\ \A i \in 1..n : s[i] = trials[i]
    BY <1>2, PrefixOfTrials
<1>4. Len(t) = n + 1 /\ DOMAIN t = 1..(n + 1) /\ \A i \in 1..(n + 1) : t[i] = trials[i]
    BY <1>2, PrefixOfTrials
<1> HIDE DEF s, t
<1> DEFINE P == {i \in DOMAIN s : ~CannotBuild(s[i])}
           Q == {i \in DOMAIN t : ~CannotBuild(t[i])}
<1>5. \A i \in 1..n : s[i] = t[i] /\ (i \in P <=> i \in Q)
    BY <1>3, <1>4
<1>6. n + 1 \in Q <=> ~CannotBuild(trials[n + 1])
    BY <1>4
<1> HIDE DEF P, Q
<1>7. Chosen(t, Q) = IF n + 1 \in Q THEN Append(Chosen(s, P), t[n + 1]) ELSE Chosen(s, P)
    BY <1>3, <1>4, <1>5, ChosenOfMore
<1>8. Chosen(t, Q) = BuiltOf(trials, n + 1) /\ Chosen(s, P) = BuiltOf(trials, n)
    BY DEF BuiltOf, Built, s, t, P, Q
<1>9. t[n + 1] = trials[n + 1]
    BY <1>4
<1> QED
    BY <1>6, <1>7, <1>8, <1>9

LEMMA BuiltIsSequence ==
    ASSUME NEW trials, IsSequence(trials), NEW n \in 0..Len(trials)
    PROVE  IsSequence(BuiltOf(trials, n)) /\ Len(BuiltOf(trials, n)) \in 0..n
<1> DEFINE S == {trials[i] : i \in DOMAIN trials}
           p == SubSeq(trials, 1, n)
<1>1. p \in Seq(S) /\ Len(p) = n /\ n \in Nat
    BY PrefixOfTrials
<1> HIDE DEF S, p
<1>2. Built(p) \in Seq(S) /\ Len(Built(p)) <= n
    BY <1>1, ChosenIsSequence DEF Built
<1>3. Len(Built(p)) \in Nat
    BY <1>2
<1>4. IsSequence(Built(p))
    BY <1>2, SequenceOfItsElements DEF IsSequence
<1> QED
    BY <1>1, <1>2, <1>3, <1>4 DEF BuiltOf, p

\* What a function along 0..n flattens at each place (the swept keys, one by one)
IsCombined(f, n, swept) ==
    f = [m \in 0..n |->
            IF m = 0 THEN <<[key \in {} |-> ""]>>
            ELSE FlattenSeq([i \in DOMAIN f[m - 1] |->
                     [j \in DOMAIN swept[m].values |->
                         Updated(f[m - 1][i], [key \in {swept[m].key} |-> swept[m].values[j]])]])]

LEMMA CombinedExists ==
    ASSUME NEW swept, NEW n \in Nat
    PROVE  \E f : IsCombined(f, n, swept)
<1> DEFINE Bad == {k \in Nat : ~ \E f : IsCombined(f, k, swept)}
<1>1. SUFFICES ASSUME Bad # {} PROVE FALSE
    OBVIOUS
<1>2. PICK k \in Bad : \A j \in Bad : k <= j
    <2> HIDE DEF Bad
    <2>1. Bad \subseteq Nat
        BY DEF Bad
    <2> QED
        BY <1>1, <2>1, LeastExists
<1>3. k \in Nat /\ ~ \E f : IsCombined(f, k, swept)
    OBVIOUS
<1> DEFINE none == <<[key \in {} |-> ""]>>
           step(h, m) == FlattenSeq([i \in DOMAIN h[m - 1] |->
                             [j \in DOMAIN swept[m].values |-> Updated(h[m - 1][i],
                                 [key \in {swept[m].key} |-> swept[m].values[j]])]])
<1>4. CASE k = 0
    <2> DEFINE f == [m \in 0..0 |-> none]
    <2>1. IsCombined(f, 0, swept)
        BY DEF IsCombined
    <2> QED
        BY <1>3, <1>4, <2>1
<1>5. CASE k # 0
    <2>1. k - 1 \in Nat /\ ~(k <= k - 1)
        BY <1>3, <1>5
    <2>2. k - 1 \notin Bad
        BY <1>2, <2>1
    <2>3. PICK f : IsCombined(f, k - 1, swept)
        BY <2>1, <2>2
    <2>4. f = [m \in 0..(k - 1) |-> IF m = 0 THEN none ELSE step(f, m)]
        BY <2>3 DEF IsCombined
    <2> DEFINE g == [m \in 0..k |-> IF m = k THEN step(f, k) ELSE f[m]]
    <2>5. \A m \in 0..(k - 1) : g[m] = f[m]
        <3> HIDE DEF step
        <3> QED
            BY <1>3
    <2>6. g[k] = step(f, k)
        <3> HIDE DEF step
        <3> QED
            BY <1>3
    <2> HIDE DEF g
    <2>7. \A m \in 1..k : step(g, m) = step(f, m)
        <3> SUFFICES ASSUME NEW m \in 1..k PROVE step(g, m) = step(f, m)
            OBVIOUS
        <3>1. m - 1 \in 0..(k - 1)
            BY <1>3
        <3>2. g[m - 1] = f[m - 1]
            BY <2>5, <3>1
        <3> QED
            BY <3>2
    <2> HIDE DEF none, step
    <2>8. \A m \in 0..k : g[m] = IF m = 0 THEN none ELSE step(g, m)
        <3> SUFFICES ASSUME NEW m \in 0..k PROVE g[m] = IF m = 0 THEN none ELSE step(g, m)
            OBVIOUS
        <3>1. CASE m = k
            BY <1>3, <1>5, <2>6, <2>7, <3>1
        <3>2. CASE m # k
            <4>1. m \in 0..(k - 1)
                BY <1>3, <3>2
            <4>2. g[m] = IF m = 0 THEN none ELSE step(f, m)
                BY <2>4, <2>5, <4>1
            <4> QED
                BY <1>3, <2>7, <4>1, <4>2
        <3> QED
            BY <3>1, <3>2
    <2>9. g = [m \in 0..k |-> IF m = 0 THEN none ELSE step(g, m)]
        <3>1. g = [m \in 0..k |-> g[m]]
            BY DEF g
        <3> QED
            BY <2>8, <3>1
    <2>10. IsCombined(g, k, swept)
        BY <2>9 DEF IsCombined, none, step
    <2> QED
        BY <1>3, <2>10
<1> QED
    BY <1>4, <1>5

\* Sequences flatten to a sequence.
LEMMA FlattenAll ==
    ASSUME NEW n \in Nat, NEW seqs, seqs = [i \in 1..n |-> seqs[i]],
           \A i \in 1..n : IsSequence(seqs[i])
    PROVE  IsSequence(FlattenSeq(seqs))
<1> DEFINE T(i) == {seqs[i][j] : j \in DOMAIN seqs[i]}
           S == UNION {T(i) : i \in 1..n}
<1>1. \A i \in 1..n : seqs[i] \in Seq(S)
    <2> SUFFICES ASSUME NEW i \in 1..n PROVE seqs[i] \in Seq(S)
        OBVIOUS
    <2>1. seqs[i] \in Seq(T(i))
        BY DEF IsSequence
    <2>2. T(i) \subseteq S
        OBVIOUS
    <2> HIDE DEF T, S
    <2> QED
        BY <2>1, <2>2
<1> HIDE DEF S
<1>2. seqs \in Seq(Seq(S))
    <2>1. seqs \in [1..n -> Seq(S)]
        BY <1>1
    <2> QED
        BY <2>1
<1>3. FlattenSeq(seqs) \in Seq(S)
    BY <1>2, FlattenIsSequence
<1> QED
    BY <1>3, SequenceOfItsElements DEF IsSequence

\* A function on the places of a sequence is one.
LEMMA MappedIsSequence ==
    ASSUME NEW s, IsSequence(s), NEW f, f = [i \in DOMAIN s |-> f[i]]
    PROVE  IsSequence(f) /\ Len(f) = Len(s) /\ f = [i \in 1..Len(s) |-> f[i]]
           /\ Len(s) \in Nat /\ DOMAIN s = 1..Len(s)
<1>1. Len(s) \in Nat /\ DOMAIN s = 1..Len(s)
    BY DEF IsSequence
<1>2. f = [i \in 1..Len(s) |-> f[i]]
    BY <1>1
<1> DEFINE n == Len(s)
<1>3. n \in Nat /\ f = [i \in 1..n |-> f[i]]
    BY <1>1, <1>2
<1> HIDE DEF n
<1>4. f \in Seq({f[i] : i \in DOMAIN f}) /\ Len(f) = n
    BY <1>3, FunctionIsSequence
<1> QED
    BY <1>1, <1>2, <1>4 DEF IsSequence, n

-----------------------------------------------------------------------------
(* Elements of a flattened list                                              *)

\* Two lists without a common element repeat nothing if neither does.
LEMMA ConcatElements ==
    ASSUME NEW S, NEW a \in Seq(S), NEW b \in Seq(S)
    PROVE  /\ Range(a \o b) = Range(a) \cup Range(b)
           /\ IsInjective(a) /\ IsInjective(b) /\ Range(a) \cap Range(b) = {} => IsInjective(a \o b)
<1> DEFINE m == Len(a)
           n == Len(b)
           c == a \o b
<1>1. /\ m \in Nat /\ n \in Nat /\ DOMAIN a = 1..m /\ DOMAIN b = 1..n /\ DOMAIN c = 1..(m + n)
      /\ \A i \in 1..m : c[i] = a[i]
      /\ \A i \in (m + 1)..(m + n) : c[i] = b[i - m]
    OBVIOUS
<1>2. \A i \in 1..n : c[m + i] = b[i] /\ m + i \in 1..(m + n)
    <2> SUFFICES ASSUME NEW i \in 1..n PROVE c[m + i] = b[i] /\ m + i \in 1..(m + n)
        OBVIOUS
    <2>1. m + i \in (m + 1)..(m + n) /\ (m + i) - m = i
        BY <1>1
    <2> QED
        BY <1>1, <2>1
<1>3. \A i \in 1..(m + n) : i \in 1..m \/ (i - m \in 1..n /\ i \in (m + 1)..(m + n))
    BY <1>1
<1>4. \A i \in 1..m : i \in 1..(m + n)
    BY <1>1
<1> HIDE DEF m, n, c
<1>5. Range(c) = Range(a) \cup Range(b)
    <2>1. ASSUME NEW v \in Range(c) PROVE v \in Range(a) \cup Range(b)
        <3>1. PICK i \in 1..(m + n) : v = c[i]
            BY <1>1 DEF Range
        <3> QED
            BY <1>1, <1>3, <3>1 DEF Range
    <2>2. ASSUME NEW v \in Range(a) PROVE v \in Range(c)
        BY <1>1, <1>4 DEF Range
    <2>3. ASSUME NEW v \in Range(b) PROVE v \in Range(c)
        <3>1. PICK i \in 1..n : v = b[i]
            BY <1>1 DEF Range
        <3>2. v = c[m + i] /\ m + i \in DOMAIN c
            BY <1>1, <1>2, <3>1
        <3> QED
            BY <3>2 DEF Range
    <2> QED
        BY <2>1, <2>2, <2>3
<1>6. ASSUME IsInjective(a), IsInjective(b), Range(a) \cap Range(b) = {} PROVE IsInjective(c)
    <2> SUFFICES ASSUME NEW i \in 1..(m + n), NEW j \in 1..(m + n), c[i] = c[j] PROVE i = j
        BY <1>1 DEF IsInjective
    <2>1. ASSUME NEW k \in 1..(m + n)
          PROVE  \/ k \in 1..m /\ c[k] = a[k] /\ c[k] \in Range(a)
                 \/ k - m \in 1..n /\ c[k] = b[k - m] /\ c[k] \in Range(b)
        BY <1>1, <1>3 DEF Range
    <2>2. CASE i \in 1..m /\ j \in 1..m /\ a[i] = a[j]
        BY <1>1, <1>6, <2>2 DEF IsInjective
    <2>3. CASE i - m \in 1..n /\ j - m \in 1..n /\ b[i - m] = b[j - m]
        <3>1. i - m = j - m
            BY <1>1, <1>6, <2>3 DEF IsInjective
        <3> QED
            BY <1>1, <3>1
    <2> QED
        BY <1>6, <2>1, <2>2, <2>3
<1> QED
    BY <1>5, <1>6 DEF c

\* So do many lists, flattened.
LEMMA FlattenElements ==
    ASSUME NEW S, NEW seqs \in Seq(Seq(S))
    PROVE  /\ Range(FlattenSeq(seqs)) = UNION {Range(seqs[i]) : i \in DOMAIN seqs}
           /\ /\ \A i \in DOMAIN seqs : IsInjective(seqs[i])
              /\ \A i, j \in DOMAIN seqs : i # j => Range(seqs[i]) \cap Range(seqs[j]) = {}
              => IsInjective(FlattenSeq(seqs))
<1> DEFINE n == Len(seqs)
           Apart == /\ \A i \in 1..n : IsInjective(seqs[i])
                    /\ \A i, j \in 1..n : i # j => Range(seqs[i]) \cap Range(seqs[j]) = {}
           of(i) == UNION {Range(seqs[k]) : k \in 1..i}
<1>1. n \in Nat /\ DOMAIN seqs = 1..n /\ \A i \in 1..n : seqs[i] \in Seq(S)
    OBVIOUS
<1>2. CASE n = 0
    <2>1. seqs = <<>>
        BY <1>1, <1>2
    <2>2. FlattenSeq(seqs) = <<>>
        BY <1>2, <2>1 DEF FlattenSeq
    <2>3. Range(<<>>) = {} /\ IsInjective(<<>>)
        BY DEF Range, IsInjective
    <2>4. UNION {Range(seqs[i]) : i \in DOMAIN seqs} = {}
        BY <1>1, <1>2
    <2> QED
        BY <2>2, <2>3, <2>4
<1>3. CASE n # 0
    <2> DEFINE f == CHOOSE f : IsFlat(f, n, seqs)
    <2>1. IsFlat(f, n, seqs)
        BY <1>1, FlatExists
    <2>2. FlattenSeq(seqs) = f[n]
        BY <1>3 DEF FlattenSeq, IsFlat
    <2> HIDE DEF f, n
    <2>3. \A i \in 1..n : f[i] = IF i = 1 THEN seqs[i] ELSE f[i - 1] \o seqs[i]
        BY <2>1 DEF IsFlat
    <2> DEFINE Good(i) == f[i] \in Seq(S) /\ Range(f[i]) = of(i) /\ (Apart => IsInjective(f[i]))
               Bad == {i \in 1..n : ~Good(i)}
    <2> HIDE DEF Apart
    <2>4. Bad = {}
        <3>1. SUFFICES ASSUME Bad # {} PROVE FALSE
            OBVIOUS
        <3>2. PICK i \in Bad : \A j \in Bad : i <= j
            <4>1. Bad \subseteq Nat
                BY <1>1
            <4> HIDE DEF Bad
            <4> QED
                BY <3>1, <4>1, LeastExists
        <3>3. i \in 1..n /\ ~Good(i)
            BY <3>2
        <3>4. CASE i = 1
            <4>1. f[i] = seqs[i] /\ seqs[i] \in Seq(S)
                BY <1>1, <2>3, <3>3, <3>4
            <4>2. of(i) = Range(seqs[i])
                BY <3>4
            <4>3. Apart => IsInjective(seqs[i])
                BY <3>3 DEF Apart
            <4> QED
                BY <3>3, <4>1, <4>2, <4>3
        <3>5. CASE i # 1
            <4>1. i - 1 \in 1..n /\ ~(i <= i - 1)
                BY <1>1, <3>3, <3>5
            <4>2. Good(i - 1)
                BY <3>2, <4>1
            <4> DEFINE a == f[i - 1]
                       b == seqs[i]
            <4>3. a \in Seq(S) /\ b \in Seq(S) /\ Range(a) = of(i - 1) /\ (Apart => IsInjective(a))
                BY <1>1, <3>3, <4>2
            <4>4. f[i] = a \o b
                BY <2>3, <3>3, <3>5
            <4>5. a \o b \in Seq(S)
                BY <4>3
            <4>6. \A k \in 1..i : k = i \/ k \in 1..(i - 1)
                BY <1>1, <3>3
            <4>7. \A k \in 1..(i - 1) : k \in 1..i /\ k \in 1..n /\ k # i
                BY <1>1, <3>3
            <4>8. i \in 1..i
                BY <1>1, <3>3
            <4>9. of(i) = of(i - 1) \cup Range(b)
                BY <4>6, <4>7, <4>8
            <4>10. Apart => IsInjective(b) /\ of(i - 1) \cap Range(b) = {}
                BY <3>3, <4>7 DEF Apart
            <4> HIDE DEF a, b, of
            <4>11. Range(a \o b) = of(i) /\ (Apart => IsInjective(a \o b))
                BY <4>3, <4>9, <4>10, ConcatElements
            <4> QED
                BY <3>3, <4>4, <4>5, <4>11
        <3> QED
            BY <3>4, <3>5
    <2>5. n \in 1..n
        BY <1>1, <1>3
    <2>6. Good(n)
        BY <2>4, <2>5
    <2>7. Range(f[n]) = of(n) /\ (Apart => IsInjective(f[n]))
        BY <2>6
    <2> QED
        BY <1>1, <2>2, <2>7 DEF Apart
<1> QED
    BY <1>2, <1>3

\* A list that is made of one list for each element of another
LEMMA FlattenedParts ==
    ASSUME NEW s, IsSequence(s), NEW f, f = [i \in DOMAIN s |-> f[i]],
           \A i \in DOMAIN s : IsSequence(f[i])
    PROVE  /\ IsSequence(FlattenSeq(f))
           /\ Range(FlattenSeq(f)) = UNION {Range(f[i]) : i \in DOMAIN s}
           /\ /\ \A i \in DOMAIN s : IsInjective(f[i])
              /\ \A i, j \in DOMAIN s : i # j => Range(f[i]) \cap Range(f[j]) = {}
              => IsInjective(FlattenSeq(f))
<1> DEFINE n == Len(s)
           S == UNION {{f[i][j] : j \in DOMAIN f[i]} : i \in 1..n}
<1>1. n \in Nat /\ DOMAIN s = 1..n /\ f = [i \in 1..n |-> f[i]] /\ DOMAIN f = 1..n
    BY MappedIsSequence
<1> HIDE DEF n
<1>2. IsSequence(FlattenSeq(f))
    BY <1>1, FlattenAll
<1>3. \A i \in 1..n : f[i] \in Seq(S)
    <2> SUFFICES ASSUME NEW i \in 1..n PROVE f[i] \in Seq(S)
        OBVIOUS
    <2> DEFINE T == {f[i][j] : j \in DOMAIN f[i]}
    <2>1. f[i] \in Seq(T)
        BY <1>1 DEF IsSequence
    <2>2. T \subseteq S
        OBVIOUS
    <2> HIDE DEF T, S
    <2> QED
        BY <2>1, <2>2
<1> HIDE DEF S
<1>4. f \in [1..n -> Seq(S)]
    BY <1>1, <1>3
<1>5. f \in Seq(Seq(S))
    BY <1>1, <1>4
<1> QED
    BY <1>1, <1>2, <1>5, FlattenElements

-----------------------------------------------------------------------------
(* The combinations of the swept values                                      *)

\* The ways to give one value more to each of a list of assignments
WithOne(g, key, v) == Updated(g, [k \in {key} |-> v])
Extended(s, key, values) ==
    [i \in DOMAIN s |-> [j \in DOMAIN values |-> WithOne(s[i], key, values[j])]]

\* Flattened, they are all the assignments that extend one of them, each once.
LEMMA ExtendedElements ==
    ASSUME NEW K, NEW V, NEW s, IsSequence(s), Range(s) \subseteq [K -> V], NEW key, key \notin K,
           NEW values, IsSequence(values), Range(values) \subseteq V
    PROVE  LET all == FlattenSeq(Extended(s, key, values))
           IN  /\ IsSequence(all)
               /\ Range(all) = {g \in [K \cup {key} -> V] :
                                   [k \in K |-> g[k]] \in Range(s) /\ g[key] \in Range(values)}
               /\ IsInjective(s) /\ IsInjective(values) => IsInjective(all)
<1> DEFINE f == Extended(s, key, values)
           e(i, j) == WithOne(s[i], key, values[j])
           all == FlattenSeq(f)
           extending == {g \in [K \cup {key} -> V] :
                            [k \in K |-> g[k]] \in Range(s) /\ g[key] \in Range(values)}
<1>1. ASSUME NEW i \in DOMAIN s, NEW j \in DOMAIN values
      PROVE  /\ e(i, j) \in [K \cup {key} -> V] /\ e(i, j)[key] = values[j]
             /\ [k \in K |-> e(i, j)[k]] = s[i]
    <2> DEFINE g == s[i]
               v == values[j]
               h == WithOne(g, key, v)
    <2>1. g \in [K -> V] /\ v \in V
        BY DEF Range
    <2> HIDE DEF g, v
    <2>2. h = [k \in K \cup {key} |-> IF k \in {key} THEN v ELSE g[k]]
        BY <2>1 DEF WithOne, Updated
    <2> HIDE DEF h
    <2>3. g = [k \in K |-> g[k]] /\ \A k \in K : g[k] \in V
        BY <2>1
    <2>4. h[key] = v /\ \A k \in K : h[k] = g[k]
        BY <2>2
    <2>5. h \in [K \cup {key} -> V]
        BY <2>1, <2>2, <2>3
    <2>6. [k \in K |-> h[k]] = g
        BY <2>3, <2>4
    <2> QED
        BY <2>4, <2>5, <2>6 DEF g, v, h
<1>2. /\ f = [i \in DOMAIN s |-> f[i]]
      /\ \A i \in DOMAIN s : f[i] = [j \in DOMAIN values |-> e(i, j)]
    BY DEF Extended
<1> HIDE DEF f, e
<1>3. ASSUME NEW i \in DOMAIN s
      PROVE  /\ IsSequence(f[i]) /\ DOMAIN f[i] = DOMAIN values
             /\ \A j \in DOMAIN values : f[i][j] = e(i, j)
             /\ Range(f[i]) = {e(i, j) : j \in DOMAIN values}
    <2> DEFINE p == f[i]
    <2>1. p = [j \in DOMAIN values |-> e(i, j)]
        BY <1>2
    <2> HIDE DEF p
    <2>2. p = [j \in DOMAIN values |-> p[j]]
        BY <2>1
    <2>3. IsSequence(p)
        BY <2>2, MappedIsSequence
    <2>4. DOMAIN p = DOMAIN values /\ \A j \in DOMAIN values : p[j] = e(i, j)
        BY <2>1
    <2>5. Range(p) = {e(i, j) : j \in DOMAIN values}
        BY <2>4 DEF Range
    <2> QED
        BY <2>3, <2>4, <2>5 DEF p
<1>4. /\ IsSequence(all) /\ Range(all) = UNION {Range(f[i]) : i \in DOMAIN s}
      /\ /\ \A i \in DOMAIN s : IsInjective(f[i])
         /\ \A i, j \in DOMAIN s : i # j => Range(f[i]) \cap Range(f[j]) = {}
         => IsInjective(all)
    BY <1>2, <1>3, FlattenedParts
<1> HIDE DEF all
<1>5. Range(all) = extending
    <2>1. ASSUME NEW g \in Range(all) PROVE g \in extending
        <3>1. PICK i \in DOMAIN s : g \in Range(f[i])
            BY <1>4
        <3>2. PICK j \in DOMAIN values : g = e(i, j)
            BY <1>3, <3>1
        <3>3. g \in [K \cup {key} -> V] /\ g[key] = values[j] /\ [k \in K |-> g[k]] = s[i]
            BY <1>1, <3>2
        <3>4. s[i] \in Range(s) /\ values[j] \in Range(values)
            BY DEF Range
        <3> QED
            BY <3>3, <3>4
    <2>2. ASSUME NEW g \in extending PROVE g \in Range(all)
        <3>1. /\ g \in [K \cup {key} -> V] /\ g[key] \in Range(values)
              /\ [k \in K |-> g[k]] \in Range(s)
            OBVIOUS
        <3>2. PICK i \in DOMAIN s : [k \in K |-> g[k]] = s[i]
            BY <3>1 DEF Range
        <3>3. PICK j \in DOMAIN values : g[key] = values[j]
            BY <3>1 DEF Range
        <3> DEFINE h == e(i, j)
        <3>4. h \in [K \cup {key} -> V] /\ h[key] = values[j] /\ [k \in K |-> h[k]] = s[i]
            BY <1>1
        <3> HIDE DEF h
        <3>5. \A k \in K : g[k] = h[k]
            <4>1. [k \in K |-> g[k]] = [k \in K |-> h[k]]
                BY <3>2, <3>4
            <4> QED
                BY <4>1
        <3>6. \A k \in K \cup {key} : g[k] = h[k]
            BY <3>3, <3>4, <3>5
        <3>7. g = h
            BY <3>1, <3>4, <3>6
        <3>8. g \in Range(f[i])
            BY <1>3, <3>7 DEF h
        <3> QED
            BY <1>4, <3>8
    <2> QED
        BY <2>1, <2>2
<1>6. ASSUME IsInjective(s), IsInjective(values) PROVE IsInjective(all)
    <2>1. ASSUME NEW i \in DOMAIN s PROVE IsInjective(f[i])
        <3> SUFFICES ASSUME NEW j \in DOMAIN values, NEW k \in DOMAIN values, e(i, j) = e(i, k)
                     PROVE  j = k
            BY <1>3 DEF IsInjective
        <3>1. values[j] = values[k]
            BY <1>1
        <3> QED
            BY <1>6, <3>1 DEF IsInjective
    <2>2. ASSUME NEW i \in DOMAIN s, NEW l \in DOMAIN s, NEW g \in Range(f[i]), g \in Range(f[l])
          PROVE  i = l
        <3>1. PICK j \in DOMAIN values : g = e(i, j)
            BY <1>3
        <3>2. PICK k \in DOMAIN values : g = e(l, k)
            BY <1>3, <2>2
        <3>3. [m \in K |-> g[m]] = s[i]
            BY <1>1, <3>1
        <3>4. [m \in K |-> g[m]] = s[l]
            BY <1>1, <3>2
        <3>5. s[i] = s[l]
            BY <3>3, <3>4
        <3> QED
            BY <1>6, <3>5 DEF IsInjective
    <2> QED
        BY <1>4, <2>1, <2>2
<1> QED
    BY <1>4, <1>5, <1>6 DEF all, f

\* The assignments of the first n swept keys
KeysOf(swept, n) == {swept[i].key : i \in 1..n}
ValuesOf(swept) == UNION {Range(swept[i].values) : i \in DOMAIN swept}
Assigned(swept, n) ==
    {g \in [KeysOf(swept, n) -> ValuesOf(swept)] :
        \A i \in 1..n : g[swept[i].key] \in Range(swept[i].values)}

LEMMA AssignedMore ==
    ASSUME NEW swept, NEW n \in Nat, n + 1 \in DOMAIN swept,
           \A i \in 1..n : i \in DOMAIN swept /\ swept[i].key # swept[n + 1].key
    PROVE  LET key == swept[n + 1].key
               K == KeysOf(swept, n)
           IN  /\ key \notin K /\ KeysOf(swept, n + 1) = K \cup {key}
               /\ Range(swept[n + 1].values) \subseteq ValuesOf(swept)
               /\ Assigned(swept, n + 1) =
                      {g \in [K \cup {key} -> ValuesOf(swept)] :
                          /\ [k \in K |-> g[k]] \in Assigned(swept, n)
                          /\ g[key] \in Range(swept[n + 1].values)}
<1> DEFINE key == swept[n + 1].key
           K == KeysOf(swept, n)
           V == ValuesOf(swept)
<1>1. key \notin K
    BY DEF KeysOf
<1>2. \A i \in 1..(n + 1) : i = n + 1 \/ i \in 1..n
    OBVIOUS
<1>3. n + 1 \in 1..(n + 1) /\ \A i \in 1..n : i \in 1..(n + 1)
    OBVIOUS
<1>4. KeysOf(swept, n + 1) = K \cup {key}
    BY <1>2, <1>3 DEF KeysOf
<1>5. Range(swept[n + 1].values) \subseteq V
    BY DEF ValuesOf
<1>6. \A i \in 1..n : swept[i].key \in K
    BY DEF KeysOf
<1>7. ASSUME NEW g \in [K \cup {key} -> V]
      PROVE  (\A i \in 1..(n + 1) : g[swept[i].key] \in Range(swept[i].values))
             <=> /\ [k \in K |-> g[k]] \in Assigned(swept, n)
                 /\ g[key] \in Range(swept[n + 1].values)
    <2> DEFINE h == [k \in K |-> g[k]]
    <2>1. h \in [K -> V] /\ \A k \in K : h[k] = g[k]
        OBVIOUS
    <2> HIDE DEF h
    <2>2. h \in Assigned(swept, n) <=> \A i \in 1..n : g[swept[i].key] \in Range(swept[i].values)
        BY <1>6, <2>1 DEF Assigned
    <2> QED
        BY <1>2, <1>3, <2>2 DEF h
<1>8. Assigned(swept, n + 1) =
          {g \in [K \cup {key} -> V] :
              /\ [k \in K |-> g[k]] \in Assigned(swept, n)
              /\ g[key] \in Range(swept[n + 1].values)}
    <2>1. Assigned(swept, n + 1) =
              {g \in [K \cup {key} -> V] :
                  \A i \in 1..(n + 1) : g[swept[i].key] \in Range(swept[i].values)}
        BY <1>4 DEF Assigned
    <2> HIDE DEF K, V, key
    <2> QED
        BY <1>7, <2>1
<1> QED
    BY <1>1, <1>4, <1>5, <1>8

\* itertools.product: a list of every assignment, each once if no value is repeated.
LEMMA CombinationsAreAssigned ==
    ASSUME NEW swept, IsSequence(swept), \A m \in DOMAIN swept : IsSequence(swept[m].values),
           \A l, m \in DOMAIN swept : swept[l].key = swept[m].key => l = m
    PROVE  /\ IsSequence(Combinations(swept))
           /\ Range(Combinations(swept)) = Assigned(swept, Len(swept))
           /\ (\A m \in DOMAIN swept : IsInjective(swept[m].values)) =>
                  IsInjective(Combinations(swept))
<1> DEFINE n == Len(swept)
           f == CHOOSE f : IsCombined(f, n, swept)
           once == \A m \in DOMAIN swept : IsInjective(swept[m].values)
<1>1. n \in Nat /\ DOMAIN swept = 1..n
    BY DEF IsSequence
<1>2. IsCombined(f, n, swept)
    BY <1>1, CombinedExists
<1>3. Combinations(swept) = f[n]
    BY DEF Combinations, IsCombined
<1> HIDE DEF f, n
<1> DEFINE none == <<[key \in {} |-> ""]>>
           parts(m) == Extended(f[m - 1], swept[m].key, swept[m].values)
<1>4. \A m \in 0..n : f[m] = IF m = 0 THEN none ELSE FlattenSeq(parts(m))
    BY <1>2 DEF IsCombined, Extended, WithOne
<1> DEFINE Good(m) == /\ IsSequence(f[m]) /\ Range(f[m]) = Assigned(swept, m)
                      /\ once => IsInjective(f[m])
<1>5. Good(0)
    <2> DEFINE e == [key \in {} |-> ""]
    <2>1. f[0] = <<e>>
        BY <1>1, <1>4
    <2>2. KeysOf(swept, 0) = {} /\ 1..0 = {}
        BY DEF KeysOf
    <2>3. \A V : [{} -> V] = {e}
        <3> SUFFICES ASSUME NEW V PROVE [{} -> V] = {e}
            OBVIOUS
        <3>1. e \in [{} -> V]
            OBVIOUS
        <3>2. \A g \in [{} -> V] : g = e
            OBVIOUS
        <3> QED
            BY <3>1, <3>2
    <2> HIDE DEF e
    <2>4. Assigned(swept, 0) = {e}
        BY <2>2, <2>3 DEF Assigned
    <2>5. <<e>> \in Seq({e}) /\ Range(<<e>>) = {e} /\ IsInjective(<<e>>)
        BY DEF Range, IsInjective
    <2>6. IsSequence(<<e>>)
        BY <2>5, SequenceOfItsElements DEF IsSequence
    <2> QED
        BY <2>1, <2>4, <2>5, <2>6
<1>6. ASSUME NEW m \in 1..n, Good(m - 1) PROVE Good(m)
    <2> DEFINE k == m - 1
               s == f[k]
               key == swept[m].key
               values == swept[m].values
               K == KeysOf(swept, k)
               V == ValuesOf(swept)
    <2>1. k \in Nat /\ k + 1 = m /\ m \in DOMAIN swept
          /\ \A i \in 1..k : i \in DOMAIN swept /\ swept[i].key # swept[k + 1].key
        BY <1>1
    <2>2. /\ key \notin K /\ KeysOf(swept, m) = K \cup {key} /\ Range(values) \subseteq V
          /\ Assigned(swept, m) = {g \in [K \cup {key} -> V] :
                                      /\ [l \in K |-> g[l]] \in Assigned(swept, k)
                                      /\ g[key] \in Range(values)}
        <3> HIDE DEF k
        <3> QED
            BY <2>1, AssignedMore
    <2>3. IsSequence(s) /\ Range(s) = Assigned(swept, k) /\ (once => IsInjective(s))
        BY <1>6
    <2>4. Range(s) \subseteq [K -> V]
        BY <2>3 DEF Assigned
    <2>5. IsSequence(values) /\ (once => IsInjective(values))
        BY <2>1
    <2>6. f[m] = FlattenSeq(Extended(s, key, values))
        BY <1>1, <1>4
    <2> HIDE DEF s, key, values, K, V, k, once
    <2> DEFINE all == FlattenSeq(Extended(s, key, values))
    <2>7. /\ IsSequence(all)
          /\ Range(all) = {g \in [K \cup {key} -> V] :
                              [l \in K |-> g[l]] \in Range(s) /\ g[key] \in Range(values)}
          /\ IsInjective(s) /\ IsInjective(values) => IsInjective(all)
        BY <2>2, <2>3, <2>4, <2>5, ExtendedElements, Zenon
    <2> HIDE DEF all
    <2>9. f[m] = all
        BY <2>6 DEF all
    <2>8. Range(f[m]) = Assigned(swept, m)
        BY <2>2, <2>3, <2>7, <2>9
    <2> QED
        BY <2>3, <2>5, <2>7, <2>8, <2>9
<1> HIDE DEF once
<1> DEFINE Bad == {m \in 0..n : ~Good(m)}
<1>7. Bad = {}
    <2>1. SUFFICES ASSUME Bad # {} PROVE FALSE
        OBVIOUS
    <2>2. PICK m \in Bad : \A j \in Bad : m <= j
        <3>1. Bad \subseteq Nat
            BY <1>1
        <3> HIDE DEF Bad
        <3> QED
            BY <2>1, <3>1, LeastExists
    <2>3. m \in 0..n /\ ~Good(m)
        BY <2>2
    <2>4. m # 0
        BY <1>5, <2>3
    <2>5. m \in 1..n /\ m - 1 \in 0..n /\ ~(m <= m - 1)
        BY <1>1, <2>3, <2>4
    <2>6. Good(m - 1)
        BY <2>2, <2>5
    <2> HIDE DEF Good
    <2> QED
        BY <1>6, <2>3, <2>5, <2>6
<1>8. n \in 0..n
    BY <1>1
<1>9. Good(n)
    BY <1>7, <1>8
<1> QED
    BY <1>3, <1>9 DEF once, n

-----------------------------------------------------------------------------
(* The trials of a configuration                                             *)

\* Keys are unique, so the item of a key is found by it.
LEMMA AssignmentsAreAssigned ==
    ASSUME NEW swept, IsSequence(swept),
           \A l, m \in DOMAIN swept : swept[l].key = swept[m].key => l = m
    PROVE  Assignments(swept) = Assigned(swept, Len(swept))
<1> DEFINE n == Len(swept)
           of(key) == CHOOSE item \in Range(swept) : item.key = key
           keys == {item.key : item \in Range(swept)}
           values(key) == Range(of(key).values)
           all == UNION {values(key) : key \in keys}
<1>1. DOMAIN swept = 1..n
    BY DEF IsSequence
<1>2. ASSUME NEW i \in 1..n PROVE of(swept[i].key) = swept[i] /\ swept[i].key \in keys
    <2>1. swept[i] \in Range(swept)
        BY <1>1 DEF Range
    <2>2. of(swept[i].key) \in Range(swept) /\ of(swept[i].key).key = swept[i].key
        BY <2>1
    <2>3. PICK j \in 1..n : of(swept[i].key) = swept[j]
        BY <1>1, <2>2 DEF Range
    <2> HIDE DEF of
    <2>4. i = j
        BY <1>1, <2>2, <2>3
    <2> QED
        BY <2>1, <2>3, <2>4
<1>3. \A key \in keys : \E i \in 1..n : key = swept[i].key
    BY <1>1 DEF Range
<1>4. keys = KeysOf(swept, n)
    <2> HIDE DEF keys
    <2> QED
        BY <1>2, <1>3 DEF KeysOf
<1>5. \A i \in 1..n : values(swept[i].key) = Range(swept[i].values)
    BY <1>2
<1>6. all = ValuesOf(swept)
    <2> HIDE DEF keys, values
    <2> QED
        BY <1>1, <1>2, <1>3, <1>5 DEF ValuesOf
<1>7. Assignments(swept) = {f \in [keys -> all] : \A key \in keys : f[key] \in values(key)}
    BY DEF Assignments
<1> HIDE DEF keys, values, all
<1>8. \A f : (\A key \in keys : f[key] \in values(key))
             <=> \A i \in 1..n : f[swept[i].key] \in Range(swept[i].values)
    BY <1>2, <1>3, <1>5
<1>9. Assigned(swept, n) = {f \in [keys -> all] :
                               \A i \in 1..n : f[swept[i].key] \in Range(swept[i].values)}
    BY <1>4, <1>6 DEF Assigned
<1> HIDE DEF n
<1> QED
    BY <1>7, <1>8, <1>9 DEF n

\* The updates one after the other leave each parameter what its narrowest scope says.
LEMMA ParamsAreScoped ==
    ASSUME NEW config, NEW model, NEW f
    PROVE  TrialParams(config, model, f) = Scoped(config, model, f)
<1> DEFINE D1 == DOMAIN config.params
           D2 == DOMAIN f
           D3 == DOMAIN model.params
           D4 == DOMAIN config.defaults
           value(key) == IF key \in D1 THEN config.params[key]
                         ELSE IF key \in D2 THEN f[key]
                         ELSE IF key \in D3 THEN model.params[key] ELSE config.defaults[key]
           keys == (D1 \cup D2 \cup D3 \cup D4) \ config.omit
           scopes == <<config.params, f, model.params, config.defaults>>
           first(key) == CHOOSE i \in 1..4 : /\ key \in DOMAIN scopes[i]
                                             /\ \A j \in 1..i-1 : key \notin DOMAIN scopes[j]
<1>1. TrialParams(config, model, f) = [key \in keys |-> value(key)]
    <2> DEFINE a == Updated(config.defaults, model.params)
               b == Updated(a, f)
               c == Updated(b, config.params)
    <2>1. TrialParams(config, model, f) = [key \in DOMAIN c \ config.omit |-> c[key]]
        BY DEF TrialParams
    <2>2. DOMAIN a = D3 \cup D4 /\ \A key \in D3 \cup D4 :
              a[key] = IF key \in D3 THEN model.params[key] ELSE config.defaults[key]
        BY DEF Updated
    <2> HIDE DEF a
    <2>3. DOMAIN b = D2 \cup D3 \cup D4 /\ \A key \in D2 \cup D3 \cup D4 :
              b[key] = IF key \in D2 THEN f[key] ELSE a[key]
        BY <2>2 DEF Updated
    <2> HIDE DEF b
    <2>4. DOMAIN c = D1 \cup D2 \cup D3 \cup D4 /\ \A key \in D1 \cup D2 \cup D3 \cup D4 :
              c[key] = IF key \in D1 THEN config.params[key] ELSE b[key]
        BY <2>3 DEF Updated
    <2> HIDE DEF c, D1, D2, D3, D4
    <2>5. DOMAIN c \ config.omit = keys
        BY <2>4
    <2>6. \A key \in keys : c[key] = value(key)
        BY <2>2, <2>3, <2>4
    <2> HIDE DEF keys, value
    <2> QED
        BY <2>1, <2>5, <2>6
<1>2. /\ scopes[1] = config.params /\ scopes[2] = f /\ scopes[3] = model.params
      /\ scopes[4] = config.defaults /\ 1..4 = {1, 2, 3, 4}
      /\ 1..1-1 = {} /\ 1..2-1 = {1} /\ 1..3-1 = {1, 2} /\ 1..4-1 = {1, 2, 3}
    OBVIOUS
<1>3. Scoped(config, model, f) =
          [key \in (UNION {DOMAIN scopes[i] : i \in 1..4}) \ config.omit |->
              scopes[first(key)][key]]
    BY DEF Scoped
<1> HIDE DEF scopes
<1>4. (UNION {DOMAIN scopes[i] : i \in 1..4}) \ config.omit = keys
    <2> DEFINE S == {DOMAIN scopes[i] : i \in 1..4}
    <2>1. D1 \in S /\ D2 \in S /\ D3 \in S /\ D4 \in S /\ \A D \in S : D \in {D1, D2, D3, D4}
        BY <1>2
    <2> HIDE DEF S, D1, D2, D3, D4
    <2>2. UNION S = D1 \cup D2 \cup D3 \cup D4
        BY <2>1
    <2>3. (UNION S) \ config.omit = keys
        BY <2>2
    <2> HIDE DEF keys
    <2> QED
        BY <2>3, Zenon DEF S
<1>5. ASSUME NEW key \in keys PROVE scopes[first(key)][key] = value(key)
    <2> DEFINE IsFirst(i) == /\ key \in DOMAIN scopes[i]
                             /\ \A j \in 1..i-1 : key \notin DOMAIN scopes[j]
    <2>1. \A i \in {1, 2, 3, 4} :
              IsFirst(i) <=> \/ i = 1 /\ key \in D1
                             \/ i = 2 /\ key \notin D1 /\ key \in D2
                             \/ i = 3 /\ key \notin D1 \cup D2 /\ key \in D3
                             \/ i = 4 /\ key \notin D1 \cup D2 \cup D3 /\ key \in D4
        BY <1>2
    <2>2. first(key) = CHOOSE i \in 1..4 : IsFirst(i)
        OBVIOUS
    <2> HIDE DEF first, IsFirst, D1, D2, D3, D4
    <2>3. \E i \in 1..4 : IsFirst(i)
        BY <1>2, <2>1
    <2>4. first(key) \in {1, 2, 3, 4} /\ IsFirst(first(key))
        BY <1>2, <2>2, <2>3
    <2> QED
        BY <1>2, <2>1, <2>4
<1> HIDE DEF keys, value, first
<1> QED
    BY <1>1, <1>3, <1>4, <1>5

\* Two assignments of keys that nothing makes idle give other parameters.
LEMMA ParamsTellAssignment ==
    ASSUME NEW config, NEW model, NEW K, NEW V, NEW f \in [K -> V], NEW g \in [K -> V],
           \A key \in K : key \notin DOMAIN config.params \cup config.omit,
           TrialParams(config, model, f) = TrialParams(config, model, g)
    PROVE  f = g
<1>1. ASSUME NEW h \in [K -> V], NEW key \in K PROVE TrialParams(config, model, h)[key] = h[key]
    <2> DEFINE a == Updated(config.defaults, model.params)
               b == Updated(a, h)
               c == Updated(b, config.params)
    <2>1. TrialParams(config, model, h) = [l \in DOMAIN c \ config.omit |-> c[l]]
        BY DEF TrialParams
    <2>2. key \in DOMAIN b /\ b[key] = h[key]
        BY DEF Updated
    <2> HIDE DEF b
    <2>3. key \in DOMAIN c /\ c[key] = h[key]
        BY <2>2 DEF Updated
    <2> HIDE DEF c
    <2> QED
        BY <2>1, <2>3
<1>2. \A key \in K : f[key] = g[key]
    BY <1>1
<1> QED
    BY <1>2

\* What loading makes of a configuration
IsLoaded(config) ==
    /\ IsSequence(config.models) /\ IsSequence(config.prompts) /\ IsSequence(config.gens)
    /\ IsSequence(config.swept) /\ \A m \in DOMAIN config.swept : IsSequence(config.swept[m].values)
    /\ \A l, m \in DOMAIN config.models : config.models[l].name = config.models[m].name => l = m
    /\ \A l, m \in DOMAIN config.swept : config.swept[l].key = config.swept[m].key => l = m

\* One list for each place of another that repeats nothing, all of them apart
LEMMA NestedOnce ==
    ASSUME NEW s, IsSequence(s), NEW f, f = [i \in DOMAIN s |-> f[i]],
           \A i \in DOMAIN s : IsSequence(f[i]) /\ IsInjective(f[i]),
           \A i, j \in DOMAIN s : \A v : v \in Range(f[i]) /\ v \in Range(f[j]) => i = j
    PROVE  IsInjective(FlattenSeq(f))
<1>1. \A i, j \in DOMAIN s : i # j => Range(f[i]) \cap Range(f[j]) = {}
    OBVIOUS
<1> QED
    BY <1>1, FlattenedParts

\* expand_trials: the loops make a list of the trials that are meant.
LEMMA ExpandedElements ==
    ASSUME NEW config, IsLoaded(config)
    PROVE  /\ IsSequence(AllTrials(config)) /\ Range(AllTrials(config)) = Meant(config)
           /\ RepeatsNothing(config) => IsInjective(AllTrials(config))
<1> DEFINE models == config.models
           combinations == Combinations(config.swept)
           prompts == config.prompts
           gens == config.gens
           params(m, c) == TrialParams(config, models[m], combinations[c])
           trial(m, c, p, g) == [model |-> models[m], params |-> params(m, c),
                                 prompt_tokens |-> prompts[p], gen_tokens |-> gens[g]]
           ofPrompt(m, c, p) == [g \in DOMAIN gens |-> trial(m, c, p, g)]
           byPrompt(m, c) == [p \in DOMAIN prompts |-> ofPrompt(m, c, p)]
           ofCombination(m, c) == FlattenSeq(byPrompt(m, c))
           byCombination(m) == [c \in DOMAIN combinations |-> ofCombination(m, c)]
           ofModel(m) == FlattenSeq(byCombination(m))
           byModel == [m \in DOMAIN models |-> ofModel(m)]
           all == FlattenSeq(byModel)
           once == RepeatsNothing(config)
<1>1. AllTrials(config) = all
    BY DEF AllTrials, Each
<1>2. /\ IsSequence(models) /\ IsSequence(prompts) /\ IsSequence(gens)
      /\ IsSequence(combinations) /\ Range(combinations) = Assignments(config.swept)
      /\ \A l, m \in DOMAIN models : models[l].name = models[m].name => l = m
    BY CombinationsAreAssigned, AssignmentsAreAssigned DEF IsLoaded
<1>3. once => IsInjective(prompts) /\ IsInjective(gens)
    BY DEF RepeatsNothing
<1>4. ASSUME once, NEW m, NEW c \in DOMAIN combinations, NEW d \in DOMAIN combinations,
             params(m, c) = params(m, d)
      PROVE  c = d
    <2> DEFINE swept == config.swept
               K == KeysOf(swept, Len(swept))
               f == combinations[c]
               g == combinations[d]
    <2>1. IsSequence(swept) /\ DOMAIN swept = 1..Len(swept)
        BY DEF IsLoaded, IsSequence
    <2>2. \A item \in Range(swept) :
              IsInjective(item.values) /\ item.key \notin DOMAIN config.params \cup config.omit
        BY <1>4 DEF RepeatsNothing
    <2>3. \A i \in DOMAIN swept : swept[i] \in Range(swept)
        BY DEF Range
    <2>4. IsInjective(combinations) /\ Range(combinations) = Assigned(swept, Len(swept))
        BY <2>2, <2>3, CombinationsAreAssigned DEF IsLoaded
    <2>5. f \in Range(combinations) /\ g \in Range(combinations)
        BY DEF Range
    <2>6. f \in [K -> ValuesOf(swept)] /\ g \in [K -> ValuesOf(swept)]
        BY <2>4, <2>5 DEF Assigned
    <2>7. \A key \in K : key \notin DOMAIN config.params \cup config.omit
        BY <2>1, <2>2, <2>3 DEF KeysOf
    <2>8. TrialParams(config, models[m], f) = TrialParams(config, models[m], g)
        BY <1>4
    <2> HIDE DEF K, f, g, swept
    <2>9. f = g
        BY <2>6, <2>7, <2>8, ParamsTellAssignment
    <2> QED
        BY <2>4, <2>9 DEF f, g, IsInjective
<1>5. \A m, c, p, g : /\ trial(m, c, p, g).model = models[m]
                      /\ trial(m, c, p, g).params = params(m, c)
                      /\ trial(m, c, p, g).prompt_tokens = prompts[p]
                      /\ trial(m, c, p, g).gen_tokens = gens[g]
    OBVIOUS
<1> DEFINE meant == {trial(m, c, p, g) : m \in DOMAIN models, c \in DOMAIN combinations,
                                         p \in DOMAIN prompts, g \in DOMAIN gens}
<1>7. meant = Meant(config)
    <2>1. \A model, f : TrialParams(config, model, f) = Scoped(config, model, f)
        BY ParamsAreScoped
    <2>2. ASSUME NEW t \in meant PROVE t \in Meant(config)
        <3>1. PICK m \in DOMAIN models, c \in DOMAIN combinations, p \in DOMAIN prompts,
                   g \in DOMAIN gens : t = trial(m, c, p, g)
            OBVIOUS
        <3>2. /\ models[m] \in Range(models) /\ combinations[c] \in Range(combinations)
              /\ prompts[p] \in Range(prompts) /\ gens[g] \in Range(gens)
            BY DEF Range
        <3> HIDE DEF combinations
        <3> QED
            BY <1>2, <2>1, <3>1, <3>2 DEF Meant
    <2>3. ASSUME NEW t \in Meant(config) PROVE t \in meant
        <3>1. PICK model \in Range(models), f \in Range(combinations), v \in Range(prompts),
                   w \in Range(gens) :
                  t = [model |-> model, params |-> TrialParams(config, model, f),
                       prompt_tokens |-> v, gen_tokens |-> w]
            BY <1>2, <2>1 DEF Meant
        <3>2. PICK m \in DOMAIN models : model = models[m]
            BY DEF Range
        <3>3. PICK c \in DOMAIN combinations : f = combinations[c]
            BY DEF Range
        <3>4. PICK p \in DOMAIN prompts : v = prompts[p]
            BY DEF Range
        <3>5. PICK g \in DOMAIN gens : w = gens[g]
            BY DEF Range
        <3>6. t = trial(m, c, p, g)
            BY <3>1, <3>2, <3>3, <3>4, <3>5
        <3> HIDE DEF trial
        <3> QED
            BY <3>6
    <2> HIDE DEF meant
    <2> QED
        BY <2>2, <2>3
<1> HIDE DEF models, combinations, prompts, gens, params, trial, once, meant
<1>8. ASSUME NEW m, NEW c, NEW p
      PROVE  /\ IsSequence(ofPrompt(m, c, p))
             /\ Range(ofPrompt(m, c, p)) = {trial(m, c, p, g) : g \in DOMAIN gens}
             /\ once => IsInjective(ofPrompt(m, c, p))
    <2> DEFINE s == ofPrompt(m, c, p)
    <2>1. s = [g \in DOMAIN gens |-> s[g]] /\ DOMAIN s = DOMAIN gens
          /\ \A g \in DOMAIN gens : s[g] = trial(m, c, p, g)
        OBVIOUS
    <2> HIDE DEF s
    <2>2. IsSequence(s)
        BY <1>2, <2>1, MappedIsSequence
    <2>3. Range(s) = {trial(m, c, p, g) : g \in DOMAIN gens}
        BY <2>1 DEF Range
    <2>4. once => IsInjective(s)
        BY <1>3, <1>5, <2>1 DEF IsInjective
    <2> QED
        BY <2>2, <2>3, <2>4 DEF s
<1> HIDE DEF ofPrompt
<1>9. ASSUME NEW m, NEW c
      PROVE  /\ IsSequence(ofCombination(m, c))
             /\ Range(ofCombination(m, c)) =
                    {trial(m, c, p, g) : p \in DOMAIN prompts, g \in DOMAIN gens}
             /\ once => IsInjective(ofCombination(m, c))
    <2> DEFINE f == byPrompt(m, c)
    <2>1. f = [p \in DOMAIN prompts |-> f[p]] /\ \A p \in DOMAIN prompts : f[p] = ofPrompt(m, c, p)
        OBVIOUS
    <2>2. ofCombination(m, c) = FlattenSeq(f)
        OBVIOUS
    <2> HIDE DEF f, ofCombination
    <2>3. IsSequence(FlattenSeq(f))
          /\ Range(FlattenSeq(f)) = UNION {Range(f[p]) : p \in DOMAIN prompts}
        BY <1>2, <1>8, <2>1, FlattenedParts
    <2>4. UNION {Range(f[p]) : p \in DOMAIN prompts}
          = {trial(m, c, p, g) : p \in DOMAIN prompts, g \in DOMAIN gens}
        BY <1>8, <2>1
    <2>5. ASSUME once PROVE IsInjective(FlattenSeq(f))
        <3>1. ASSUME NEW p \in DOMAIN prompts, NEW q \in DOMAIN prompts,
                     NEW v, v \in Range(f[p]), v \in Range(f[q])
              PROVE  p = q
            <4>1. PICK g \in DOMAIN gens : v = trial(m, c, p, g)
                BY <1>8, <2>1, <3>1
            <4>2. PICK h \in DOMAIN gens : v = trial(m, c, q, h)
                BY <1>8, <2>1, <3>1
            <4>3. trial(m, c, p, g) = trial(m, c, q, h)
                BY <4>1, <4>2, Zenon
            <4>4. prompts[p] = prompts[q]
                BY <1>5, <4>3
            <4> QED
                BY <1>3, <2>5, <4>4 DEF IsInjective
        <3>2. \A p \in DOMAIN prompts : IsSequence(f[p]) /\ IsInjective(f[p])
            BY <1>8, <2>1, <2>5
        <3> QED
            BY <1>2, <2>1, <3>1, <3>2, NestedOnce
    <2> QED
        BY <2>2, <2>3, <2>4, <2>5
<1> HIDE DEF ofCombination
<1>10. ASSUME NEW m \in DOMAIN models
       PROVE  /\ IsSequence(ofModel(m))
              /\ Range(ofModel(m)) = {trial(m, c, p, g) : c \in DOMAIN combinations,
                                                          p \in DOMAIN prompts, g \in DOMAIN gens}
              /\ once => IsInjective(ofModel(m))
    <2> DEFINE f == byCombination(m)
    <2>1. f = [c \in DOMAIN combinations |-> f[c]]
          /\ \A c \in DOMAIN combinations : f[c] = ofCombination(m, c)
        OBVIOUS
    <2>2. ofModel(m) = FlattenSeq(f)
        OBVIOUS
    <2> HIDE DEF f, ofModel
    <2>3. IsSequence(FlattenSeq(f))
          /\ Range(FlattenSeq(f)) = UNION {Range(f[c]) : c \in DOMAIN combinations}
        BY <1>2, <1>9, <2>1, FlattenedParts
    <2>4. UNION {Range(f[c]) : c \in DOMAIN combinations}
          = {trial(m, c, p, g) : c \in DOMAIN combinations, p \in DOMAIN prompts, g \in DOMAIN gens}
        BY <1>9, <2>1
    <2>5. ASSUME once PROVE IsInjective(FlattenSeq(f))
        <3>1. ASSUME NEW c \in DOMAIN combinations, NEW d \in DOMAIN combinations,
                     NEW v, v \in Range(f[c]), v \in Range(f[d])
              PROVE  c = d
            <4>1. PICK p \in DOMAIN prompts, g \in DOMAIN gens : v = trial(m, c, p, g)
                BY <1>9, <2>1, <3>1
            <4>2. PICK q \in DOMAIN prompts, h \in DOMAIN gens : v = trial(m, d, q, h)
                BY <1>9, <2>1, <3>1
            <4>3. trial(m, c, p, g) = trial(m, d, q, h)
                BY <4>1, <4>2, Zenon
            <4>4. params(m, c) = params(m, d)
                BY <1>5, <4>3
            <4> QED
                BY <1>4, <2>5, <4>4
        <3>2. \A c \in DOMAIN combinations : IsSequence(f[c]) /\ IsInjective(f[c])
            BY <1>9, <2>1, <2>5
        <3> QED
            BY <1>2, <2>1, <3>1, <3>2, NestedOnce
    <2> QED
        BY <2>2, <2>3, <2>4, <2>5
<1> HIDE DEF ofModel
<1>11. IsSequence(all) /\ Range(all) = meant /\ (once => IsInjective(all))
    <2> DEFINE f == byModel
    <2>1. f = [m \in DOMAIN models |-> f[m]] /\ \A m \in DOMAIN models : f[m] = ofModel(m)
        OBVIOUS
    <2>2. all = FlattenSeq(f)
        OBVIOUS
    <2> HIDE DEF f, all
    <2>3. IsSequence(FlattenSeq(f))
          /\ Range(FlattenSeq(f)) = UNION {Range(f[m]) : m \in DOMAIN models}
        BY <1>2, <1>10, <2>1, FlattenedParts
    <2>4. UNION {Range(f[m]) : m \in DOMAIN models} = meant
        BY <1>10, <2>1 DEF meant
    <2>5. ASSUME once PROVE IsInjective(FlattenSeq(f))
        <3>1. ASSUME NEW m \in DOMAIN models, NEW n \in DOMAIN models,
                     NEW v, v \in Range(f[m]), v \in Range(f[n])
              PROVE  m = n
            <4>1. PICK c \in DOMAIN combinations, p \in DOMAIN prompts, g \in DOMAIN gens :
                      v = trial(m, c, p, g)
                BY <1>10, <2>1, <3>1
            <4>2. PICK d \in DOMAIN combinations, q \in DOMAIN prompts, h \in DOMAIN gens :
                      v = trial(n, d, q, h)
                BY <1>10, <2>1, <3>1
            <4>3. trial(m, c, p, g) = trial(n, d, q, h)
                BY <4>1, <4>2, Zenon
            <4>4. models[m] = models[n]
                BY <1>5, <4>3
            <4> QED
                BY <1>2, <4>4
        <3>2. \A m \in DOMAIN models : IsSequence(f[m]) /\ IsInjective(f[m])
            BY <1>10, <2>1, <2>5
        <3> QED
            BY <1>2, <2>1, <3>1, <3>2, NestedOnce
    <2> QED
        BY <2>2, <2>3, <2>4, <2>5
<1> HIDE DEF all
<1> QED
    BY <1>1, <1>7, <1>11 DEF once

LEMMA LoadedIsLoaded ==
    ASSUME NEW c \in AllCommands, c.name = "bench"
    PROVE  IsLoaded(c.config) /\ c.limit \in Nat
<1> DEFINE config == c.config
<1>1. /\ config.models \in Seq(Range(config.models))
      /\ config.prompts \in Seq(Range(config.prompts))
      /\ config.gens \in Seq(Range(config.gens))
      /\ config.swept \in Seq(Range(config.swept))
      /\ \A item \in Range(config.swept) : item.values \in Seq(Range(item.values))
      /\ \A i, j \in DOMAIN config.models : config.models[i].name = config.models[j].name => i = j
      /\ \A i, j \in DOMAIN config.swept : config.swept[i].key = config.swept[j].key => i = j
      /\ c.limit \in Nat
    BY ConfigsAssumption
<1> HIDE DEF config
<1>2. \A s : s \in Seq(Range(s)) => IsSequence(s)
    BY DEF IsSequence, Range
<1>3. \A m \in DOMAIN config.swept : config.swept[m] \in Range(config.swept)
    BY DEF Range
<1>4. IsLoaded(config)
    BY <1>1, <1>2, <1>3 DEF IsLoaded
<1> QED
    BY <1>1, <1>4 DEF config

\* The trials of a sweep are a sequence (expand_trials).
LEMMA TrialsAreSequence ==
    ASSUME command \in AllCommands, command.name = "bench"
    PROVE  IsSequence(Trials) /\ Len(Trials) \in Nat
<1>1. IsLoaded(command.config) /\ command.limit \in Nat
    BY LoadedIsLoaded
<1> DEFINE all == AllTrials(command.config)
           k == IF command.limit < Len(all) THEN command.limit ELSE Len(all)
<1>2. IsSequence(all)
    BY <1>1, ExpandedElements
<1>3. Trials = SubSeq(all, 1, k)
    BY DEF Trials, ExpandTrials
<1> HIDE DEF all
<1>4. k \in 0..Len(all)
    BY <1>1, <1>2 DEF IsSequence
<1> HIDE DEF k
<1>5. SubSeq(all, 1, k) \in Seq({all[i] : i \in DOMAIN all})
    BY <1>2, <1>4, PrefixOfTrials
<1>6. IsSequence(Trials)
    BY <1>3, <1>5, SequenceOfItsElements DEF IsSequence
<1> QED
    BY <1>6 DEF IsSequence

-----------------------------------------------------------------------------
(* How the rows of a sweep go along with its trials                          *)

\* The places of a row of the sweep in the table
LEMMA RowPlaces ==
    ASSUME NEW before \in Nat, NEW k \in Nat
    PROVE  \A i \in 1..k : before + i \in 1..(before + k)
    OBVIOUS

\* A trial that is begun adds its row (run_session's first record).
LEMMA BegunTrial ==
    ASSUME NEW sw, NEW rows, NEW trials, NEW keep, NEW row, NEW sw2,
           IsSequence(rows), IsSequence(trials), sw.first \in Nat \ {0},
           sw.next \in 1..Len(trials), BetweenTrials(sw, rows, trials, keep),
           ~CannotBuild(trials[sw.next]), IsOf(row, trials[sw.next]),
           sw2.first = sw.first, sw2.next = sw.next, sw2.failures = sw.failures
    PROVE  InTrial(sw2, Append(rows, row), trials, keep)
<1> DEFINE n == sw.next
           before == sw.first - 1
           old == BuiltOf(trials, n - 1)
           new == BuiltOf(trials, n)
           m == Len(old)
           rows2 == Append(rows, row)
<1>1. n \in Nat /\ n - 1 \in Nat /\ before \in Nat /\ n <= Len(trials) /\ n - 1 \in 0..Len(trials)
      /\ n - 1 + 1 = n
    BY DEF IsSequence
<1>2. IsSequence(old) /\ m \in 0..(n - 1) /\ m \in Nat
    BY <1>1, BuiltIsSequence
<1>3. new = Append(old, trials[n])
    BY <1>1, BuiltOfMore
<1>4. /\ AreOf(rows, before, old, m)
      /\ sw.failures = <<>> <=> Perfect(rows, before, old, n - 1, m)
      /\ keep \/ sw.failures = <<>>
    BY DEF BetweenTrials
<1> HIDE DEF old, new
<1>5. /\ Len(new) = m + 1 /\ \A i \in 1..m : new[i] = old[i]
      /\ new[m + 1] = trials[n]
    BY <1>2, <1>3, AppendIsSequence
<1>6. /\ Len(rows) = before + m /\ Len(rows2) = before + m + 1
      /\ \A i \in 1..(before + m) : rows2[i] = rows[i]
      /\ rows2[before + m + 1] = row
    BY <1>4, AppendIsSequence DEF AreOf
<1>7. \A i \in 1..m : rows2[before + i] = rows[before + i]
    BY <1>1, <1>2, <1>6, RowPlaces
<1> HIDE DEF rows2, m, n, before
<1>8. AreOf(rows2, before, new, m)
    <2>1. Len(rows2) = before + Len(new)
        BY <1>1, <1>2, <1>5, <1>6
    <2>2. ASSUME NEW i \in 1..Len(new) PROVE IsOf(rows2[before + i], new[i])
        <3>1. CASE i = m + 1
            <4>1. before + i = before + m + 1
                BY <1>1, <1>2, <3>1
            <4>2. IsOf(row, trials[n])
                BY DEF n
            <4> QED
                BY <1>5, <1>6, <3>1, <4>1, <4>2
        <3>2. CASE i # m + 1
            <4>1. i \in 1..m
                BY <1>2, <1>5, <3>2
            <4> QED
                BY <1>4, <1>5, <1>7, <4>1 DEF AreOf, m
        <3> QED
            BY <3>1, <3>2
    <2>3. \A i \in 1..m : IsOver(rows2[before + i])
        BY <1>4, <1>7 DEF AreOf
    <2> QED
        BY <2>1, <2>2, <2>3 DEF AreOf
<1>9. Perfect(rows, before, old, n - 1, m) <=> Perfect(rows2, before, new, n, m)
    <2>1. AreOk(rows, before, m) <=> AreOk(rows2, before, m)
        BY <1>7 DEF AreOk
    <2>2. Len(old) = n - 1 <=> Len(new) = n
        BY <1>1, <1>2, <1>5 DEF m
    <2> QED
        BY <2>1, <2>2 DEF Perfect
<1>10. Len(new) > 0 /\ Len(new) - 1 = m
    BY <1>2, <1>5
<1>11. /\ AreOf(rows2, before, new, Len(new) - 1)
       /\ sw2.failures = <<>> <=> Perfect(rows2, before, new, n, Len(new) - 1)
       /\ keep \/ sw2.failures = <<>>
    BY <1>4, <1>8, <1>9, <1>10
<1> QED
    BY <1>1, <1>10, <1>11 DEF InTrial, new, rows2, n, before

\* A trial without a command line adds none (build_bench_command raises).
LEMMA UnbuiltTrial ==
    ASSUME NEW sw, NEW rows, NEW trials, NEW keep, IsSequence(trials),
           sw.first \in Nat \ {0}, sw.next \in 1..Len(trials),
           BetweenTrials(sw, rows, trials, keep), CannotBuild(trials[sw.next])
    PROVE  /\ \A sw2 : /\ sw2.first = sw.first /\ sw2.next = sw.next + 1
                       /\ sw2.failures # <<>> /\ keep
                       => BetweenTrials(sw2, rows, trials, keep)
           /\ \A sw2 : /\ sw2.first = sw.first /\ sw2.next = sw.next /\ sw2.step = "raised"
                       => AfterTrials(sw2, rows, trials, keep, sw.next)
<1> DEFINE n == sw.next
           before == sw.first - 1
           old == BuiltOf(trials, n - 1)
           new == BuiltOf(trials, n)
           m == Len(old)
<1>1. n \in Nat /\ n - 1 \in Nat /\ before \in Nat /\ n <= Len(trials) /\ n - 1 \in 0..Len(trials)
      /\ n - 1 + 1 = n /\ n + 1 - 1 = n /\ Len(trials) \in Nat
    BY DEF IsSequence
<1>2. IsSequence(old) /\ m \in 0..(n - 1) /\ m \in Nat
    BY <1>1, BuiltIsSequence
<1>3. new = old
    BY <1>1, BuiltOfMore
<1>4. /\ AreOf(rows, before, old, m)
      /\ sw.failures = <<>> <=> Perfect(rows, before, old, n - 1, m)
      /\ keep \/ sw.failures = <<>>
    BY DEF BetweenTrials
<1> HIDE DEF old, new
<1>5. ~Perfect(rows, before, new, n, m) /\ ~Perfect(rows, before, new, Len(trials), m)
    BY <1>1, <1>2, <1>3 DEF Perfect
<1>6. keep \/ AreOk(rows, before, m - 1)
    BY <1>2, <1>4 DEF Perfect, AreOk
<1> HIDE DEF m, n, before
<1>7. ASSUME NEW sw2, sw2.first = sw.first, sw2.next = sw.next + 1, sw2.failures # <<>>, keep
      PROVE  BetweenTrials(sw2, rows, trials, keep)
    <2>1. sw2.next - 1 = n /\ sw2.first - 1 = before
        BY <1>1, <1>7 DEF n, before
    <2>2. BuiltOf(trials, sw2.next - 1) = new /\ Len(new) = m
        BY <1>3, <2>1 DEF new, m
    <2> QED
        BY <1>3, <1>4, <1>5, <1>7, <2>1, <2>2 DEF BetweenTrials
<1>8. ASSUME NEW sw2, sw2.first = sw.first, sw2.next = sw.next, sw2.step = "raised"
      PROVE  AfterTrials(sw2, rows, trials, keep, sw.next)
    <2>1. sw2.next = n /\ sw2.first - 1 = before /\ n \in {sw2.next - 1, sw2.next}
        BY <1>8 DEF n, before
    <2>2. BuiltOf(trials, n) = new /\ Len(new) = m /\ sw2.step \notin {"ok", "interrupted"}
        BY <1>3, <1>8 DEF new, m
    <2> QED
        BY <1>1, <1>3, <1>4, <1>5, <1>6, <2>1, <2>2 DEF AfterTrials, n
<1> QED
    BY <1>7, <1>8

\* The current row gets its outcome.
LEMMA EndedTrial ==
    ASSUME NEW sw, NEW rows, NEW trials, NEW keep, NEW rows2, IsSequence(trials),
           sw.first \in Nat \ {0}, sw.next \in 1..Len(trials),
           InTrial(sw, rows, trials, keep), Len(rows2) = Len(rows),
           \A i \in 1..(Len(rows) - 1) : rows2[i] = rows[i],
           rows2[Len(rows)].config = rows[Len(rows)].config,
           DOMAIN rows2[Len(rows)] = DOMAIN rows[Len(rows)],
           IsOver(rows2[Len(rows)])
    PROVE  /\ rows2[Len(rows)].status = "ok" =>
                  \A sw2 : /\ sw2.first = sw.first /\ sw2.next = sw.next + 1
                           /\ sw2.failures = sw.failures
                           => BetweenTrials(sw2, rows2, trials, keep)
           /\ rows2[Len(rows)].status # "ok" =>
                  /\ \A sw2 : /\ sw2.first = sw.first /\ sw2.next = sw.next + 1
                              /\ sw2.failures # <<>> /\ keep
                              => BetweenTrials(sw2, rows2, trials, keep)
                  /\ \A sw2 : /\ sw2.first = sw.first /\ sw2.next = sw.next
                              /\ sw2.step \in {"raised", "interrupted"}
                              => AfterTrials(sw2, rows2, trials, keep, sw.next)
<1> DEFINE n == sw.next
           before == sw.first - 1
           built == BuiltOf(trials, n)
           k == Len(built)
           last == rows2[Len(rows)]
<1>1. n \in Nat /\ before \in Nat /\ n <= Len(trials) /\ n \in 0..Len(trials)
      /\ n + 1 - 1 = n /\ Len(trials) \in Nat
    BY DEF IsSequence
<1>2. IsSequence(built) /\ k \in 0..n
    BY <1>1, BuiltIsSequence
<1>3. /\ k > 0
      /\ AreOf(rows, before, built, k - 1)
      /\ sw.failures = <<>> <=> Perfect(rows, before, built, n, k - 1)
      /\ keep \/ sw.failures = <<>>
    BY DEF InTrial
<1> HIDE DEF built
<1>4. Len(rows) = before + k /\ k \in Nat /\ k - 1 \in Nat
    BY <1>2, <1>3 DEF AreOf
<1>5. /\ last = rows2[before + k] /\ last.config = rows[before + k].config
      /\ DOMAIN last = DOMAIN rows[before + k] /\ IsOver(last)
    BY <1>4
<1>6. \A i \in 1..(k - 1) : rows2[before + i] = rows[before + i]
    <2> SUFFICES ASSUME NEW i \in 1..(k - 1) PROVE rows2[before + i] = rows[before + i]
        OBVIOUS
    <2>1. before + i \in 1..(before + (k - 1))
        BY <1>1, <1>4, RowPlaces
    <2>2. before + (k - 1) = Len(rows) - 1
        BY <1>1, <1>4
    <2> QED
        BY <2>1, <2>2
<1> HIDE DEF k, n, before, last
<1>7. \A i \in 1..k : i = k \/ i \in 1..(k - 1)
    BY <1>4
<1>8. AreOf(rows2, before, built, k)
    <2>1. Len(rows2) = before + k
        BY <1>4
    <2>2. ASSUME NEW i \in 1..k PROVE IsOf(rows2[before + i], built[i])
        <3>1. IsOf(rows[before + i], built[i])
            BY <1>3 DEF AreOf, k
        <3> QED
            BY <1>5, <1>6, <1>7, <3>1 DEF IsOf
    <2>3. ASSUME NEW i \in 1..k PROVE IsOver(rows2[before + i])
        <3>1. CASE i = k
            BY <1>5, <3>1
        <3>2. CASE i \in 1..(k - 1)
            BY <1>3, <1>6, <3>2 DEF AreOf
        <3> QED
            BY <1>7, <3>1, <3>2
    <2> QED
        BY <2>1, <2>2, <2>3 DEF AreOf, k
<1>9. AreOk(rows2, before, k - 1) <=> AreOk(rows, before, k - 1)
    BY <1>6 DEF AreOk
<1>10. AreOk(rows2, before, k) <=> AreOk(rows, before, k - 1) /\ last.status = "ok"
    <2>1. k \in 1..k /\ \A i \in 1..(k - 1) : i \in 1..k
        BY <1>3, <1>4
    <2> QED
        BY <1>5, <1>6, <1>7, <2>1 DEF AreOk
<1>11. ASSUME last.status = "ok", NEW sw2, sw2.first = sw.first, sw2.next = sw.next + 1,
              sw2.failures = sw.failures
       PROVE  BetweenTrials(sw2, rows2, trials, keep)
    <2>1. sw2.next - 1 = n /\ sw2.first - 1 = before
        BY <1>1, <1>11 DEF n, before
    <2>2. BuiltOf(trials, sw2.next - 1) = built
        BY <2>1 DEF built
    <2>3. Perfect(rows2, before, built, n, k) <=> Perfect(rows, before, built, n, k - 1)
        BY <1>10, <1>11 DEF Perfect
    <2> QED
        BY <1>3, <1>8, <1>11, <2>1, <2>2, <2>3 DEF BetweenTrials, k
<1>12. ASSUME last.status # "ok"
       PROVE  /\ ~Perfect(rows2, before, built, n, k)
              /\ ~Perfect(rows2, before, built, Len(trials), k)
              /\ keep \/ AreOk(rows2, before, k - 1)
    BY <1>3, <1>9, <1>10, <1>12 DEF Perfect
<1>13. ASSUME last.status # "ok", NEW sw2, sw2.first = sw.first, sw2.next = sw.next + 1,
              sw2.failures # <<>>, keep
       PROVE  BetweenTrials(sw2, rows2, trials, keep)
    <2>1. sw2.next - 1 = n /\ sw2.first - 1 = before
        BY <1>1, <1>13 DEF n, before
    <2>2. BuiltOf(trials, sw2.next - 1) = built
        BY <2>1 DEF built
    <2> QED
        BY <1>8, <1>12, <1>13, <2>1, <2>2 DEF BetweenTrials, k
<1>14. ASSUME last.status # "ok", NEW sw2, sw2.first = sw.first, sw2.next = sw.next,
              sw2.step \in {"raised", "interrupted"}
       PROVE  AfterTrials(sw2, rows2, trials, keep, sw.next)
    <2>1. sw2.next = n /\ sw2.first - 1 = before /\ n \in {sw2.next - 1, sw2.next}
        BY <1>14 DEF n, before
    <2>2. BuiltOf(trials, n) = built /\ sw2.step # "ok"
        BY <1>14 DEF built
    <2>3. AreOf(rows2, before, built, k - 1)
        <3>1. \A i \in 1..(k - 1) : i \in 1..k
            BY <1>4
        <3> QED
            BY <1>8, <3>1 DEF AreOf
    <2> QED
        BY <1>1, <1>8, <1>12, <1>14, <2>1, <2>2, <2>3 DEF AfterTrials, k, n
<1> QED
    BY <1>11, <1>13, <1>14 DEF last

\* Ctrl-C at the return of the session's enter
LEMMA UnrecordedTrial ==
    ASSUME NEW sw, NEW rows, NEW trials, NEW keep, NEW sw2, IsSequence(trials),
           sw.first \in Nat \ {0}, sw.next \in 1..Len(trials),
           InTrial(sw, rows, trials, keep),
           sw2.first = sw.first, sw2.next = sw.next, sw2.step = "interrupted"
    PROVE  AfterTrials(sw2, rows, trials, keep, sw.next)
<1> DEFINE n == sw.next
           before == sw.first - 1
           built == BuiltOf(trials, n)
           k == Len(built)
<1>1. n \in Nat /\ n <= Len(trials) /\ n \in {sw2.next - 1, sw2.next} /\ sw2.first - 1 = before
    BY DEF IsSequence
<1>2. /\ AreOf(rows, before, built, k - 1)
      /\ sw.failures = <<>> <=> Perfect(rows, before, built, n, k - 1)
      /\ keep \/ sw.failures = <<>>
    BY DEF InTrial
<1> HIDE DEF built
<1>3. keep \/ AreOk(rows, before, k - 1)
    BY <1>2 DEF Perfect
<1> QED
    BY <1>1, <1>2, <1>3 DEF AfterTrials, built

\* Ctrl-C between two trials, and the end of the sweep
LEMMA CutBetween ==
    ASSUME NEW sw, NEW rows, NEW trials, NEW keep, NEW sw2, IsSequence(trials),
           sw.first \in Nat \ {0}, sw.next \in 1..(Len(trials) + 1),
           BetweenTrials(sw, rows, trials, keep),
           sw2.first = sw.first, sw2.next = sw.next,
           \/ sw2.step = "interrupted"
           \/ /\ sw.next > Len(trials)
              /\ sw2.step = IF sw.failures = <<>> THEN "ok" ELSE "raised"
    PROVE  AfterTrials(sw2, rows, trials, keep, sw.next - 1)
<1> DEFINE n == sw.next - 1
           before == sw.first - 1
           built == BuiltOf(trials, n)
           k == Len(built)
<1>1. n \in 0..Len(trials) /\ before \in Nat /\ Len(trials) \in Nat
    BY DEF IsSequence
<1>2. k \in 0..n
    BY <1>1, BuiltIsSequence
<1>3. /\ AreOf(rows, before, built, k)
      /\ sw.failures = <<>> <=> Perfect(rows, before, built, n, k)
      /\ keep \/ sw.failures = <<>>
    BY DEF BetweenTrials
<1> HIDE DEF built
<1>4. keep \/ AreOk(rows, before, k - 1)
    BY <1>2, <1>3 DEF Perfect, AreOk
<1>5. /\ sw2.step = "ok" => Perfect(rows, before, built, Len(trials), k)
      /\ sw2.step = "raised" => ~Perfect(rows, before, built, Len(trials), k)
    <2>1. CASE sw2.step = "interrupted"
        BY <2>1
    <2>2. CASE sw.next > Len(trials) /\ sw2.step = IF sw.failures = <<>> THEN "ok" ELSE "raised"
        <3>1. n = Len(trials)
            BY <1>1, <2>2
        <3> QED
            BY <1>3, <2>2, <3>1
    <2> QED
        BY <2>1, <2>2
<1>6. AreOf(rows, before, built, k - 1)
    <2>1. \A i \in 1..(k - 1) : i \in 1..k
        BY <1>2
    <2> QED
        BY <1>3, <2>1 DEF AreOf
<1>7. n <= Len(trials) /\ n \in {sw2.next - 1, sw2.next} /\ sw2.first - 1 = before
    BY <1>1
<1> QED
    BY <1>3, <1>4, <1>5, <1>6, <1>7 DEF AfterTrials, built

-----------------------------------------------------------------------------
(* The rows of a sweep through its steps                                     *)

\* The command of a sweep stays, and so do its trials.
LEMMA SweepStep ==
    ASSUME UNCHANGED command, DOMAIN sweep' = SweepFields,
           sweep'.step # "none" => SweepProgress(sweep', runs', Trials, command.keep_going)
    PROVE  SweepInv'
<1>1. Trials' = Trials
    BY DEF Trials
<1> QED
    BY <1>1 DEF SweepInv

\* While a sweep is under way
LEMMA UnderWay ==
    ASSUME CommandsInv, RecordsInv, SweepInv, sweep.step # "none"
    PROVE  /\ command \in AllCommands /\ command.name = "bench"
           /\ IsSequence(Trials) /\ Len(Trials) \in Nat /\ IsSequence(runs)
           /\ TableInv /\ FilesInv
           /\ DOMAIN sweep = SweepFields
           /\ sweep.first \in Nat \ {0} /\ sweep.next \in 1..(Len(Trials) + 1)
           /\ IsSequence(sweep.failures)
           /\ sweep.step = "next" => BetweenTrials(sweep, runs, Trials, command.keep_going)
           /\ sweep.step \in Running =>
                  /\ InTrial(sweep, runs, Trials, command.keep_going)
                  /\ sweep.next \in 1..Len(Trials)
<1>1. command.name = "bench"
    BY DEF CommandsInv, ExecutingInv
<1>2. command \in AllCommands
    BY <1>1 DEF RecordsInv, CurrentInv, NoCommand
<1>3. IsSequence(Trials) /\ Len(Trials) \in Nat
    BY <1>1, <1>2, TrialsAreSequence
<1>4. TableInv /\ FilesInv /\ IsSequence(runs)
    BY DEF CommandsInv, MigrationInv, TableInv, RecordsInv, IsSequence
<1>5. DOMAIN sweep = SweepFields /\ SweepProgress(sweep, runs, Trials, command.keep_going)
    BY DEF SweepInv
<1>6. sweep.step \in Running =>
          InTrial(sweep, runs, Trials, command.keep_going) /\ sweep.next <= Len(Trials)
    BY <1>5 DEF SweepProgress, InTrial
<1>7. sweep.step \in Running => sweep.next \in 1..Len(Trials)
    BY <1>3, <1>5, <1>6 DEF SweepProgress
<1> QED
    BY <1>1, <1>2, <1>3, <1>4, <1>5, <1>6, <1>7 DEF SweepProgress

LEMMA MoreFailures ==
    ASSUME NEW failures, IsSequence(failures), NEW e
    PROVE  IsSequence(Append(failures, e)) /\ Append(failures, e) # <<>>
<1>1. IsSequence(Append(failures, e)) /\ Len(Append(failures, e)) = Len(failures) + 1
      /\ Len(failures) \in Nat
    BY AppendIsSequence
<1>2. Len(<<>>) = 0
    OBVIOUS
<1> QED
    BY <1>1, <1>2

\* How a sweep's own state changes
LEMMA SweepFieldsOfSteps ==
    ASSUME DOMAIN sweep = SweepFields
    PROVE  /\ DOMAIN Continued = SweepFields /\ Continued.step = "next"
           /\ Continued.first = sweep.first /\ Continued.next = sweep.next + 1
           /\ Continued.failures = sweep.failures
           /\ DOMAIN Raised = SweepFields /\ Raised.first = sweep.first
           /\ command.keep_going =>
                  /\ Raised.step = "next" /\ Raised.next = sweep.next + 1
                  /\ Raised.failures = Append(sweep.failures, sweep.next)
           /\ ~command.keep_going =>
                  /\ Raised.step = "raised" /\ Raised.next = sweep.next
                  /\ Raised.failures = sweep.failures
           /\ DOMAIN Interrupted = SweepFields /\ Interrupted.step = "interrupted"
           /\ Interrupted.first = sweep.first /\ Interrupted.next = sweep.next
           /\ Interrupted.failures = sweep.failures
<1>1. /\ DOMAIN Continued = SweepFields /\ Continued.step = "next"
      /\ Continued.first = sweep.first /\ Continued.next = sweep.next + 1
      /\ Continued.failures = sweep.failures
    BY DEF Continued, SweepFields
<1>2. /\ DOMAIN Interrupted = SweepFields /\ Interrupted.step = "interrupted"
      /\ Interrupted.first = sweep.first /\ Interrupted.next = sweep.next
      /\ Interrupted.failures = sweep.failures
    BY DEF Interrupted, SweepFields
<1>3. CASE command.keep_going
    <2>1. Raised = [Continued EXCEPT !.failures = Append(sweep.failures, sweep.next)]
        BY <1>1, <1>3 DEF Raised
    <2> QED
        BY <1>1, <1>2, <1>3, <2>1 DEF SweepFields
<1>4. CASE ~command.keep_going
    <2>1. Raised = [sweep EXCEPT !.step = "raised"]
        BY <1>4 DEF Raised
    <2> QED
        BY <1>1, <1>2, <1>4, <2>1 DEF SweepFields
<1> QED
    BY <1>3, <1>4

\* The current trial's session records its outcome.
LEMMA RecordedTrial ==
    ASSUME CommandsInv, RecordsInv, SweepInv, sweep.step \in Running, UNCHANGED command,
           NEW status, NEW metrics, runs' = Ended(status, metrics),
           \/ /\ status = "ok" /\ sweep' = Continued
           \/ status = "failed" /\ sweep' \in {Raised, Interrupted}
    PROVE  SweepInv'
<1> DEFINE keep == command.keep_going
<1>1. /\ IsSequence(Trials) /\ Len(Trials) \in Nat /\ IsSequence(runs) /\ TableInv /\ FilesInv
      /\ DOMAIN sweep = SweepFields /\ sweep.first \in Nat \ {0}
      /\ IsSequence(sweep.failures)
      /\ InTrial(sweep, runs, Trials, keep) /\ sweep.next \in 1..Len(Trials)
    BY UnderWay DEF Running, Waiting
<1>2. Current \in DOMAIN runs /\ Current = Len(runs)
    <2>1. SweepsRow
        BY DEF RecordsInv, CurrentInv
    <2> QED
        BY <2>1 DEF SweepsRow, Running, Current
<1>3. /\ Len(runs') = Len(runs) /\ DOMAIN runs' = DOMAIN runs
      /\ \A i \in DOMAIN runs : i # Current => runs'[i] = runs[i]
      /\ runs'[Current] = [runs[Current] EXCEPT !.status = status, !.metrics = metrics,
                                                !.listed = TRUE]
    <2>1. runs' = Ended(status, metrics)
        OBVIOUS
    <2>2. TableInv /\ FilesInv /\ Current \in DOMAIN runs
        BY <1>1, <1>2
    <2> QED
        BY <2>1, <2>2, EndedRow
<1>4. RowFields \subseteq DOMAIN runs[Current] /\ "metrics" \in DOMAIN runs[Current]
    <2> DEFINE built == BuiltOf(Trials, sweep.next)
               before == sweep.first - 1
               k == Len(built)
    <2>1. sweep.next \in 0..Len(Trials) /\ before \in Nat
        BY <1>1
    <2>2. k \in Nat
        BY <1>1, <2>1, BuiltIsSequence
    <2>3. k > 0 /\ AreOf(runs, before, built, k - 1)
        BY <1>1 DEF InTrial
    <2> HIDE DEF built, before
    <2>4. k \in 1..k
        BY <2>2, <2>3
    <2>5. IsOf(runs[before + k], built[k]) /\ Len(runs) = before + k
        BY <2>3, <2>4 DEF AreOf
    <2> QED
        BY <1>1, <1>2, <2>5 DEF IsOf, TableInv
<1>5. /\ runs'[Current].status = status /\ runs'[Current].metrics = metrics
      /\ runs'[Current].config = runs[Current].config
      /\ DOMAIN runs'[Current] = DOMAIN runs[Current]
    BY <1>3, <1>4 DEF RowFields
<1>6. /\ \A i \in 1..(Len(runs) - 1) : runs'[i] = runs[i]
      /\ IsOver(runs'[Len(runs)])
    <2>1. DOMAIN runs = 1..Len(runs) /\ Len(runs) \in Nat
        BY <1>1, TableShape
    <2>2. \A i \in 1..(Len(runs) - 1) : i \in DOMAIN runs /\ i # Current
        BY <1>2, <2>1
    <2> QED
        BY <1>2, <1>3, <1>5, <2>2 DEF IsOver
<1>7. /\ runs'[Len(runs)].config = runs[Len(runs)].config
      /\ DOMAIN runs'[Len(runs)] = DOMAIN runs[Len(runs)]
      /\ runs'[Len(runs)].status = status
    BY <1>2, <1>5
<1>8. /\ status = "ok" =>
             \A sw2 : /\ sw2.first = sweep.first /\ sw2.next = sweep.next + 1
                      /\ sw2.failures = sweep.failures
                      => BetweenTrials(sw2, runs', Trials, keep)
      /\ status # "ok" =>
             /\ \A sw2 : /\ sw2.first = sweep.first /\ sw2.next = sweep.next + 1
                         /\ sw2.failures # <<>> /\ keep
                         => BetweenTrials(sw2, runs', Trials, keep)
             /\ \A sw2 : /\ sw2.first = sweep.first /\ sw2.next = sweep.next
                         /\ sw2.step \in {"raised", "interrupted"}
                         => AfterTrials(sw2, runs', Trials, keep, sweep.next)
    <2> DEFINE sw == sweep
               rows == runs
               rows2 == runs'
               trials == Trials
    <2>1. /\ IsSequence(trials) /\ sw.first \in Nat \ {0} /\ sw.next \in 1..Len(trials)
          /\ InTrial(sw, rows, trials, keep) /\ Len(rows2) = Len(rows)
          /\ \A i \in 1..(Len(rows) - 1) : rows2[i] = rows[i]
          /\ rows2[Len(rows)].config = rows[Len(rows)].config
          /\ DOMAIN rows2[Len(rows)] = DOMAIN rows[Len(rows)]
          /\ IsOver(rows2[Len(rows)]) /\ rows2[Len(rows)].status = status
        BY <1>1, <1>3, <1>6, <1>7
    <2> HIDE DEF sw, rows, rows2, trials, keep
    <2>2. /\ status = "ok" =>
                 \A sw2 : /\ sw2.first = sw.first /\ sw2.next = sw.next + 1
                          /\ sw2.failures = sw.failures
                          => BetweenTrials(sw2, rows2, trials, keep)
          /\ status # "ok" =>
                 /\ \A sw2 : /\ sw2.first = sw.first /\ sw2.next = sw.next + 1
                             /\ sw2.failures # <<>> /\ keep
                             => BetweenTrials(sw2, rows2, trials, keep)
                 /\ \A sw2 : /\ sw2.first = sw.first /\ sw2.next = sw.next
                             /\ sw2.step \in {"raised", "interrupted"}
                             => AfterTrials(sw2, rows2, trials, keep, sw.next)
        BY <2>1, EndedTrial
    <2> QED
        BY <2>2 DEF sw, rows, rows2, trials
<1>9. /\ sweep.next + 1 \in 1..(Len(Trials) + 1) /\ sweep.next \in 1..(Len(Trials) + 1)
      /\ sweep.next \in Nat
    BY <1>1
<1>10. CASE status = "ok" /\ sweep' = Continued
    <2>1. /\ DOMAIN sweep' = SweepFields /\ sweep'.step = "next"
          /\ sweep'.first = sweep.first /\ sweep'.next = sweep.next + 1
          /\ sweep'.failures = sweep.failures
        BY <1>1, <1>10, SweepFieldsOfSteps
    <2>2. BetweenTrials(sweep', runs', Trials, keep)
        BY <1>8, <1>10, <2>1
    <2>3. SweepProgress(sweep', runs', Trials, keep)
        BY <1>1, <1>9, <2>1, <2>2 DEF SweepProgress, Running, Waiting
    <2> QED
        BY <2>1, <2>3, SweepStep
<1>11. CASE status = "failed" /\ sweep' = Raised /\ keep
    <2>1. /\ DOMAIN sweep' = SweepFields /\ sweep'.step = "next"
          /\ sweep'.first = sweep.first /\ sweep'.next = sweep.next + 1
          /\ sweep'.failures = Append(sweep.failures, sweep.next)
        BY <1>1, <1>11, SweepFieldsOfSteps
    <2>2. IsSequence(sweep'.failures) /\ sweep'.failures # <<>>
        BY <1>1, <2>1, MoreFailures
    <2>3. BetweenTrials(sweep', runs', Trials, keep)
        BY <1>8, <1>11, <2>1, <2>2
    <2>4. SweepProgress(sweep', runs', Trials, keep)
        BY <1>1, <1>9, <2>1, <2>2, <2>3 DEF SweepProgress, Running, Waiting
    <2> QED
        BY <2>1, <2>4, SweepStep
<1>12. CASE status = "failed" /\ (sweep' = Interrupted \/ (sweep' = Raised /\ ~keep))
    <2>1. /\ DOMAIN sweep' = SweepFields /\ sweep'.step \in {"raised", "interrupted"}
          /\ sweep'.first = sweep.first /\ sweep'.next = sweep.next
          /\ sweep'.failures = sweep.failures
        BY <1>1, <1>12, SweepFieldsOfSteps
    <2>2. AfterTrials(sweep', runs', Trials, keep, sweep.next)
        BY <1>8, <1>12, <2>1
    <2>3. SweepProgress(sweep', runs', Trials, keep)
        BY <1>1, <1>9, <2>1, <2>2 DEF SweepProgress, Running, Waiting
    <2> QED
        BY <2>1, <2>3, SweepStep
<1> QED
    BY <1>10, <1>11, <1>12

LEMMA StartSweepKeeps ==
    ASSUME CommandsInv, RecordsInv, SweepInv, StartSweep
    PROVE  SweepInv'
<1>1. /\ command.name = "bench" /\ UNCHANGED <<runs, command>>
      /\ sweep' = [step |-> "next", next |-> 1, failures |-> <<>>, first |-> Current + 1]
    BY DEF StartSweep, table, given
<1>2. command \in AllCommands
    BY <1>1 DEF RecordsInv, CurrentInv, NoCommand
<1>3. IsSequence(Trials) /\ Len(Trials) \in Nat
    BY <1>1, <1>2, TrialsAreSequence
<1>4. Len(runs) \in Nat
    BY DEF CommandsInv, MigrationInv, TableInv
<1>5. /\ DOMAIN sweep' = SweepFields /\ sweep'.step = "next" /\ sweep'.next = 1
      /\ sweep'.failures = <<>> /\ sweep'.first = Len(runs) + 1
    BY <1>1 DEF SweepFields, Current
<1>6. BuiltOf(Trials, 0) = <<>>
    BY <1>3, BuiltOfNone
<1>7. AreOf(runs, Len(runs), <<>>, 0) /\ AreOk(runs, Len(runs), 0)
    BY <1>4 DEF AreOf, AreOk
<1>8. Len(<<>>) = 0
    OBVIOUS
<1>9. BetweenTrials(sweep', runs, Trials, command.keep_going)
    <2>1. sweep'.next - 1 = 0 /\ sweep'.first - 1 = Len(runs)
        BY <1>4, <1>5
    <2> QED
        BY <1>5, <1>6, <1>7, <1>8, <2>1 DEF BetweenTrials, Perfect
<1>10. IsSequence(<<>>)
    BY DEF IsSequence
<1>11. SweepProgress(sweep', runs', Trials, command.keep_going)
    BY <1>1, <1>3, <1>4, <1>5, <1>9, <1>10 DEF SweepProgress, Running, Waiting
<1> QED
    BY <1>1, <1>5, <1>11, SweepStep

LEMMA BeginTrialKeeps ==
    ASSUME CommandsInv, RecordsInv, SweepInv, BeginTrial
    PROVE  SweepInv'
<1> DEFINE keep == command.keep_going
           trial == Trials[sweep.next]
<1>1. /\ sweep.step = "next" /\ sweep.next <= Len(Trials) /\ UNCHANGED command
      /\ \/ CannotBuild(trial) /\ sweep' = Raised /\ UNCHANGED runs
         \/ /\ ~CannotBuild(trial) /\ runs' = Append(runs, TrialRow(command.config, trial))
            /\ sweep' = [sweep EXCEPT !.step = "starting"]
    BY DEF BeginTrial, Begin, table, given
<1>2. /\ IsSequence(Trials) /\ Len(Trials) \in Nat /\ IsSequence(runs)
      /\ DOMAIN sweep = SweepFields /\ sweep.first \in Nat \ {0}
      /\ IsSequence(sweep.failures)
      /\ BetweenTrials(sweep, runs, Trials, keep) /\ sweep.next \in 1..Len(Trials)
    BY <1>1, UnderWay
<1>3. /\ sweep.next + 1 \in 1..(Len(Trials) + 1) /\ sweep.next \in 1..(Len(Trials) + 1)
      /\ sweep.next \in Nat
    BY <1>2
<1>4. CASE CannotBuild(trial) /\ sweep' = Raised /\ UNCHANGED runs
    <2>1. CASE keep
        <3>1. /\ DOMAIN sweep' = SweepFields /\ sweep'.step = "next"
              /\ sweep'.first = sweep.first /\ sweep'.next = sweep.next + 1
              /\ sweep'.failures = Append(sweep.failures, sweep.next)
            BY <1>2, <1>4, <2>1, SweepFieldsOfSteps
        <3>2. IsSequence(sweep'.failures) /\ sweep'.failures # <<>>
            BY <1>2, <3>1, MoreFailures
        <3>3. BetweenTrials(sweep', runs, Trials, keep)
            <4> HIDE DEF keep
            <4> QED
                BY <1>2, <1>4, <2>1, <3>1, <3>2, UnbuiltTrial
        <3>4. SweepProgress(sweep', runs', Trials, keep)
            BY <1>2, <1>3, <1>4, <3>1, <3>2, <3>3 DEF SweepProgress, Running, Waiting
        <3> QED
            BY <1>1, <3>1, <3>4, SweepStep
    <2>2. CASE ~keep
        <3>1. /\ DOMAIN sweep' = SweepFields /\ sweep'.step = "raised"
              /\ sweep'.first = sweep.first /\ sweep'.next = sweep.next
              /\ sweep'.failures = sweep.failures
            BY <1>2, <1>4, <2>2, SweepFieldsOfSteps
        <3>2. AfterTrials(sweep', runs, Trials, keep, sweep.next)
            <4> HIDE DEF keep
            <4> QED
                BY <1>2, <1>4, <3>1, UnbuiltTrial
        <3>3. SweepProgress(sweep', runs', Trials, keep)
            BY <1>2, <1>3, <1>4, <3>1, <3>2 DEF SweepProgress, Running, Waiting
        <3> QED
            BY <1>1, <3>1, <3>3, SweepStep
    <2> QED
        BY <2>1, <2>2
<1>5. CASE /\ ~CannotBuild(trial) /\ runs' = Append(runs, TrialRow(command.config, trial))
           /\ sweep' = [sweep EXCEPT !.step = "starting"]
    <2> DEFINE row == TrialRow(command.config, trial)
    <2>1. IsOf(row, trial)
        BY DEF TrialRow, NewRow, IsOf
    <2> HIDE DEF row
    <2>2. /\ DOMAIN sweep' = SweepFields /\ sweep'.step = "starting"
          /\ sweep'.first = sweep.first /\ sweep'.next = sweep.next
          /\ sweep'.failures = sweep.failures
        BY <1>2, <1>5 DEF SweepFields
    <2>3. InTrial(sweep', Append(runs, row), Trials, keep)
        <3> HIDE DEF keep
        <3> QED
            BY <1>2, <1>5, <2>1, <2>2, BegunTrial
    <2>4. SweepProgress(sweep', runs', Trials, keep)
        BY <1>2, <1>3, <1>5, <2>2, <2>3 DEF SweepProgress, Running, Waiting, row
    <2> QED
        BY <1>1, <2>2, <2>4, SweepStep
<1> QED
    BY <1>1, <1>4, <1>5

\* A step between two states of the same trial
LEMMA SameTrial ==
    ASSUME CommandsInv, RecordsInv, SweepInv, sweep.step \in Running,
           UNCHANGED <<runs, command>>, NEW step \in Running,
           sweep' = [sweep EXCEPT !.step = step]
    PROVE  SweepInv'
<1> DEFINE keep == command.keep_going
<1>1. /\ DOMAIN sweep = SweepFields /\ sweep.first \in Nat \ {0}
      /\ sweep.next \in 1..(Len(Trials) + 1)
      /\ IsSequence(sweep.failures) /\ InTrial(sweep, runs, Trials, keep)
    BY UnderWay DEF Running, Waiting
<1>2. /\ DOMAIN sweep' = SweepFields /\ sweep'.step = step
      /\ sweep'.first = sweep.first /\ sweep'.next = sweep.next
      /\ sweep'.failures = sweep.failures
    BY <1>1 DEF SweepFields
<1>3. InTrial(sweep', runs', Trials, keep)
    BY <1>1, <1>2 DEF InTrial
<1>4. SweepProgress(sweep', runs', Trials, keep)
    BY <1>1, <1>2, <1>3 DEF SweepProgress, Running, Waiting
<1> QED
    BY <1>2, <1>4, SweepStep

\* Ctrl-C between two trials (InterruptTrial), and the end of the sweep (EndSweep)
LEMMA EndedSweep ==
    ASSUME CommandsInv, RecordsInv, SweepInv, sweep.step = "next", UNCHANGED <<runs, command>>,
           \/ sweep' = Interrupted
           \/ /\ sweep.next > Len(Trials)
              /\ sweep' = [sweep EXCEPT !.step = IF sweep.failures = <<>> THEN "ok"
                                                 ELSE "raised"]
    PROVE  SweepInv'
<1> DEFINE keep == command.keep_going
<1>1. /\ IsSequence(Trials) /\ Len(Trials) \in Nat /\ IsSequence(runs)
      /\ DOMAIN sweep = SweepFields /\ sweep.first \in Nat \ {0}
      /\ IsSequence(sweep.failures) /\ sweep.next \in 1..(Len(Trials) + 1)
      /\ BetweenTrials(sweep, runs, Trials, keep)
    BY UnderWay
<1>2. /\ DOMAIN sweep' = SweepFields /\ sweep'.step \in {"ok", "raised", "interrupted"}
      /\ sweep'.first = sweep.first /\ sweep'.next = sweep.next
      /\ sweep'.failures = sweep.failures
      /\ \/ sweep'.step = "interrupted"
         \/ /\ sweep.next > Len(Trials)
            /\ sweep'.step = IF sweep.failures = <<>> THEN "ok" ELSE "raised"
    <2>1. CASE sweep' = Interrupted
        BY <1>1, <2>1, SweepFieldsOfSteps
    <2>2. CASE /\ sweep.next > Len(Trials)
               /\ sweep' = [sweep EXCEPT !.step = IF sweep.failures = <<>> THEN "ok"
                                                  ELSE "raised"]
        BY <1>1, <2>2 DEF SweepFields
    <2> QED
        BY <2>1, <2>2
<1>3. AfterTrials(sweep', runs, Trials, keep, sweep.next - 1)
    <2> HIDE DEF keep
    <2> QED
        BY <1>1, <1>2, CutBetween
<1>4. sweep.next - 1 \in Nat
    BY <1>1
<1>5. SweepProgress(sweep', runs', Trials, keep)
    BY <1>1, <1>2, <1>3, <1>4 DEF SweepProgress, Running, Waiting
<1> QED
    BY <1>2, <1>5, SweepStep

\* Ctrl-C at the return of the session's enter (InterruptTrial)
LEMMA UnrecordedSweep ==
    ASSUME CommandsInv, RecordsInv, SweepInv, sweep.step = "starting",
           UNCHANGED <<runs, command>>, sweep' = Interrupted
    PROVE  SweepInv'
<1> DEFINE keep == command.keep_going
<1>1. /\ IsSequence(Trials) /\ Len(Trials) \in Nat
      /\ DOMAIN sweep = SweepFields /\ sweep.first \in Nat \ {0}
      /\ IsSequence(sweep.failures) /\ sweep.next \in 1..Len(Trials)
      /\ InTrial(sweep, runs, Trials, keep)
    BY UnderWay DEF Running
<1>2. /\ DOMAIN sweep' = SweepFields /\ sweep'.step = "interrupted"
      /\ sweep'.first = sweep.first /\ sweep'.next = sweep.next
      /\ sweep'.failures = sweep.failures
    BY <1>1, SweepFieldsOfSteps
<1>3. AfterTrials(sweep', runs, Trials, keep, sweep.next)
    <2> HIDE DEF keep
    <2> QED
        BY <1>1, <1>2, UnrecordedTrial
<1>4. sweep.next \in Nat /\ sweep.next \in 1..(Len(Trials) + 1)
    BY <1>1
<1>5. SweepProgress(sweep', runs', Trials, keep)
    BY <1>1, <1>2, <1>3, <1>4 DEF SweepProgress, Running, Waiting
<1> QED
    BY <1>2, <1>5, SweepStep

LEMMA NothingIsNoSweep == NoSweep.step = "none" /\ DOMAIN NoSweep = SweepFields
    BY DEF NoSweep, SweepFields

LEMMA NoSweepIsKept ==
    ASSUME SweepInv, sweep' = NoSweep \/ (sweep.step = "none" /\ UNCHANGED sweep)
    PROVE  SweepInv'
    BY NothingIsNoSweep DEF SweepInv

LEMMA BenchKeepsSweep ==
    ASSUME CommandsInv, RecordsInv, SweepInv, Bench
    PROVE  SweepInv'
<1>1. CASE StartSweep \/ BeginTrial
    BY <1>1, StartSweepKeeps, BeginTrialKeeps
<1>2. CASE StartBench \/ Draw \/ Drawn
    <2>1. /\ sweep.step \in Running /\ UNCHANGED <<runs, command>>
          /\ \E step \in Running : sweep' = [sweep EXCEPT !.step = step]
        BY <1>2 DEF StartBench, Draw, Drawn, Running, Waiting, table, given
    <2> QED
        BY <2>1, SameTrial
<1>3. CASE CannotStart \/ Terminated \/ InterruptHandler
    <2>1. /\ sweep.step \in Running /\ UNCHANGED command
          /\ runs' = Ended("failed", NoMetrics) /\ sweep' \in {Raised, Interrupted}
        BY <1>3 DEF CannotStart, Terminated, InterruptHandler, Running, Waiting, given
    <2> QED
        BY <2>1, RecordedTrial
<1>4. CASE BenchEnds
    <2>1. /\ sweep.step \in Running /\ UNCHANGED command
          /\ \E metrics :
                \/ sweep' = Continued /\ runs' = Ended("ok", metrics)
                \/ sweep' = Raised /\ runs' = Ended("failed", metrics)
        <3>1. PICK ok \in BOOLEAN, printed \in Outputs(Trials[sweep.next]) :
                  /\ runs' = Ended(IF ok THEN "ok" ELSE "failed", LlamaBenchMetrics(printed))
                  /\ sweep' = IF ok THEN Continued ELSE Raised
            BY <1>4 DEF BenchEnds
        <3>2. CASE ok
            <4>1. runs' = Ended("ok", LlamaBenchMetrics(printed)) /\ sweep' = Continued
                BY <3>1, <3>2
            <4> QED
                BY <1>4, <4>1 DEF BenchEnds, Running, Waiting, given
        <3>3. CASE ~ok
            <4>1. runs' = Ended("failed", LlamaBenchMetrics(printed)) /\ sweep' = Raised
                BY <3>1, <3>3
            <4> QED
                BY <1>4, <4>1 DEF BenchEnds, Running, Waiting, given
        <3> QED
            BY <3>2, <3>3
    <2> QED
        BY <2>1, RecordedTrial
<1>5. CASE InterruptWait
    <2>1. sweep.step \in Running /\ UNCHANGED command
        BY <1>5 DEF InterruptWait, Running, Waiting, given
    <2>2. CASE command.progress
        <3>1. sweep' = [sweep EXCEPT !.step = "terminating"] /\ UNCHANGED runs
            BY <1>5, <2>2 DEF InterruptWait
        <3>2. "terminating" \in Running
            BY DEF Running, Waiting
        <3> QED
            BY <2>1, <3>1, <3>2, SameTrial
    <2>3. CASE ~command.progress
        <3>1. runs' = Ended("failed", NoMetrics) /\ sweep' = Interrupted
            BY <1>5, <2>3 DEF InterruptWait
        <3> QED
            BY <2>1, <3>1, RecordedTrial
    <2> QED
        BY <2>2, <2>3
<1>6. CASE InterruptTrial
    <2>1. /\ UNCHANGED command /\ sweep' = Interrupted
          /\ \/ sweep.step \in {"next", "starting"} /\ UNCHANGED runs
             \/ sweep.step = "starting" /\ runs' = Ended("failed", NoMetrics)
        BY <1>6 DEF InterruptTrial, given
    <2>2. CASE sweep.step = "starting" /\ runs' = Ended("failed", NoMetrics)
        <3>1. sweep.step \in Running
            BY <2>2 DEF Running
        <3> QED
            BY <2>1, <2>2, <3>1, RecordedTrial
    <2>3. CASE sweep.step = "next" /\ UNCHANGED runs
        BY <2>1, <2>3, EndedSweep
    <2>4. CASE sweep.step = "starting" /\ UNCHANGED runs
        BY <2>1, <2>4, UnrecordedSweep
    <2> QED
        BY <2>1, <2>2, <2>3, <2>4
<1>7. CASE EndSweep
    <2>1. /\ sweep.step = "next" /\ sweep.next > Len(Trials) /\ UNCHANGED <<runs, command>>
          /\ sweep' = [sweep EXCEPT !.step = IF sweep.failures = <<>> THEN "ok" ELSE "raised"]
        BY <1>7 DEF EndSweep, table, given
    <2> QED
        BY <2>1, EndedSweep
<1>8. CASE LeaveSweep
    BY <1>8, NoSweepIsKept DEF LeaveSweep
<1>9. CASE OrphanEnds
    <2>1. UNCHANGED <<runs, command, sweep>>
        BY <1>9 DEF OrphanEnds, table, given
    <2>2. Trials' = Trials
        BY <2>1 DEF Trials
    <2> QED
        BY <2>1, <2>2 DEF SweepInv
<1> QED
    BY <1>1, <1>2, <1>3, <1>4, <1>5, <1>6, <1>7, <1>8, <1>9 DEF Bench

\* No other command has a sweep under way.
LEMMA NextKeepsSweepInv ==
    CommandsInv /\ RecordsInv /\ SweepInv /\ [Next]_vars => SweepInv'
<1> SUFFICES ASSUME CommandsInv, RecordsInv, SweepInv, [Next]_vars PROVE SweepInv'
    OBVIOUS
<1>0. ExecutingInv
    BY DEF CommandsInv
<1>1. CASE UNCHANGED vars
    <2>1. UNCHANGED <<runs, command, sweep>>
        BY <1>1 DEF vars, table, given, benching
    <2>2. Trials' = Trials
        BY <2>1 DEF Trials
    <2> QED
        BY <2>1, <2>2 DEF SweepInv
<1>2. CASE Give
    <2>1. command = NoCommand /\ UNCHANGED sweep
        BY <1>2 DEF Give, benching
    <2>2. sweep.step = "none"
        BY <1>0, <2>1 DEF ExecutingInv, NoCommand
    <2> QED
        BY <2>1, <2>2, NoSweepIsKept
<1>3. CASE Refuse
    <2>1. Refused /\ UNCHANGED sweep
        BY <1>3 DEF Refuse, benching
    <2>2. sweep.step = "none"
        BY <1>0, <2>1 DEF ExecutingInv, Open
    <2> QED
        BY <2>1, <2>2, NoSweepIsKept
<1>4. CASE Kill
    BY <1>4, NoSweepIsKept DEF Kill
<1>5. CASE Migrate /\ UNCHANGED <<benching, evaluating, reporting, kills>>
    <2>1. ~Open /\ UNCHANGED sweep
        BY <1>5 DEF Migrate, OpenDatabase, DefineSchema, StartVersion2, UpdateRow, InsertStdout,
           InsertStderr, MarkVersion2, ApplyVersion3, MarkVersion3, Open, benching
    <2>2. sweep.step = "none"
        BY <1>0, <2>1 DEF ExecutingInv
    <2> QED
        BY <2>1, <2>2, NoSweepIsKept
<1>6. CASE Bench
    BY <1>6, BenchKeepsSweep
<1>7. CASE Evaluate /\ UNCHANGED <<migration, benching, reporting, kills>>
    <2>1. command.name = "agent" \/ eval.step # "none"
        BY <1>7, NothingIsNoEval DEF Evaluate, StartEval, BeginTarget, ClaimArtifact, Ask,
           AppendResponse, AppendError, RecordSample, Measure, Complete, InterruptEval, EndEval, LeaveEval
    <2>2. sweep.step = "none" /\ UNCHANGED sweep
        BY <1>0, <1>7, <2>1 DEF ExecutingInv, benching
    <2> QED
        BY <2>2, NoSweepIsKept
<1>8. CASE Report /\ UNCHANGED <<migration, benching, evaluating, kills>>
    BY <1>8, OnlyReport, NoSweepIsKept
<1> QED
    BY <1>1, <1>2, <1>3, <1>4, <1>5, <1>6, <1>7, <1>8 DEF Next

LEMMA SweepInvHolds == Spec => []SweepInv
<1>1. Init => SweepInv
    BY NothingIsNoSweep DEF Init, SweepInv
<1> QED
    BY <1>1, CommandsInvHolds, RecordsInvHolds, NextKeepsSweepInv, PTL DEF Spec

\* What AfterTrials says of the rows and trials of the sweep
LEMMA RowsOfSweep ==
    ASSUME CommandsInv, RecordsInv, SweepInv, sweep.step \in {"ok", "raised", "interrupted"}
    PROVE  RowsAreOfTrials
<1> DEFINE keep == command.keep_going
           before == sweep.first - 1
           c == IF sweep.next <= Len(Trials) THEN sweep.next ELSE Len(Trials)
<1>1. /\ IsSequence(Trials) /\ Len(Trials) \in Nat /\ IsSequence(runs)
      /\ sweep.first \in Nat \ {0} /\ sweep.next \in 1..(Len(Trials) + 1)
    BY UnderWay
<1>2. PICK n \in Nat : AfterTrials(sweep, runs, Trials, keep, n)
    BY DEF SweepInv, SweepProgress
<1> DEFINE built == BuiltOf(Trials, n)
           all == Built(CameTo)
           k == Len(built)
<1>3. /\ n \in {sweep.next - 1, sweep.next} /\ n <= Len(Trials)
      /\ AreOf(runs, before, built, IF sweep.step = "interrupted" THEN k - 1 ELSE k)
      /\ sweep.step = "ok" => Perfect(runs, before, built, Len(Trials), k)
      /\ sweep.step = "raised" => ~Perfect(runs, before, built, Len(Trials), k)
      /\ keep \/ AreOk(runs, before, k - 1)
    BY <1>2 DEF AfterTrials
<1>4. /\ n \in 0..Len(Trials) /\ c \in 0..Len(Trials) /\ before \in Nat
      /\ c = n \/ (c = n + 1 /\ sweep.next <= Len(Trials))
    BY <1>1, <1>2, <1>3
<1>5. IsSequence(built) /\ k \in Nat
    BY <1>1, <1>4, BuiltIsSequence
<1>6. all = BuiltOf(Trials, c)
    BY DEF CameTo, BuiltOf
<1>7. /\ \A i \in 1..k : all[i] = built[i]
      /\ k <= Len(all)
      /\ k >= Len(all) - (IF sweep.next > Len(Trials) THEN 0 ELSE 1)
    <2>1. CASE c = n
        <3>1. all = built
            BY <1>6, <2>1
        <3> QED
            BY <1>5, <3>1
    <2>2. CASE c = n + 1 /\ sweep.next <= Len(Trials)
        <3>1. n + 1 <= Len(Trials)
            BY <1>1, <1>4, <2>2
        <3>2. BuiltOf(Trials, n + 1) = IF CannotBuild(Trials[n + 1]) THEN built
                                       ELSE Append(built, Trials[n + 1])
            BY <1>1, <1>2, <3>1, BuiltOfMore
        <3>3. all = IF CannotBuild(Trials[n + 1]) THEN built ELSE Append(built, Trials[n + 1])
            BY <1>6, <2>2, <3>2
        <3> HIDE DEF built, all
        <3>4. ~(sweep.next > Len(Trials))
            BY <1>1, <2>2
        <3>5. Len(all) \in {k, k + 1} /\ \A i \in 1..k : all[i] = built[i]
            BY <1>5, <3>3, AppendIsSequence
        <3> QED
            BY <1>5, <3>4, <3>5
    <2> QED
        BY <1>4, <2>1, <2>2
<1> HIDE DEF built, all
<1>8. Len(runs) = before + k
    BY <1>3 DEF AreOf
<1>9. Made = [i \in 1..k |-> runs[before + i]] /\ Len(Made) = k /\ DOMAIN Made = 1..k
    <2> DEFINE S == {runs[i] : i \in DOMAIN runs}
               a == sweep.first
               b == Len(runs)
    <2>1. runs \in Seq(S) /\ a \in Nat /\ b \in Nat /\ b = a - 1 + k /\ a >= 1
        BY <1>1, <1>8 DEF IsSequence
    <2>2. Made = SubSeq(runs, a, b)
        BY DEF Made, Current
    <2> HIDE DEF S, a, b, before
    <2>3. SubSeq(runs, a, b) = [i \in 1..(b - a + 1) |-> runs[i + a - 1]]
        BY <2>1
    <2>4. b - a + 1 = k
        BY <1>5, <2>1
    <2>5. \A i \in 1..k : i + a - 1 = before + i
        BY <1>5, <2>1 DEF before, a
    <2>6. Made = [i \in 1..k |-> runs[before + i]]
        BY <2>2, <2>3, <2>4, <2>5
    <2>7. Len(Made) = k
        <3> DEFINE f == Made
        <3>1. f = [i \in 1..k |-> f[i]]
            BY <2>6
        <3> HIDE DEF f
        <3> QED
            BY <1>5, <3>1, FunctionIsSequence DEF f
    <2> QED
        BY <2>6, <2>7
<1> HIDE DEF k, before
<1>10. \A i \in 1..k : Made[i] = runs[before + i]
    BY <1>9
<1>11. ASSUME NEW i \in DOMAIN Made
       PROVE  /\ Made[i].config.params = all[i].params
              /\ Made[i].config.model = all[i].model.name
              /\ Made[i].status = "running" => sweep.step = "interrupted" /\ i = Len(Made)
              /\ i < Len(Made) /\ ~keep => Made[i].status = "ok"
    <2>1. i \in 1..k /\ Made[i] = runs[before + i] /\ all[i] = built[i] /\ Len(Made) = k
        BY <1>7, <1>9, <1>10
    <2>3. i < k <=> i \in 1..(k - 1)
        BY <1>5, <2>1
    <2>4. i < k \/ i = k
        BY <1>5, <2>1
    <2>2. /\ IsOf(runs[before + i], built[i])
          /\ IsOver(runs[before + i]) \/ (sweep.step = "interrupted" /\ i = k)
        BY <1>3, <2>1, <2>3, <2>4 DEF AreOf, k
    <2> QED
        BY <1>3, <2>1, <2>2, <2>3 DEF IsOf, IsOver, AreOk
<1>12. LET perfect == Len(Made) = Len(Trials) /\ \A i \in DOMAIN Made : Made[i].status = "ok"
       IN  (sweep.step = "ok" => perfect) /\ (sweep.step = "raised" => ~perfect)
    BY <1>3, <1>9, <1>10 DEF Perfect, AreOk, k
<1> QED
    BY <1>7, <1>9, <1>11, <1>12 DEF RowsAreOfTrials, all

\* benchmarks/llama_bench/runner.py: when a sweep is over, however it ended, each trial
\* it came to has one row, in order, unless its command line could not be made; no row
\* is left running but the last of an interrupted sweep; a sweep that does not keep
\* going stops at the first row that is not ok; and it succeeds only if it ran every
\* trial and every trial did, and fails uninterrupted only if not.
THEOREM SweepRowsAreOfTrials ==
    Spec => [](sweep.step \in {"ok", "raised", "interrupted"} => RowsAreOfTrials)
<1>1. CommandsInv /\ RecordsInv /\ SweepInv =>
          (sweep.step \in {"ok", "raised", "interrupted"} => RowsAreOfTrials)
    BY RowsOfSweep
<1> QED
    BY <1>1, CommandsInvHolds, RecordsInvHolds, SweepInvHolds, PTL

-----------------------------------------------------------------------------
(* Lists of rows, the latest first                                           *)

\* A list of rows in the order of comparison_runs
Descending(rows) ==
    /\ IsSequence(rows)
    /\ \A k \in DOMAIN rows : rows[k].id \in Int
    /\ \A k, l \in DOMAIN rows : k < l => rows[k].id > rows[l].id

LEMMA NothingDescends == Descending(<<>>) /\ Range(<<>>) = {}
<1>1. <<>> \in Seq({}) /\ DOMAIN <<>> = {}
    OBVIOUS
<1> QED
    BY <1>1, SequenceOfItsElements DEF Descending, IsSequence, Range

LEMMA AppendDescends ==
    ASSUME NEW rows, Descending(rows), NEW row, row.id \in Int,
           \A r \in Range(rows) : r.id > row.id
    PROVE  /\ Descending(Append(rows, row))
           /\ Range(Append(rows, row)) = Range(rows) \cup {row}
<1> DEFINE n == Len(rows)
           more == Append(rows, row)
<1>1. /\ n \in Nat /\ DOMAIN rows = 1..n /\ IsSequence(more) /\ DOMAIN more = 1..(n + 1)
      /\ \A k \in 1..n : more[k] = rows[k]
      /\ more[n + 1] = row
    BY AppendIsSequence DEF Descending
<1>2. \A k \in 1..n : rows[k] \in Range(rows)
    BY <1>1 DEF Range
<1> HIDE DEF n, more
<1>3. Range(more) = Range(rows) \cup {row}
    <2>1. \A k \in 1..(n + 1) : k \in 1..n \/ k = n + 1
        BY <1>1
    <2>2. n + 1 \in 1..(n + 1) /\ \A k \in 1..n : k \in 1..(n + 1)
        BY <1>1
    <2> QED
        BY <1>1, <2>1, <2>2 DEF Range
<1>4. ASSUME NEW k \in DOMAIN more PROVE more[k].id \in Int
    <2>1. k \in 1..n \/ k = n + 1
        BY <1>1
    <2> QED
        BY <1>1, <2>1 DEF Descending
<1>5. ASSUME NEW k \in DOMAIN more, NEW l \in DOMAIN more, k < l
      PROVE  more[k].id > more[l].id
    <2>1. k \in 1..n /\ (l \in 1..n \/ l = n + 1)
        BY <1>1, <1>5
    <2>2. CASE l \in 1..n
        BY <1>1, <1>5, <2>1, <2>2 DEF Descending
    <2>3. CASE l = n + 1
        BY <1>1, <1>2, <2>1, <2>3
    <2> QED
        BY <2>1, <2>2, <2>3
<1>6. Descending(more)
    BY <1>1, <1>4, <1>5 DEF Descending
<1> QED
    BY <1>3, <1>6 DEF more

\* A comprehension keeps the order, and what it chooses.
LEMMA ChosenDescends ==
    ASSUME NEW rows, Descending(rows), NEW P
    PROVE  /\ Descending(Chosen(rows, P))
           /\ Range(Chosen(rows, P)) = {rows[i] : i \in DOMAIN rows \cap P}
<1> DEFINE n == Len(rows)
           of(m) == {rows[i] : i \in (1..m) \cap P}
<1>1. n \in Nat /\ DOMAIN rows = 1..n
    BY DEF Descending, IsSequence
<1>2. PICK f : IsUpto(f, n, rows, P) /\ Chosen(rows, P) = f[n]
    BY <1>1, ChosenValue
<1> HIDE DEF n
<1> DEFINE Good(m) == Descending(f[m]) /\ Range(f[m]) = of(m)
           Bad == {m \in 0..n : ~Good(m)}
<1>3. Bad = {}
    <2>1. SUFFICES ASSUME Bad # {} PROVE FALSE
        OBVIOUS
    <2>2. PICK m \in Bad : \A j \in Bad : m <= j
        <3>1. Bad \subseteq Nat
            BY <1>1
        <3> HIDE DEF Bad
        <3> QED
            BY <2>1, <3>1, LeastExists
    <2>3. Good(0)
        <3>1. f[0] = <<>>
            BY <1>1, <1>2, UptoValues
        <3>2. of(0) = {}
            OBVIOUS
        <3> QED
            BY <3>1, <3>2, NothingDescends
    <2>4. m \in 1..n /\ m - 1 \in 0..n /\ ~(m <= m - 1)
        <3>1. m \in 0..n /\ m # 0
            BY <2>2, <2>3
        <3> QED
            BY <1>1, <3>1
    <2>5. Good(m - 1)
        BY <2>2, <2>4
    <2>6. f[m] = IF m \in P THEN Append(f[m - 1], rows[m]) ELSE f[m - 1]
        BY <1>1, <1>2, <2>4, UptoValues
    <2>7. of(m) = IF m \in P THEN of(m - 1) \cup {rows[m]} ELSE of(m - 1)
        <3>1. \A i \in 1..m : i \in 1..(m - 1) \/ i = m
            BY <1>1, <2>4
        <3>2. m \in 1..m /\ \A i \in 1..(m - 1) : i \in 1..m
            BY <1>1, <2>4
        <3> QED
            BY <3>1, <3>2
    <2>8. rows[m].id \in Int /\ \A r \in of(m - 1) : r.id > rows[m].id
        <3>1. \A i \in 1..(m - 1) : i \in 1..n /\ i < m
            BY <1>1, <2>4
        <3> QED
            BY <1>1, <2>4, <3>1 DEF Descending
    <2> HIDE DEF of
    <2>9. Good(m)
        <3>1. CASE m \in P
            BY <2>5, <2>6, <2>7, <2>8, <3>1, AppendDescends
        <3>2. CASE m \notin P
            BY <2>5, <2>6, <2>7, <3>2
        <3> QED
            BY <3>1, <3>2
    <2> QED
        BY <2>2, <2>9
<1>4. Good(n)
    BY <1>1, <1>3
<1> QED
    BY <1>1, <1>2, <1>4

\* Of two places of such a list with one row, both are the same.
LEMMA DescendingOnce ==
    ASSUME NEW rows, Descending(rows), NEW k \in DOMAIN rows, NEW l \in DOMAIN rows,
           rows[k].id = rows[l].id
    PROVE  k = l
<1>1. k \in Int /\ l \in Int /\ rows[k].id \in Int
    BY DEF Descending, IsSequence
<1>2. ~(k < l) /\ ~(l < k)
    BY <1>1 DEF Descending
<1> QED
    BY <1>1, <1>2

-----------------------------------------------------------------------------
(* Sorting by rank                                                           *)

\* What comes before a place in an order of the places 1..n
Earlier(R, n, i) == {j \in 1..n : <<j, i>> \in R}
StrictOrder(R, n) ==
    /\ \A i \in 1..n : <<i, i>> \notin R
    /\ \A i, j, k \in 1..n : <<i, j>> \in R /\ <<j, k>> \in R => <<i, k>> \in R
    /\ \A i, j \in 1..n : i = j \/ <<i, j>> \in R \/ <<j, i>> \in R

\* In an order of n places, every rank below n is that of one place.
LEMMA Ranking ==
    ASSUME NEW R, NEW n \in Nat, StrictOrder(R, n)
    PROVE  /\ \A i \in 1..n : Cardinality(Earlier(R, n, i)) \in 0..(n - 1)
           /\ \A i, j \in 1..n :
                  <<i, j>> \in R => Cardinality(Earlier(R, n, i)) < Cardinality(Earlier(R, n, j))
           /\ \A k \in 0..(n - 1) : \E i \in 1..n : Cardinality(Earlier(R, n, i)) = k
<1> DEFINE P == 1..n
           E(i) == Earlier(R, n, i)
<1>1. IsFiniteSet(P) /\ Cardinality(P) = n
    BY FS_Interval
<1>2. ASSUME NEW i \in P
      PROVE  /\ E(i) \in SUBSET P /\ i \notin E(i) /\ IsFiniteSet(E(i))
             /\ Cardinality(E(i)) \in 0..(n - 1)
    <2>1. E(i) \in SUBSET P /\ i \notin E(i)
        BY DEF Earlier, StrictOrder
    <2> HIDE DEF P, E
    <2>2. /\ IsFiniteSet(E(i)) /\ Cardinality(E(i)) <= Cardinality(P)
          /\ (Cardinality(P) = Cardinality(E(i)) => P = E(i))
        BY <1>1, <2>1, FS_Subset
    <2>3. Cardinality(E(i)) \in Nat /\ Cardinality(E(i)) # n
        BY <1>1, <2>1, <2>2, FS_CardinalityType
    <2> QED
        BY <1>1, <2>1, <2>2, <2>3
<1>3. ASSUME NEW i \in P, NEW j \in P, <<i, j>> \in R
      PROVE  Cardinality(E(i)) < Cardinality(E(j))
    <2>1. E(i) \in SUBSET E(j) /\ i \in E(j) /\ i \notin E(i)
        BY <1>3 DEF Earlier, StrictOrder
    <2> HIDE DEF P, E
    <2>2. /\ IsFiniteSet(E(j)) /\ Cardinality(E(j)) \in 0..(n - 1)
          /\ Cardinality(E(i)) \in 0..(n - 1)
        BY <1>2
    <2>3. /\ Cardinality(E(i)) <= Cardinality(E(j))
          /\ (Cardinality(E(j)) = Cardinality(E(i)) => E(j) = E(i))
        BY <2>1, <2>2, FS_Subset
    <2> QED
        BY <2>1, <2>2, <2>3
<1> DEFINE rank == [i \in P |-> Cardinality(E(i))]
<1>4. rank \in Injection(P, 0..(n - 1))
    <2>1. rank \in [P -> 0..(n - 1)]
        BY <1>2
    <2>2. ASSUME NEW i \in P, NEW j \in P, rank[i] = rank[j]
          PROVE  i = j
        <3>1. i = j \/ <<i, j>> \in R \/ <<j, i>> \in R
            BY DEF StrictOrder
        <3>2. Cardinality(E(i)) \in Int /\ Cardinality(E(j)) \in Int
            BY <1>2
        <3>3. Cardinality(E(i)) = Cardinality(E(j))
            BY <2>2
        <3> QED
            BY <1>3, <3>1, <3>2, <3>3
    <2>3. DOMAIN rank = P
        OBVIOUS
    <2> HIDE DEF rank, P
    <2> QED
        BY <2>1, <2>2, <2>3 DEF Injection, IsInjective
<1>5. rank \in Surjection(P, 0..(n - 1))
    <2>1. IsFiniteSet(0..(n - 1)) /\ Cardinality(0..(n - 1)) = n
        BY FS_Interval
    <2> HIDE DEF rank, P
    <2> QED
        BY <1>1, <1>4, <2>1, FS_Injection
<1>6. \A k \in 0..(n - 1) : \E i \in P : rank[i] = k
    <2> HIDE DEF rank, P
    <2> QED
        BY <1>5 DEF Surjection
<1> QED
    BY <1>2, <1>3, <1>6

\* Speeds are numbers.
Fair(metrics) == \A name \in DOMAIN metrics : IsSpeed(name) => metrics[name] \in Int

LEMMA GenerationIsInt ==
    ASSUME NEW row, Fair(row.metrics)
    PROVE  Generation(row) = {} \/ \E v \in Int : Generation(row) = {v}
<1> DEFINE other == {name \in DOMAIN row.metrics : IsSpeed(name)}
           direct == <<"tg", row.config.gen_tokens, "tokens_per_second">>
<1>1. Generation(row) = IF direct \in other THEN {row.metrics[direct]}
                        ELSE IF other = {} THEN {}
                        ELSE {row.metrics[CHOOSE name \in other : TRUE]}
    BY DEF Generation
<1>2. \A name \in other : row.metrics[name] \in Int
    BY DEF Fair
<1> HIDE DEF other, direct
<1>3. other # {} => (CHOOSE name \in other : TRUE) \in other
    OBVIOUS
<1> QED
    BY <1>1, <1>2, <1>3

\* Being better is asymmetric, and whatever is better than a row is better than
\* any third or the third better than the row.
LEMMA BetterRows ==
    ASSUME NEW a, NEW b, NEW c, Fair(a.metrics), Fair(b.metrics), Fair(c.metrics), NEW ascending
    PROVE  /\ Before(a, b, ascending) => ~Before(b, a, ascending)
           /\ Before(a, b, ascending) => Before(a, c, ascending) \/ Before(c, b, ascending)
<1> DEFINE A == Generation(a)
           B == Generation(b)
           C == Generation(c)
           Less(X, Y) == \/ X # {} /\ Y = {}
                         \/ \E x \in X, y \in Y : IF ascending THEN x < y ELSE x > y
<1>1. /\ A = {} \/ \E v \in Int : A = {v}
      /\ B = {} \/ \E v \in Int : B = {v}
      /\ C = {} \/ \E v \in Int : C = {v}
    BY GenerationIsInt
<1>2. /\ Before(a, b, ascending) <=> Less(A, B)
      /\ Before(b, a, ascending) <=> Less(B, A)
      /\ Before(a, c, ascending) <=> Less(A, C)
      /\ Before(c, b, ascending) <=> Less(C, B)
    BY DEF Before
<1> HIDE DEF A, B, C
<1>3. ASSUME NEW X, NEW Y, X = {} \/ \E v \in Int : X = {v}, Y = {} \/ \E v \in Int : Y = {v}
      PROVE  Less(X, Y) => ~Less(Y, X)
    <2>1. CASE X = {} \/ Y = {}
        BY <2>1
    <2>2. CASE X # {} /\ Y # {}
        <3>1. PICK x \in Int, y \in Int : X = {x} /\ Y = {y}
            BY <1>3, <2>2
        <3>2. CASE ascending
            BY <3>1, <3>2
        <3>3. CASE ~ascending
            BY <3>1, <3>3
        <3> QED
            BY <3>2, <3>3
    <2> QED
        BY <2>1, <2>2
<1>4. Less(A, B) => Less(A, C) \/ Less(C, B)
    <2>1. CASE A = {} \/ B = {} \/ C = {}
        <3>1. CASE C = {}
            BY <3>1
        <3>2. CASE C # {} /\ B = {}
            BY <3>2
        <3>3. CASE A = {}
            BY <3>3
        <3> QED
            BY <2>1, <3>1, <3>2, <3>3
    <2>2. CASE A # {} /\ B # {} /\ C # {}
        <3>1. PICK x \in Int, y \in Int, z \in Int : A = {x} /\ B = {y} /\ C = {z}
            BY <1>1, <2>2
        <3>2. CASE ascending
            BY <3>1, <3>2
        <3>3. CASE ~ascending
            BY <3>1, <3>3
        <3> QED
            BY <3>2, <3>3
    <2> QED
        BY <2>1, <2>2
<1> QED
    BY <1>1, <1>2, <1>3, <1>4

\* A list of rows sorted has the same rows, each once, and none before a better one.
LEMMA SortedRows ==
    ASSUME NEW rows, Descending(rows), \A i \in DOMAIN rows : Fair(rows[i].metrics), NEW ascending
    PROVE  LET sorted == Sorted(rows, ascending)
           IN  /\ IsSequence(sorted) /\ Len(sorted) = Len(rows) /\ DOMAIN sorted = DOMAIN rows
               /\ Range(sorted) = Range(rows)
               /\ \A k, l \in DOMAIN sorted : sorted[k].id = sorted[l].id => k = l
               /\ \A k, l \in DOMAIN sorted :
                      k < l => ~Before(sorted[l], sorted[k], ascending)
<1> DEFINE n == Len(rows)
           better(i, j) == Before(rows[i], rows[j], ascending)
           before(j, i) == better(j, i) \/ (j < i /\ ~better(i, j))
           R == {p \in (1..n) \X (1..n) : before(p[1], p[2])}
           at == [k \in 1..n |-> CHOOSE i \in 1..n : Cardinality(Earlier(R, n, i)) = k - 1]
           sorted == Sorted(rows, ascending)
<1>1. n \in Nat /\ DOMAIN rows = 1..n
    BY DEF Descending, IsSequence
<1>2. \A i, j \in 1..n : <<i, j>> \in R <=> before(i, j)
    OBVIOUS
<1>3. \A i, j, k \in 1..n : /\ better(i, j) => ~better(j, i)
                            /\ better(i, j) => better(i, k) \/ better(k, j)
    BY <1>1, BetterRows
<1>4. StrictOrder(R, n)
    <2> HIDE DEF R, better
    <2>1. \A i \in 1..n : <<i, i>> \notin R
        BY <1>1, <1>2, <1>3
    <2>2. \A i, j, k \in 1..n : <<i, j>> \in R /\ <<j, k>> \in R => <<i, k>> \in R
        <3>1. SUFFICES ASSUME NEW i \in 1..n, NEW j \in 1..n, NEW k \in 1..n,
                              before(i, j), before(j, k)
                       PROVE  before(i, k)
            BY <1>2
        <3>2. i < j /\ j < k => i < k
            BY <1>1
        <3> QED
            BY <1>3, <3>1, <3>2
    <2>3. \A i, j \in 1..n : i = j \/ <<i, j>> \in R \/ <<j, i>> \in R
        <3>1. \A i, j \in 1..n : i = j \/ i < j \/ j < i
            BY <1>1
        <3> QED
            BY <1>2, <3>1
    <2> QED
        BY <2>1, <2>2, <2>3 DEF StrictOrder
<1>5. \A i \in 1..n :
          Earlier(R, n, i) = {j \in DOMAIN rows : \/ Before(rows[j], rows[i], ascending)
                                                  \/ j < i /\ ~Before(rows[i], rows[j], ascending)}
    BY <1>1, <1>2 DEF Earlier
<1>6. sorted = [k \in 1..n |-> rows[at[k]]]
    <2> DEFINE earlier(i) == {j \in DOMAIN rows :
                                 \/ Before(rows[j], rows[i], ascending)
                                 \/ j < i /\ ~Before(rows[i], rows[j], ascending)}
           pick(k) == CHOOSE i \in DOMAIN rows : Cardinality(earlier(i)) = k - 1
    <2>1. sorted = [k \in DOMAIN rows |-> rows[pick(k)]]
        BY DEF Sorted
    <2>2. \A i \in 1..n : earlier(i) = Earlier(R, n, i)
        BY <1>5
    <2> HIDE DEF earlier, R, sorted
    <2>3. ASSUME NEW k \in 1..n
          PROVE  pick(k) = at[k]
        <3>1. \A i \in 1..n : Cardinality(earlier(i)) = k - 1
                              <=> Cardinality(Earlier(R, n, i)) = k - 1
            BY <2>2
        <3>2. (CHOOSE i \in 1..n : Cardinality(earlier(i)) = k - 1)
              = (CHOOSE i \in 1..n : Cardinality(Earlier(R, n, i)) = k - 1)
            BY <3>1
        <3> QED
            BY <1>1, <3>2
    <2> HIDE DEF at, pick
    <2> QED
        BY <1>1, <2>1, <2>3
<1> HIDE DEF R
<1>7. /\ \A i, j \in 1..n :
             <<i, j>> \in R => Cardinality(Earlier(R, n, i)) < Cardinality(Earlier(R, n, j))
      /\ \A i \in 1..n : Cardinality(Earlier(R, n, i)) \in 0..(n - 1)
      /\ \A k \in 0..(n - 1) : \E i \in 1..n : Cardinality(Earlier(R, n, i)) = k
    BY <1>1, <1>4, Ranking
<1>8. \A k \in 1..n : at[k] \in 1..n /\ Cardinality(Earlier(R, n, at[k])) = k - 1
    <2>1. ASSUME NEW k \in 1..n
          PROVE  \E i \in 1..n : Cardinality(Earlier(R, n, i)) = k - 1
        <3>1. k - 1 \in 0..(n - 1)
            BY <1>1
        <3> QED
            BY <1>7, <3>1
    <2> QED
        BY <2>1
<1> HIDE DEF at, sorted, better
<1>9. \A k, l \in 1..n : k < l => <<at[k], at[l]>> \in R
    <2>1. SUFFICES ASSUME NEW k \in 1..n, NEW l \in 1..n, k < l
                   PROVE  <<at[k], at[l]>> \in R
        OBVIOUS
    <2>2. Cardinality(Earlier(R, n, at[k])) = k - 1 /\ Cardinality(Earlier(R, n, at[l])) = l - 1
        BY <1>8
    <2>3. k - 1 # l - 1 /\ ~(l - 1 < k - 1)
        BY <1>1, <2>1
    <2>4. at[k] # at[l]
        BY <2>2, <2>3
    <2>5. <<at[l], at[k]>> \notin R
        <3>1. <<at[l], at[k]>> \in R => l - 1 < k - 1
            BY <1>7, <1>8, <2>2
        <3> QED
            BY <2>3, <3>1
    <2> QED
        BY <1>4, <1>8, <2>4, <2>5 DEF StrictOrder
<1>10. \A i \in 1..n : \E k \in 1..n : at[k] = i
    <2>1. SUFFICES ASSUME NEW i \in 1..n PROVE \E k \in 1..n : at[k] = i
        OBVIOUS
    <2> DEFINE k == Cardinality(Earlier(R, n, i)) + 1
    <2>2. k \in 1..n /\ Cardinality(Earlier(R, n, i)) = k - 1
        BY <1>1, <1>7
    <2> HIDE DEF k
    <2>3. Cardinality(Earlier(R, n, at[k])) = k - 1 /\ at[k] \in 1..n
        BY <1>8, <2>2
    <2>4. <<i, at[k]>> \notin R /\ <<at[k], i>> \notin R
        BY <1>1, <1>7, <2>2, <2>3
    <2> QED
        BY <1>4, <2>2, <2>3, <2>4 DEF StrictOrder
<1>11. IsSequence(sorted) /\ Len(sorted) = n /\ DOMAIN sorted = 1..n
    <2>1. sorted = [k \in 1..n |-> sorted[k]]
        BY <1>6
    <2> QED
        BY <1>1, <2>1, FunctionIsSequence DEF IsSequence
<1>12. Range(sorted) = Range(rows)
    BY <1>1, <1>6, <1>8, <1>10, <1>11 DEF Range
<1>13. ASSUME NEW k \in 1..n, NEW l \in 1..n, sorted[k].id = sorted[l].id
       PROVE  k = l
    <2>1. at[k] = at[l]
        BY <1>1, <1>6, <1>8, <1>13, DescendingOnce
    <2> QED
        BY <1>1, <1>8, <2>1
<1>14. ASSUME NEW k \in 1..n, NEW l \in 1..n, k < l
       PROVE  ~Before(sorted[l], sorted[k], ascending)
    <2>1. before(at[k], at[l])
        BY <1>2, <1>8, <1>9, <1>14
    <2>2. ~better(at[l], at[k])
        BY <1>3, <1>8, <2>1
    <2> QED
        BY <1>6, <2>2 DEF better
<1> QED
    BY <1>1, <1>11, <1>12, <1>13, <1>14 DEF sorted

-----------------------------------------------------------------------------
(* The rows of a comparison                                                  *)

\* The latest row of each signature is kept.
LEMMA DedupedRows ==
    ASSUME NEW rows, Descending(rows)
    PROVE  LET kept == DedupeLatestConfigs(rows)
           IN  /\ Descending(kept) /\ Range(kept) \subseteq Range(rows)
               /\ \A r \in Range(rows) :
                      r \in Range(kept) \/ \E s \in Range(kept) : s.id > r.id /\ Signature(s) = Signature(r)
               /\ \A s \in Range(kept), r \in Range(rows) : Signature(s) = Signature(r) => s.id >= r.id
<1> DEFINE n == Len(rows)
           First == {i \in DOMAIN rows : \A j \in 1..(i - 1) : Signature(rows[j]) # Signature(rows[i])}
           kept == DedupeLatestConfigs(rows)
<1>1. n \in Nat /\ DOMAIN rows = 1..n
    BY DEF Descending, IsSequence
<1>2. kept = Chosen(rows, First)
    BY DEF DedupeLatestConfigs
<1>3. Descending(kept) /\ Range(kept) = {rows[i] : i \in DOMAIN rows \cap First}
    <2> HIDE DEF First, kept
    <2> QED
        BY <1>2, ChosenDescends
<1>4. \A i \in First : i \in 1..n /\ \A j \in 1..(i - 1) : Signature(rows[j]) # Signature(rows[i])
    BY <1>1
<1>5. Range(rows) = {rows[i] : i \in 1..n}
    BY <1>1 DEF Range
<1>6. Range(kept) = {rows[i] : i \in First}
    BY <1>1, <1>3, <1>4
<1>7. ASSUME NEW i \in 1..n
      PROVE  \E k \in First : k <= i /\ Signature(rows[k]) = Signature(rows[i])
    <2> DEFINE S == {j \in 1..n : j <= i /\ Signature(rows[j]) = Signature(rows[i])}
    <2>1. S \subseteq Nat /\ S # {}
        BY <1>1
    <2>2. PICK k \in S : \A j \in S : k <= j
        <3> HIDE DEF S
        <3> QED
            BY <2>1, LeastExists
    <2>3. k \in 1..n /\ k <= i /\ Signature(rows[k]) = Signature(rows[i])
        OBVIOUS
    <2>4. ASSUME NEW j \in 1..(k - 1), Signature(rows[j]) = Signature(rows[k])
          PROVE  FALSE
        <3>1. j \in 1..n /\ j <= i /\ ~(k <= j)
            BY <1>1, <2>3
        <3>2. j \in S
            BY <2>3, <2>4, <3>1
        <3> QED
            BY <2>2, <3>1, <3>2
    <2> QED
        BY <1>1, <2>3, <2>4
<1> HIDE DEF First, kept
<1>8. \A i, k \in 1..n : k < i => rows[k].id > rows[i].id
    BY <1>1 DEF Descending
<1>9. \A i \in 1..n : rows[i].id \in Int
    BY <1>1 DEF Descending
<1>10. ASSUME NEW r \in Range(rows)
       PROVE  r \in Range(kept) \/ \E s \in Range(kept) : s.id > r.id /\ Signature(s) = Signature(r)
    <2>1. PICK i \in 1..n : r = rows[i]
        BY <1>5
    <2>2. PICK k \in First : k <= i /\ Signature(rows[k]) = Signature(rows[i])
        BY <1>7
    <2>3. k = i \/ k < i
        BY <1>1, <1>4, <2>2
    <2> QED
        BY <1>4, <1>6, <1>8, <2>1, <2>2, <2>3
<1>11. ASSUME NEW s \in Range(kept), NEW r \in Range(rows), Signature(s) = Signature(r)
       PROVE  s.id >= r.id
    <2>1. PICK k \in First, i \in 1..n : s = rows[k] /\ r = rows[i]
        BY <1>5, <1>6
    <2>2. ~(i < k)
        <3>1. i < k => i \in 1..(k - 1)
            BY <1>1, <1>4
        <3> QED
            BY <1>4, <1>11, <2>1, <3>1
    <2>3. k = i \/ k < i
        BY <1>1, <1>4, <2>2
    <2> QED
        BY <1>4, <1>8, <1>9, <2>1, <2>3
<1> QED
    BY <1>3, <1>4, <1>5, <1>6, <1>10, <1>11 DEF kept

\* A list without repetition is as long as the set of its rows.
LEMMA LengthOfRange ==
    ASSUME NEW s, IsSequence(s), \A k, l \in DOMAIN s : s[k] = s[l] => k = l
    PROVE  Len(s) = Cardinality(Range(s))
<1> DEFINE n == Len(s)
<1>0. n \in Nat
    BY DEF IsSequence
<1>1. DOMAIN s = 1..n /\ s = [k \in 1..n |-> s[k]]
    BY DEF IsSequence
<1>2. s \in Bijection(1..n, Range(s))
    <2>1. s \in [1..n -> Range(s)]
        BY <1>1 DEF Range
    <2>2. \A v \in Range(s) : \E k \in 1..n : s[k] = v
        BY <1>1 DEF Range
    <2> QED
        BY <1>1, <2>1, <2>2 DEF Bijection, Injection, Surjection, IsInjective
<1> HIDE DEF n
<1>3. IsFiniteSet(1..n) /\ Cardinality(1..n) = n
    BY <1>0, FS_Interval
<1> QED
    BY <1>2, <1>3, FS_Bijection DEF ExistsBijection, n

\* What build_compare_rows shows of the rows that are eligible
LEMMA ComparedRows ==
    ASSUME NEW rows, Descending(rows), \A i \in DOMAIN rows : Fair(rows[i].metrics), NEW options,
           options.limit \in Nat
    PROVE  LET built == BuildCompareRows(rows, options)
               kept == IF options.all_runs THEN rows ELSE DedupeLatestConfigs(rows)
           IN  /\ Len(built) = Cardinality(Range(built)) /\ Range(built) \subseteq Range(kept)
               /\ Len(built) < options.limit => Range(built) = Range(kept)
               /\ \A k, l \in DOMAIN built :
                      k < l => ~Before(built[l], built[k], options.ascending)
<1> DEFINE kept == IF options.all_runs THEN rows ELSE DedupeLatestConfigs(rows)
           sorted == Sorted(kept, options.ascending)
           m == IF options.limit < Len(sorted) THEN options.limit ELSE Len(sorted)
           built == BuildCompareRows(rows, options)
<1>1. Descending(kept) /\ Range(kept) \subseteq Range(rows)
    <2>1. CASE options.all_runs
        BY <2>1
    <2>2. CASE ~options.all_runs
        BY <2>2, DedupedRows
    <2> QED
        BY <2>1, <2>2
<1>2. built = SubSeq(sorted, 1, m)
    BY DEF BuildCompareRows
<1> HIDE DEF kept, built
<1>3. \A i \in DOMAIN kept : Fair(kept[i].metrics)
    BY <1>1 DEF Range
<1>4. /\ IsSequence(sorted) /\ DOMAIN sorted = DOMAIN kept /\ Range(sorted) = Range(kept)
      /\ \A k, l \in DOMAIN sorted : sorted[k].id = sorted[l].id => k = l
      /\ \A k, l \in DOMAIN sorted : k < l => ~Before(sorted[l], sorted[k], options.ascending)
    BY <1>1, <1>3, SortedRows
<1> HIDE DEF sorted
<1>5. /\ DOMAIN sorted = 1..Len(sorted) /\ m \in 0..Len(sorted)
      /\ \A k \in 1..m : k \in DOMAIN sorted
      /\ m < options.limit => m = Len(sorted)
    <2>1. Len(sorted) \in Nat
        BY <1>4 DEF IsSequence
    <2>2. m \in 0..Len(sorted) /\ (m < options.limit => m = Len(sorted))
        BY <2>1
    <2> HIDE DEF m
    <2>3. \A k \in 1..m : k \in 1..Len(sorted)
        BY <2>1, <2>2
    <2>4. DOMAIN sorted = 1..Len(sorted)
        BY <1>4 DEF IsSequence
    <2>5. \A k \in 1..m : k \in DOMAIN sorted
        BY <2>3, <2>4, Zenon
    <2> QED
        BY <2>2, <2>4, <2>5, Zenon
<1> HIDE DEF m
<1>6. /\ IsSequence(built) /\ Len(built) = m /\ DOMAIN built = 1..m
      /\ \A k \in 1..m : k \in DOMAIN sorted /\ built[k] = sorted[k]
    <2>2. /\ built \in Seq({sorted[k] : k \in DOMAIN sorted}) /\ Len(built) = m
          /\ DOMAIN built = 1..m /\ \A k \in 1..m : built[k] = sorted[k]
        BY <1>2, <1>4, <1>5, PrefixOfTrials
    <2>3. IsSequence(built)
        BY <2>2, SequenceOfItsElements DEF IsSequence
    <2> QED
        BY <1>5, <2>2, <2>3
<1>7. Len(built) = Cardinality(Range(built))
    <2>1. \A k, l \in DOMAIN built : built[k] = built[l] => k = l
        BY <1>4, <1>6
    <2> QED
        BY <1>6, <2>1, LengthOfRange
<1>8. Range(built) \subseteq Range(kept)
    BY <1>4, <1>6 DEF Range
<1>9. Len(built) < options.limit => Range(built) = Range(kept)
    <2>1. SUFFICES ASSUME Len(built) < options.limit PROVE Range(built) = Range(kept)
        OBVIOUS
    <2>2. m < options.limit
        BY <1>6, <2>1
    <2>3. m = Len(sorted) /\ DOMAIN built = DOMAIN sorted
        BY <1>5, <1>6, <2>2
    <2>4. Range(built) = Range(sorted)
        BY <1>5, <1>6, <2>3 DEF Range
    <2> QED
        BY <1>4, <2>4
<1>10. \A k, l \in DOMAIN built : k < l => ~Before(built[l], built[k], options.ascending)
    BY <1>4, <1>6
<1> QED
    BY <1>7, <1>8, <1>9, <1>10 DEF kept, built

\* The rows that a comparison may show
Eligible(include_failed, suites) ==
    {r \in Range(runs) : /\ include_failed \/ r.status = "ok"
                         /\ suites = {} \/ r.suite \in suites}

LEMMA LatestFirst ==
    ASSUME TableInv, FilesInv
    PROVE  Descending(Reverse(runs)) /\ Range(Reverse(runs)) = Range(runs)
<1> DEFINE n == Len(runs)
           latest == Reverse(runs)
<1>1. n \in Nat /\ DOMAIN runs = 1..n
    BY TableShape
<1>2. latest = [i \in 1..n |-> runs[(n - i) + 1]]
    BY DEF Reverse
<1>3. \A i \in 1..n : runs[i].id = i
    BY <1>1 DEF FilesInv
<1> HIDE DEF n, latest
<1>4. IsSequence(latest) /\ DOMAIN latest = 1..n
    <2>1. latest = [i \in 1..n |-> latest[i]]
        BY <1>2
    <2> QED
        BY <1>1, <2>1, FunctionIsSequence DEF IsSequence
<1>5. \A i \in 1..n : (n - i) + 1 \in 1..n /\ (n - ((n - i) + 1)) + 1 = i
    BY <1>1
<1>6. \A i \in 1..n : latest[i].id = (n - i) + 1
    BY <1>2, <1>3, <1>5
<1>7. Range(latest) = Range(runs)
    <2>1. \A i \in 1..n : latest[i] = runs[(n - i) + 1] /\ runs[i] = latest[(n - i) + 1]
        BY <1>2, <1>5
    <2> QED
        BY <1>1, <1>4, <1>5, <2>1 DEF Range
<1>8. Descending(latest)
    <2>1. \A k \in 1..n : latest[k].id \in Int
        BY <1>1, <1>6
    <2>2. \A k, l \in 1..n : k < l => (n - k) + 1 > (n - l) + 1
        BY <1>1
    <2>3. \A k, l \in 1..n : k < l => latest[k].id > latest[l].id
        BY <1>6, <2>2
    <2> QED
        BY <1>4, <2>1, <2>3 DEF Descending
<1> QED
    BY <1>7, <1>8 DEF latest

LEMMA ChosenRows ==
    ASSUME NEW rows, Descending(rows), NEW S
    PROVE  LET chosen == Chosen(rows, {i \in DOMAIN rows : rows[i] \in S})
           IN  Descending(chosen) /\ Range(chosen) = Range(rows) \cap S
<1> DEFINE P == {i \in DOMAIN rows : rows[i] \in S}
<1>1. {rows[i] : i \in DOMAIN rows \cap P} = Range(rows) \cap S
    BY DEF Range
<1> HIDE DEF P
<1>2. Descending(Chosen(rows, P)) /\ Range(Chosen(rows, P)) = Range(rows) \cap S
    BY <1>1, ChosenDescends
<1> QED
    BY <1>2 DEF P

LEMMA EligibleRows ==
    ASSUME TableInv, FilesInv, NEW include_failed, NEW suites
    PROVE  LET rows == FilterCompareRuns(ComparisonRuns(include_failed), suites)
           IN  Descending(rows) /\ Range(rows) = Eligible(include_failed, suites)
<1> DEFINE latest == Reverse(runs)
           S == {r \in Range(runs) : include_failed \/ r.status = "ok"}
           T == {r \in Range(runs) : suites = {} \/ r.suite \in suites}
           first == ComparisonRuns(include_failed)
           rows == FilterCompareRuns(first, suites)
<1>1. Descending(latest) /\ Range(latest) = Range(runs)
    BY LatestFirst
<1>2. first = Chosen(latest, {i \in DOMAIN latest : latest[i] \in S})
    <2>1. first = Chosen(latest, {i \in DOMAIN latest : include_failed \/ latest[i].status = "ok"})
        BY DEF ComparisonRuns
    <2>2. {i \in DOMAIN latest : include_failed \/ latest[i].status = "ok"}
          = {i \in DOMAIN latest : latest[i] \in S}
        BY <1>1 DEF Range
    <2> QED
        BY <2>1, <2>2
<1> HIDE DEF latest, first
<1>3. Descending(first) /\ Range(first) = S
    <2>1. Range(latest) \cap S = S
        BY <1>1
    <2> HIDE DEF S
    <2> QED
        BY <1>1, <1>2, <2>1, ChosenRows
<1>4. rows = Chosen(first, {i \in DOMAIN first : first[i] \in T})
    <2>1. rows = Chosen(first, {i \in DOMAIN first : suites = {} \/ first[i].suite \in suites})
        BY DEF FilterCompareRuns
    <2>2. {i \in DOMAIN first : suites = {} \/ first[i].suite \in suites}
          = {i \in DOMAIN first : first[i] \in T}
        <3>1. \A i \in DOMAIN first : first[i] \in Range(runs)
            BY <1>3 DEF Range
        <3> QED
            BY <3>1
    <2> QED
        BY <2>1, <2>2
<1>5. Descending(rows) /\ Range(rows) = S \cap T
    <2> HIDE DEF S, T, rows
    <2> QED
        BY <1>3, <1>4, ChosenRows
<1>6. S \cap T = Eligible(include_failed, suites)
    BY DEF Eligible
<1> QED
    BY <1>5, <1>6 DEF first

-----------------------------------------------------------------------------
(* Rows of one signature                                                     *)

\* What a row keeps of the trial it is of: a new one is what its hash was made of,
\* and an old one has the suite and the work of its original.
Targets == {c.target : c \in {c \in AllCommands : c.name \in {"bench", "agent"}}}
IsNew(row) ==
    /\ row.spec = Spec_(row.kind, row.suite, row.work, row.config)
    /\ row.target \in Targets
    /\ \/ /\ row.kind = "llama_bench" /\ row.name.label = <<row.suite, row.config.model>>
          /\ "execution_target" \notin DOMAIN row.config
       \/ /\ row.kind = "agent_eval"
          /\ row.name.label = <<row.suite, row.config.endpoint.name>>
          /\ "execution_target" \in DOMAIN row.config
          /\ row.config = [f \in DOMAIN row.config |-> row.config[f]]
          /\ row.config.execution_target = IF row.target = NoTarget THEN NoTarget
                                           ELSE TargetIdentityJson(row.target)
IsOld(row, old) == row.suite = old.suite /\ row.work = old.work /\ row.target = NoTarget

\* A row of a migrated database
IsKnown(row) ==
    /\ row.system \in Profiles
    /\ IsNew(row) \/ \E i \in DOMAIN Legacy : IsOld(row, Legacy[i]) /\ IsMigrated(row, Legacy[i])

LEMMA OldRow ==
    ASSUME NEW i \in DOMAIN Legacy, NEW row, IsOld(row, Legacy[i]), IsMigrated(row, Legacy[i])
    PROVE  /\ row.spec = [scheme |-> 0, kind |-> row.kind, name |-> Legacy[i].name,
                          work |-> row.work, config |-> row.config]
           /\ row.spec.scheme = 0 /\ row.target = NoTarget
           /\ row.name.label = Legacy[i].name.label
           /\ Legacy[i].name = [label |-> row.name.label, suffixes |-> <<>>]
           /\ "execution_target" \notin DOMAIN row.config
           /\ row.suite = Legacy[i].suite
<1> DEFINE old == Legacy[i]
<1>1. /\ old.spec = NoSpec /\ {"label", "suffixes"} \subseteq DOMAIN old.name
      /\ old.name.suffixes = <<>>
    BY LegacyAssumption
<1>2. /\ "execution_target" \notin DOMAIN old.config
      /\ old.name = [label |-> old.name.label, suffixes |-> <<>>]
    BY ComparisonAssumption
<1> HIDE DEF old
<1>3. row.kind = Kind(old) /\ row.config = MigrateConfig(old.config) /\ row.work = old.work
    BY DEF IsMigrated, IsOld, old
<1>4. row.spec = [scheme |-> 0, kind |-> row.kind, name |-> old.name, work |-> row.work,
                  config |-> row.config]
    BY <1>1, <1>3 DEF IsMigrated, Fingerprint, old
<1>5. row.name.label = old.name.label
    BY <1>1 DEF IsMigrated, NormalizedName, old
<1>6. DOMAIN MigrateConfig(old.config) = DOMAIN old.config
    BY DEF MigrateConfig
<1> QED
    BY <1>2, <1>3, <1>4, <1>5, <1>6 DEF IsOld, old

LEMMA NewRowKnown ==
    ASSUME NEW row, IsNew(row)
    PROVE  /\ row.spec.scheme = 1 /\ row.spec.kind = row.kind /\ row.spec.suite = row.suite
           /\ row.spec.work = row.work /\ row.spec.config = row.config
BY DEF IsNew, Spec_

\* The hash and the old name are of the trial.
LEMMA SpecTellsTrial ==
    ASSUME NEW a, NEW b, IsKnown(a), IsKnown(b), a.spec = b.spec
    PROVE  Trial(a) = Trial(b)
<1>1. CASE IsNew(a) /\ IsNew(b)
    <2>1. /\ a.spec.scheme = b.spec.scheme /\ a.kind = b.kind /\ a.suite = b.suite
          /\ a.work = b.work /\ a.config = b.config
        BY <1>1, NewRowKnown
    <2>2. a.name.label = b.name.label
        BY <1>1, <2>1 DEF IsNew
    <2> QED
        BY <2>1, <2>2 DEF Trial
<1>2. ASSUME NEW i \in DOMAIN Legacy, NEW j \in DOMAIN Legacy, IsOld(a, Legacy[i]),
             IsMigrated(a, Legacy[i]), IsOld(b, Legacy[j]), IsMigrated(b, Legacy[j])
      PROVE  Trial(a) = Trial(b)
    <2>1. /\ a.spec = [scheme |-> 0, kind |-> a.kind, name |-> Legacy[i].name,
                       work |-> a.work, config |-> a.config]
          /\ b.spec = [scheme |-> 0, kind |-> b.kind, name |-> Legacy[j].name,
                       work |-> b.work, config |-> b.config]
        BY <1>2, OldRow
    <2>2. /\ a.kind = b.kind /\ Legacy[i].name = Legacy[j].name /\ a.work = b.work
          /\ a.config = b.config
        <3> DEFINE S(k, n, w, c) == [scheme |-> 0, kind |-> k, name |-> n, work |-> w, config |-> c]
        <3>1. \A k, n, w, c : /\ S(k, n, w, c).kind = k /\ S(k, n, w, c).name = n
                              /\ S(k, n, w, c).work = w /\ S(k, n, w, c).config = c
            OBVIOUS
        <3>2. /\ a.spec = S(a.kind, Legacy[i].name, a.work, a.config)
              /\ b.spec = S(b.kind, Legacy[j].name, b.work, b.config)
            BY <2>1
        <3> HIDE DEF S
        <3>3. S(a.kind, Legacy[i].name, a.work, a.config)
              = S(b.kind, Legacy[j].name, b.work, b.config)
            BY <3>2
        <3> QED
            BY <3>1, <3>3
    <2>3. Legacy[i].suite = Legacy[j].suite
        BY <2>2, ComparisonAssumption
    <2>4. a.name.label = Legacy[i].name.label /\ a.suite = Legacy[i].suite
        BY <1>2, OldRow
    <2>5. b.name.label = Legacy[j].name.label /\ b.suite = Legacy[j].suite
        BY <1>2, OldRow
    <2>6. a.name.label = b.name.label /\ a.suite = b.suite /\ a.spec.scheme = b.spec.scheme
        BY <2>2, <2>3, <2>4, <2>5
    <2> QED
        BY <2>2, <2>6 DEF Trial
<1>3. ASSUME NEW i \in DOMAIN Legacy, NEW x, NEW y, IsOld(x, Legacy[i]),
             IsMigrated(x, Legacy[i]), IsNew(y)
      PROVE  x.spec # y.spec
    <2>1. x.spec.scheme = 0
        BY <1>3, OldRow
    <2>2. y.spec.scheme = 1
        BY <1>3, NewRowKnown
    <2> QED
        BY <2>1, <2>2
<1> QED
    BY <1>1, <1>2, <1>3 DEF IsKnown

-----------------------------------------------------------------------------
\* What a profile can be recognised by
LEMMA RecognisedBy ==
    \A p : p.fingerprint # NoFingerprint => p.fingerprint \in DOMAIN Candidates(p)
BY DEF Candidates

LEMMA HostTellsMachine ==
    ASSUME NEW p \in Profiles, NEW q \in Profiles, Identified(p),
           SystemHostIdentity(p) = SystemHostIdentity(q)
    PROVE  p.machine = q.machine
<1>1. CASE p.fingerprint # NoFingerprint
    <2>1. SystemHostIdentity(p) = <<"fingerprint", p.fingerprint>>
        BY <1>1 DEF SystemHostIdentity
    <2>2. q.fingerprint # NoFingerprint /\ q.fingerprint = p.fingerprint
        BY <2>1 DEF SystemHostIdentity, UnknownHost
    <2>3. p.fingerprint \in DOMAIN Candidates(p) \cap DOMAIN Candidates(q)
        BY <1>1, <2>2, RecognisedBy
    <2> QED
        BY <2>3, ComparisonAssumption
<1>2. CASE p.fingerprint = NoFingerprint
    <2>1. p.hostname # None
        BY <1>2 DEF Identified
    <2>2. SystemHostIdentity(p) = <<"legacy", p.hostname>>
        BY <1>2, <2>1 DEF SystemHostIdentity
    <2>3. q.fingerprint = NoFingerprint /\ q.hostname = p.hostname
        BY <2>2 DEF SystemHostIdentity, UnknownHost
    <2> QED
        BY <1>2, <2>1, <2>3, ComparisonAssumption
<1> QED
    BY <1>1, <1>2

\* A host that is known by a fingerprint has it, bound or not.
LEMMA TargetHostIs ==
    ASSUME NEW t
    PROVE  \/ \E f \in DOMAIN Candidates(t.profile) : TargetHost(t) = <<"fingerprint", f>>
           \/ ~Bound(t) /\ t.profile.fingerprint = NoFingerprint
              /\ TargetHost(t) = SystemHostIdentity(t.profile)
<1>1. CASE Bound(t)
    BY <1>1 DEF Bound, Recognised, TargetHost
<1>2. CASE ~Bound(t) /\ t.profile.fingerprint # NoFingerprint
    BY <1>2, RecognisedBy DEF TargetHost, SystemHostIdentity
<1>3. CASE ~Bound(t) /\ t.profile.fingerprint = NoFingerprint
    BY <1>3 DEF TargetHost
<1> QED
    BY <1>1, <1>2, <1>3

LEMMA TargetTellsMachine ==
    ASSUME NEW t, NEW u, t.profile \in Profiles, u.profile \in Profiles, Identified(t.profile),
           TargetIdentityJson(t) = TargetIdentityJson(u)
    PROVE  t.profile.machine = u.profile.machine
<1> DEFINE Host(x) == IF TargetHost(x) # UnknownHost THEN TargetHost(x)
                      ELSE <<"destination", x.destination>>
           p == t.profile
           q == u.profile
<1>1. Host(t) = Host(u)
    <2>1. \A x : TargetIdentityJson(x).host = Host(x)
        BY DEF TargetIdentityJson
    <2> HIDE DEF Host
    <2> QED
        BY <2>1
<1>2. CASE \E f \in DOMAIN Candidates(p) : TargetHost(t) = <<"fingerprint", f>>
    <2>1. PICK f \in DOMAIN Candidates(p) : TargetHost(t) = <<"fingerprint", f>>
        BY <1>2
    <2>2. Host(u) = <<"fingerprint", f>>
        BY <1>1, <2>1 DEF UnknownHost
    <2>3. TargetHost(u) = <<"fingerprint", f>>
        BY <2>2
    <2>4. f \in DOMAIN Candidates(q)
        <3>1. CASE \E g \in DOMAIN Candidates(q) : TargetHost(u) = <<"fingerprint", g>>
            BY <2>3, <3>1
        <3>2. CASE q.fingerprint = NoFingerprint /\ TargetHost(u) = SystemHostIdentity(q)
            BY <2>3, <3>2 DEF SystemHostIdentity, UnknownHost
        <3> QED
            BY <3>1, <3>2, TargetHostIs
    <2> QED
        BY <2>1, <2>4, ComparisonAssumption
<1>3. CASE p.fingerprint = NoFingerprint /\ TargetHost(t) = SystemHostIdentity(p)
    <2>1. p.hostname # None
        BY <1>3 DEF Identified
    <2>2. TargetHost(t) = <<"legacy", p.hostname>>
        BY <1>3, <2>1 DEF SystemHostIdentity
    <2>3. Host(u) = <<"legacy", p.hostname>>
        BY <1>1, <2>2 DEF UnknownHost
    <2>4. TargetHost(u) = <<"legacy", p.hostname>>
        BY <2>3
    <2>5. q.fingerprint = NoFingerprint /\ TargetHost(u) = SystemHostIdentity(q)
        BY <2>4, TargetHostIs
    <2>6. q.hostname = p.hostname
        BY <2>4, <2>5 DEF SystemHostIdentity, UnknownHost
    <2> QED
        BY <1>3, <2>1, <2>5, <2>6, ComparisonAssumption
<1> QED
    BY <1>2, <1>3, TargetHostIs

LEMMA KnownProfiles ==
    ASSUME NEW row, IsKnown(row), row.target # NoTarget
    PROVE  IsNew(row) /\ row.target.profile \in Profiles
<1>1. IsNew(row)
    BY DEF IsKnown, IsOld
<1>2. PICK c \in AllCommands : c.name \in {"bench", "agent"} /\ row.target = c.target
    BY <1>1 DEF IsNew, Targets
<1> QED
    BY <1>1, <1>2 DEF Profiles

\* The domain of a target's identity
LEMMA IdentitiesDiffer ==
    \A t, host : TargetIdentityJson(t) # [host |-> host]
<1>1. \A t : "name" \in DOMAIN TargetIdentityJson(t)
    BY DEF TargetIdentityJson
<1>2. \A host : "name" \notin DOMAIN [host |-> host]
    OBVIOUS
<1> QED
    BY <1>1, <1>2

LEMMA SignatureParts ==
    ASSUME NEW a, NEW b, Signature(a) = Signature(b)
    PROVE  /\ a.spec = b.spec /\ SystemHostIdentity(a.system) = SystemHostIdentity(b.system)
           /\ TargetIdentity(a.target, a.system) = TargetIdentity(b.target, b.system)
BY DEF Signature

\* One identity is that of one service, by one route.
LEMMA IdentityTellsServed ==
    ASSUME NEW t, NEW u, TargetIdentityJson(t) = TargetIdentityJson(u)
    PROVE  /\ t.service = u.service /\ t.route = u.route /\ t.model = u.model
           /\ t.topology = u.topology
<1>1. \A x : /\ TargetIdentityJson(x).service = x.service /\ TargetIdentityJson(x).route = x.route
             /\ TargetIdentityJson(x).model = x.model /\ TargetIdentityJson(x).topology = x.topology
    BY DEF TargetIdentityJson
<1> QED
    BY <1>1

\* Rows of one signature measured one trial of one service, on the same machines if
\* their profiles tell them from others.
LEMMA SignatureTells ==
    ASSUME NEW a, NEW b, IsKnown(a), IsKnown(b), Signature(a) = Signature(b)
    PROVE  /\ Trial(a) = Trial(b) /\ Served(a) = Served(b)
           /\ AllIdentified(a) => Machines(a) = Machines(b)
<1>1. Trial(a) = Trial(b)
    BY SpecTellsTrial, SignatureParts
<1>2. /\ a.target = NoTarget <=> b.target = NoTarget
      /\ a.target # NoTarget => TargetIdentityJson(a.target) = TargetIdentityJson(b.target)
    BY IdentitiesDiffer, SignatureParts DEF TargetIdentity
<1>3. Served(a) = Served(b)
    BY <1>2, IdentityTellsServed DEF Served
<1>4. ASSUME AllIdentified(a)
      PROVE  Machines(a) = Machines(b)
    <2>1. a.system.machine = b.system.machine
        BY <1>4, HostTellsMachine, SignatureParts DEF AllIdentified, IsKnown
    <2>2. CASE a.target = NoTarget
        BY <1>2, <2>1, <2>2 DEF Machines
    <2>3. CASE a.target # NoTarget
        <3>1. a.target.profile.machine = b.target.profile.machine
            BY <1>2, <1>4, <2>3, KnownProfiles, TargetTellsMachine DEF AllIdentified
        <3> QED
            BY <1>2, <2>1, <2>3, <3>1 DEF Machines
    <2> QED
        BY <2>2, <2>3
<1> QED
    BY <1>1, <1>3, <1>4

-----------------------------------------------------------------------------
(* Rows the comparison must take for the same have one signature             *)

Blanked(config) == IF "execution_target" \in DOMAIN config
                   THEN [config EXCEPT !.execution_target = NoTarget] ELSE config

LEMMA TrialParts ==
    ASSUME NEW a, NEW b, Trial(a) = Trial(b)
    PROVE  /\ a.spec.scheme = b.spec.scheme /\ a.kind = b.kind /\ a.suite = b.suite
           /\ a.name.label = b.name.label /\ a.work = b.work
           /\ Blanked(a.config) = Blanked(b.config)
<1>1. \A row : Trial(row) = <<row.spec.scheme, row.kind, row.suite, row.name.label, row.work,
                              Blanked(row.config)>>
    BY DEF Trial, Blanked
<1> QED
    BY <1>1

\* Two targets that are bound by one pin and differ in what was discovered only have
\* one identity.
LEMMA BoundTargets ==
    ASSUME NEW t, NEW u, Bound(t), Bound(u), t.binding.expected = u.binding.expected,
           {"schema_version", "name", "profile", "destination", "service", "route", "model",
            "topology", "binding"} \subseteq DOMAIN t,
           [t EXCEPT !.profile = u.profile, !.binding = u.binding] = u
    PROVE  TargetIdentityJson(t) = TargetIdentityJson(u) /\ TopologyIdentity(t) = TopologyIdentity(u)
           /\ t.topology = u.topology
<1> DEFINE v == [t EXCEPT !.profile = u.profile, !.binding = u.binding]
<1>1. /\ v.schema_version = t.schema_version /\ v.name = t.name /\ v.service = t.service
      /\ v.route = t.route /\ v.model = t.model /\ v.topology = t.topology
    OBVIOUS
<1>2. v = u
    OBVIOUS
<1> HIDE DEF v
<1>3. /\ u.schema_version = t.schema_version /\ u.name = t.name /\ u.service = t.service
      /\ u.route = t.route /\ u.model = t.model /\ u.topology = t.topology
    BY <1>1, <1>2
<1>4. TargetHost(t) = TargetHost(u) /\ TargetHost(t) # UnknownHost
    BY DEF Bound, TargetHost, UnknownHost
<1>5. TargetIdentityJson(t) = TargetIdentityJson(u)
    BY <1>3, <1>4 DEF TargetIdentityJson
<1>6. t # NoTarget /\ u # NoTarget
    <2>1. "service" \notin DOMAIN NoTarget
        BY DEF NoTarget
    <2>2. "service" \in DOMAIN v
        BY DEF v
    <2> QED
        BY <1>2, <2>1, <2>2
<1> QED
    BY <1>3, <1>5, <1>6 DEF TopologyIdentity

LEMMA MergedSpec ==
    ASSUME NEW a, NEW b, IsKnown(a), IsKnown(b), Trial(a) = Trial(b),
           \/ a.target = b.target
           \/ /\ NoTarget \notin {a.target, b.target}
              /\ TargetIdentityJson(a.target) = TargetIdentityJson(b.target)
    PROVE  a.spec = b.spec
<1>1. /\ a.spec.scheme = b.spec.scheme /\ a.kind = b.kind /\ a.suite = b.suite
      /\ a.name.label = b.name.label /\ a.work = b.work
      /\ Blanked(a.config) = Blanked(b.config)
    BY TrialParts
<1>2. CASE IsNew(a) /\ IsNew(b)
    <2>1. a.config = b.config
        <3>1. CASE a.kind = "llama_bench"
            <4>1. "execution_target" \notin DOMAIN a.config
                BY <1>2, <3>1 DEF IsNew
            <4>2. "execution_target" \notin DOMAIN b.config
                BY <1>1, <1>2, <3>1 DEF IsNew
            <4> QED
                BY <1>1, <4>1, <4>2 DEF Blanked
        <3>2. CASE a.kind = "agent_eval"
            <4> DEFINE c == a.config
                       d == b.config
            <4>1. /\ "execution_target" \in DOMAIN c /\ "execution_target" \in DOMAIN d
                  /\ c = [f \in DOMAIN c |-> c[f]] /\ d = [f \in DOMAIN d |-> d[f]]
                BY <1>1, <1>2, <3>2 DEF IsNew
            <4>2. c.execution_target = d.execution_target
                BY <1>1, <1>2, <3>2 DEF IsNew
            <4>3. [c EXCEPT !.execution_target = NoTarget] = [d EXCEPT !.execution_target = NoTarget]
                BY <1>1, <4>1 DEF Blanked
            <4> HIDE DEF c, d
            <4>4. DOMAIN c = DOMAIN d
                BY <4>3
            <4>5. ASSUME NEW f \in DOMAIN c PROVE c[f] = d[f]
                <5>1. CASE f = "execution_target"
                    BY <4>2, <5>1
                <5>2. CASE f # "execution_target"
                    <6>1. /\ [c EXCEPT !.execution_target = NoTarget][f] = c[f]
                          /\ [d EXCEPT !.execution_target = NoTarget][f] = d[f]
                        BY <4>4, <4>5, <5>2
                    <6> QED
                        BY <4>3, <6>1
                <5> QED
                    BY <5>1, <5>2
            <4> QED
                BY <4>1, <4>4, <4>5 DEF c, d
        <3> QED
            BY <1>2, <3>1, <3>2 DEF IsNew
    <2> QED
        BY <1>1, <1>2, <2>1 DEF IsNew
<1>3. ASSUME NEW i \in DOMAIN Legacy, NEW j \in DOMAIN Legacy, IsOld(a, Legacy[i]),
             IsMigrated(a, Legacy[i]), IsOld(b, Legacy[j]), IsMigrated(b, Legacy[j])
      PROVE  a.spec = b.spec
    <2>1. /\ a.spec = [scheme |-> 0, kind |-> a.kind, name |-> Legacy[i].name,
                       work |-> a.work, config |-> a.config]
          /\ "execution_target" \notin DOMAIN a.config
          /\ Legacy[i].name = [label |-> a.name.label, suffixes |-> <<>>]
        BY <1>3, OldRow
    <2>2. /\ b.spec = [scheme |-> 0, kind |-> b.kind, name |-> Legacy[j].name,
                       work |-> b.work, config |-> b.config]
          /\ "execution_target" \notin DOMAIN b.config
          /\ Legacy[j].name = [label |-> b.name.label, suffixes |-> <<>>]
        BY <1>3, OldRow
    <2>3. a.config = b.config
        BY <1>1, <2>1, <2>2 DEF Blanked
    <2>4. Legacy[i].name = Legacy[j].name
        BY <1>1, <2>1, <2>2
    <2> QED
        BY <1>1, <2>1, <2>2, <2>3, <2>4
<1>4. ASSUME NEW i \in DOMAIN Legacy, NEW x, NEW y, IsOld(x, Legacy[i]),
             IsMigrated(x, Legacy[i]), IsNew(y)
      PROVE  x.spec.scheme # y.spec.scheme
    <2>1. x.spec.scheme = 0
        BY <1>4, OldRow
    <2>2. y.spec.scheme = 1
        BY <1>4, NewRowKnown
    <2> QED
        BY <2>1, <2>2
<1> QED
    BY <1>1, <1>2, <1>3, <1>4 DEF IsKnown

LEMMA MergedSignature ==
    ASSUME NEW a, NEW b, IsKnown(a), IsKnown(b), MustMerge(a, b)
    PROVE  Signature(a) = Signature(b)
<1>1. Trial(a) = Trial(b) /\ a.system = b.system
    BY DEF MustMerge
<1>2. CASE a.target = b.target
    <2>1. a.spec = b.spec
        BY <1>1, <1>2, MergedSpec
    <2> QED
        BY <1>1, <1>2, <2>1 DEF Signature
<1>3. CASE a.target # b.target
    <2>1. /\ NoTarget \notin {a.target, b.target} /\ Bound(a.target) /\ Bound(b.target)
          /\ a.target.binding.expected = b.target.binding.expected
          /\ [a.target EXCEPT !.profile = b.target.profile, !.binding = b.target.binding] = b.target
        BY <1>3 DEF MustMerge
    <2>2. {"schema_version", "name", "profile", "destination", "service", "route", "model",
           "topology", "binding"} \subseteq DOMAIN a.target
        <3>1. IsNew(a)
            BY <2>1, KnownProfiles
        <3>2. PICK c \in AllCommands : c.name \in {"bench", "agent"} /\ a.target = c.target
            BY <3>1 DEF IsNew, Targets
        <3> QED
            BY <2>1, <3>2, ComparisonAssumption
    <2>3. /\ TargetIdentityJson(a.target) = TargetIdentityJson(b.target)
          /\ TopologyIdentity(a.target) = TopologyIdentity(b.target)
        BY <2>1, <2>2, BoundTargets
    <2>4. a.spec = b.spec
        BY <1>1, <2>1, <2>3, MergedSpec
    <2>5. TargetIdentity(a.target, a.system) = TargetIdentity(b.target, b.system)
        BY <2>1, <2>3 DEF TargetIdentity
    <2> QED
        BY <1>1, <2>3, <2>4, <2>5 DEF Signature
<1> QED
    BY <1>2, <1>3

-----------------------------------------------------------------------------
(* What is shown                                                             *)

\* The table that was shown is made of the table there is.
ShownInv ==
    shown.done =>
        /\ Open /\ command \in AllCommands
        /\ shown.rows = BuildCompareRows(
                            FilterCompareRuns(ComparisonRuns(command.include_failed),
                                              command.suites), command)

LEMMA ShownRows ==
    ASSUME TableInv, FilesInv, shown.done => command.name = "compare", ShownInv,
           \A r \in Range(runs) : Fair(r.metrics) /\ (Open => IsKnown(r))
    PROVE  ComparisonShowsLatest
<1> DEFINE rows == FilterCompareRuns(ComparisonRuns(command.include_failed), command.suites)
           eligible == Eligible(command.include_failed, command.suites)
           kept == IF command.all_runs THEN rows ELSE DedupeLatestConfigs(rows)
           built == shown.rows
           S == Range(built)
<1>1. SUFFICES ASSUME shown.done
               PROVE  /\ S \subseteq eligible /\ Len(built) = Cardinality(S)
                      /\ Len(built) < command.limit =>
                             \A r \in eligible :
                                 \/ r \in S
                                 \/ /\ ~command.all_runs
                                    /\ \E s \in S :
                                           /\ s.id > r.id /\ Trial(s) = Trial(r)
                                           /\ Served(s) = Served(r)
                                           /\ AllIdentified(r) => Machines(s) = Machines(r)
                      /\ ~command.all_runs =>
                             \A s \in S, r \in eligible : MustMerge(s, r) => s.id >= r.id
                      /\ \A i, j \in DOMAIN built :
                             i < j => ~Before(built[j], built[i], command.ascending)
    BY DEF ComparisonShowsLatest, Eligible
<1>2. /\ command.limit \in Nat /\ built = BuildCompareRows(rows, command) /\ Open
    BY <1>1, ComparisonAssumption DEF ShownInv
<1>3. Descending(rows) /\ Range(rows) = eligible
    BY EligibleRows
<1>4. eligible \subseteq Range(runs)
    BY DEF Eligible
<1> HIDE DEF rows, eligible
<1>5. \A r \in eligible : IsKnown(r) /\ Fair(r.metrics)
    BY <1>2, <1>4
<1>6. \A i \in DOMAIN rows : Fair(rows[i].metrics)
    BY <1>3, <1>5 DEF Range
<1>7. /\ Len(built) = Cardinality(S) /\ S \subseteq Range(kept)
      /\ Len(built) < command.limit => S = Range(kept)
      /\ \A k, l \in DOMAIN built : k < l => ~Before(built[l], built[k], command.ascending)
    BY <1>2, <1>3, <1>6, ComparedRows
<1> HIDE DEF S
<1>8. /\ Range(kept) \subseteq eligible
      /\ command.all_runs => Range(kept) = eligible
      /\ ~command.all_runs =>
             /\ \A r \in eligible : \/ r \in Range(kept)
                                    \/ \E s \in Range(kept) : s.id > r.id /\ Signature(s) = Signature(r)
             /\ \A s \in Range(kept), r \in eligible : Signature(s) = Signature(r) => s.id >= r.id
    <2>1. CASE command.all_runs
        BY <1>3, <2>1
    <2>2. CASE ~command.all_runs
        BY <1>3, <2>2, DedupedRows
    <2> QED
        BY <2>1, <2>2
<1> HIDE DEF kept, built
<1>9. S \subseteq eligible
    BY <1>7, <1>8
<1>10. ASSUME Len(built) < command.limit, NEW r \in eligible, r \notin S
       PROVE  /\ ~command.all_runs
              /\ \E s \in S :
                     /\ s.id > r.id /\ Trial(s) = Trial(r)
                     /\ Served(s) = Served(r)
                     /\ AllIdentified(r) => Machines(s) = Machines(r)
    <2>1. S = Range(kept) /\ ~command.all_runs
        BY <1>7, <1>8, <1>10
    <2>2. PICK s \in S : s.id > r.id /\ Signature(s) = Signature(r)
        BY <1>8, <1>10, <2>1
    <2>3. /\ Trial(r) = Trial(s) /\ Served(r) = Served(s)
          /\ AllIdentified(r) => Machines(r) = Machines(s)
        BY <1>5, <1>9, <2>2, SignatureTells
    <2> QED
        BY <2>1, <2>2, <2>3
<1>11. ASSUME ~command.all_runs, NEW s \in S, NEW r \in eligible, MustMerge(s, r)
       PROVE  s.id >= r.id
    <2>1. Signature(s) = Signature(r)
        BY <1>5, <1>9, <1>11, MergedSignature
    <2> QED
        BY <1>7, <1>8, <1>11, <2>1
<1>12. Len(built) < command.limit =>
           \A r \in eligible :
               \/ r \in S
               \/ /\ ~command.all_runs
                  /\ \E s \in S :
                         /\ s.id > r.id /\ Trial(s) = Trial(r)
                         /\ Served(s) = Served(r)
                         /\ AllIdentified(r) => Machines(s) = Machines(r)
    BY <1>10, Zenon
<1>13. ~command.all_runs => \A s \in S, r \in eligible : MustMerge(s, r) => s.id >= r.id
    BY <1>11, Zenon
<1>14. /\ Len(built) = Cardinality(S)
       /\ \A i, j \in DOMAIN built : i < j => ~Before(built[j], built[i], command.ascending)
    BY <1>7, Zenon
<1> QED
    BY <1>9, <1>12, <1>13, <1>14, Zenon

-----------------------------------------------------------------------------
(* Measured speeds are numbers                                               *)

IsPrinted(printed) == IsSequence(printed) /\ \A k \in DOMAIN printed : printed[k].avg_ts \in Int

LEMMA GreatestExists ==
    ASSUME NEW n \in Nat, NEW S, S \subseteq 1..n, S # {}
    PROVE  Max(S) \in S
<1> DEFINE T == {n - i : i \in S}
<1>1. T \subseteq Nat /\ T # {}
    <2>1. \A i \in S : i \in 1..n
        OBVIOUS
    <2>2. \A i \in S : n - i \in Nat
        BY <2>1
    <2>3. PICK i \in S : TRUE
        OBVIOUS
    <2> QED
        BY <2>2, <2>3
<1> HIDE DEF T
<1>2. PICK t \in T : \A u \in T : t <= u
    BY <1>1, LeastExists
<1>3. PICK i \in S : t = n - i
    BY <1>2 DEF T
<1>4. \A j \in S : n - j \in T
    BY DEF T
<1>5. \A j \in S : i >= j
    BY <1>2, <1>3, <1>4
<1> QED
    BY <1>3, <1>5 DEF Max

LEMMA ParsedIsFair ==
    ASSUME NEW printed, IsPrinted(printed)
    PROVE  Fair(LlamaBenchMetrics(printed))
<1> DEFINE of(i) == {Prefix(printed[i]) \o <<leaf>> : leaf \in DOMAIN Leaf(printed[i])}
           places(name) == {i \in DOMAIN printed : name \in of(i)}
           names == UNION {of(i) : i \in DOMAIN printed}
           value(name) == Leaf(printed[Max(places(name))])[name[3]]
           metrics == LlamaBenchMetrics(printed)
<1>1. metrics = [name \in names |-> value(name)]
    BY DEF LlamaBenchMetrics
<1>2. Len(printed) \in Nat /\ DOMAIN printed = 1..Len(printed)
    BY DEF IsPrinted, IsSequence
<1> HIDE DEF of
<1>3. ASSUME NEW name \in names
      PROVE  Max(places(name)) \in DOMAIN printed
    <2>1. places(name) \subseteq 1..Len(printed) /\ places(name) # {}
        BY <1>2
    <2> HIDE DEF places
    <2>2. Max(places(name)) \in places(name)
        BY <1>2, <2>1, GreatestExists
    <2> QED
        BY <1>2, <2>1, <2>2
<1> HIDE DEF places, names
<1>4. ASSUME NEW name \in names, IsSpeed(name)
      PROVE  value(name) \in Int
    <2>1. name[3] = "tokens_per_second"
        BY <1>4 DEF IsSpeed
    <2>2. value(name) = printed[Max(places(name))].avg_ts
        BY <2>1 DEF Leaf
    <2> QED
        BY <1>3, <2>2 DEF IsPrinted
<1> HIDE DEF value, metrics
<1>5. DOMAIN metrics = names /\ \A name \in names : metrics[name] = value(name)
    BY <1>1
<1> QED
    BY <1>4, <1>5 DEF Fair, metrics

LEMMA CountedIsFair == \A results : Fair(Counted(results))
<1>1. ASSUME NEW results, NEW name \in DOMAIN Counted(results)
      PROVE  name[1] # "tg"
    <2>1. \E field \in {"request_count", "response_count", "error_count",
                        "completion_tokens_total", "workflow_count", "workflow_step_count",
                        "workflow_step_abs_error", "code_count", "code_syntax_valid_count",
                        "code_contract_pass_count",
                        "code_reference_import_recall_comparison_count",
                        "code_reference_import_recall",
                        "code_reference_call_recall_comparison_count",
                        "code_reference_call_recall"} : name = <<field>>
        BY DEF Counted
    <2> QED
        BY <2>1
<1> QED
    BY <1>1 DEF Fair, IsSpeed

LEMMA NoMetricsAreFair == Fair(NoMetrics)
BY DEF Fair, NoMetrics

LEMMA NothingIsPrinted == IsPrinted(<<>>) /\ IsPrinted(NoFiles.printed)
<1>1. <<>> \in Seq({}) /\ DOMAIN <<>> = {}
    OBVIOUS
<1>2. IsPrinted(<<>>)
    BY <1>1, SequenceOfItsElements DEF IsPrinted, IsSequence
<1> QED
    BY <1>2 DEF NoFiles

LEMMA BenchPrints ==
    ASSUME NEW trial, NEW speed \in Speeds
    PROVE  IsPrinted(Printed(trial, speed))
<1> DEFINE p == Printed(trial, speed)
<1>1. /\ p = <<p[1], p[2]>> /\ DOMAIN p = 1..2
      /\ p[1].avg_ts = 2 * speed /\ p[2].avg_ts = speed
    BY DEF Printed
<1>2. speed \in Int
    BY ComparisonAssumption
<1>3. p \in Seq({p[1], p[2]})
    BY DEF Printed
<1> HIDE DEF p
<1>4. \A k \in DOMAIN p : p[k].avg_ts \in Int
    <2>1. \A k \in 1..2 : k = 1 \/ k = 2
        OBVIOUS
    <2> QED
        BY <1>1, <1>2, <2>1
<1>5. IsSequence(p)
    BY <1>3, SequenceOfItsElements DEF IsSequence
<1> QED
    BY <1>4, <1>5 DEF IsPrinted, p

LEMMA ContentIsPrinted ==
    ASSUME NEW place \in Files
    PROVE  IsPrinted(Content[place])
<1>1. /\ Content[place] \in Seq(Range(Content[place]))
      /\ \A result \in Range(Content[place]) : result.avg_ts \in Int
    BY ComparisonAssumption
<1> QED
    BY <1>1, SequenceOfItsElements DEF IsPrinted, IsSequence, Range

-----------------------------------------------------------------------------
(* The inductive invariant: what the columns of a row say                    *)

RowColumns == {"id", "kind", "spec", "suite", "name", "work", "config", "system", "target",
               "status", "metrics"}
FixedColumns == {"kind", "spec", "suite", "name", "work", "config", "target"}

\* The profile of a row is a host's, its speeds are numbers, and the rest tells its
\* trial; and what is printed of it is a list of results.
ColumnsOf(i, row, printed) ==
    /\ RowColumns \subseteq DOMAIN row
    /\ row.system \in Profiles /\ Fair(row.metrics) /\ IsPrinted(printed)
    /\ IF i \in DOMAIN Legacy THEN IsOld(row, Legacy[i]) ELSE IsNew(row)
ColumnsInv == \A i \in DOMAIN runs : ColumnsOf(i, runs[i], files[i].printed)

LEMMA FixedColumnsTell ==
    ASSUME NEW i, NEW row, NEW printed, ColumnsOf(i, row, printed), NEW other,
           RowColumns \subseteq DOMAIN other, \A f \in FixedColumns : other[f] = row[f],
           other.system \in Profiles, Fair(other.metrics), NEW now, IsPrinted(now)
    PROVE  ColumnsOf(i, other, now)
<1>1. /\ other.kind = row.kind /\ other.spec = row.spec /\ other.suite = row.suite
      /\ other.name = row.name /\ other.work = row.work /\ other.config = row.config
      /\ other.target = row.target
    BY DEF FixedColumns
<1>2. IsNew(row) => IsNew(other)
    BY <1>1 DEF IsNew
<1>3. i \in DOMAIN Legacy /\ IsOld(row, Legacy[i]) => IsOld(other, Legacy[i])
    BY <1>1 DEF IsOld
<1> QED
    BY <1>2, <1>3 DEF ColumnsOf

LEMMA ColumnsStep ==
    ASSUME ColumnsInv, DOMAIN runs' = DOMAIN runs,
           \A i \in DOMAIN runs :
               /\ RowColumns \subseteq DOMAIN runs'[i]
               /\ \A f \in FixedColumns : runs'[i][f] = runs[i][f]
               /\ runs'[i].system \in Profiles /\ Fair(runs'[i].metrics)
               /\ IsPrinted(files'[i].printed)
    PROVE  ColumnsInv'
BY FixedColumnsTell DEF ColumnsInv

\* A row gets other metrics, a profile, an outcome, or nothing.
KeepsRow(row, other) ==
    /\ RowColumns \subseteq DOMAIN other /\ \A f \in FixedColumns : other[f] = row[f]
    /\ other.system \in Profiles /\ Fair(other.metrics)

LEMMA RowUpdated ==
    ASSUME NEW row, RowColumns \subseteq DOMAIN row, row.system \in Profiles, Fair(row.metrics)
    PROVE  /\ KeepsRow(row, row)
           /\ \A metrics : Fair(metrics) => KeepsRow(row, [row EXCEPT !.metrics = metrics])
           /\ \A system \in Profiles : KeepsRow(row, [row EXCEPT !.system = system])
           /\ \A status, metrics :
                  Fair(metrics) =>
                      KeepsRow(row, [row EXCEPT !.status = status, !.metrics = metrics, !.listed = TRUE])
<1>1. KeepsRow(row, row)
    BY DEF KeepsRow
<1>2. ASSUME NEW metrics, Fair(metrics) PROVE KeepsRow(row, [row EXCEPT !.metrics = metrics])
    BY <1>2 DEF KeepsRow, RowColumns, FixedColumns
<1>3. ASSUME NEW system \in Profiles PROVE KeepsRow(row, [row EXCEPT !.system = system])
    BY DEF KeepsRow, RowColumns, FixedColumns
<1>4. ASSUME NEW status, NEW metrics, Fair(metrics)
      PROVE  KeepsRow(row, [row EXCEPT !.status = status, !.metrics = metrics, !.listed = TRUE])
    <2> DEFINE other == [row EXCEPT !.status = status, !.metrics = metrics, !.listed = TRUE]
    <2>1. /\ DOMAIN other = DOMAIN row /\ other.metrics = metrics
          /\ \A f \in DOMAIN row \ {"status", "metrics", "listed"} : other[f] = row[f]
        BY DEF RowColumns
    <2> HIDE DEF other
    <2>2. KeepsRow(row, other)
        BY <1>4, <2>1 DEF KeepsRow, RowColumns, FixedColumns
    <2> QED
        BY <2>2 DEF other
<1> QED
    BY <1>1, <1>2, <1>3, <1>4

LEMMA SameRowsColumns ==
    ASSUME ColumnsInv, UNCHANGED runs, \A i \in DOMAIN runs : files'[i].printed = files[i].printed
    PROVE  ColumnsInv'
BY DEF ColumnsInv

\* Only the end of a bench process writes what is printed.
LEMMA OtherFilesKept ==
    ASSUME TableInv, FilesInv,
           \/ files' = files
           \/ \E v : files' = [files EXCEPT ![Current].torn = v]
           \/ \E v : files' = [files EXCEPT ![Current].responses = v]
           \/ \E v : files' = [files EXCEPT ![Current].errors = v]
           \/ \E v : files' = [files EXCEPT ![Current].measured = v]
           \/ \E v : files' = [files EXCEPT ![Current].claimed = v]
    PROVE  \A i \in DOMAIN runs : files'[i].printed = files[i].printed
<1>1. DOMAIN files = DOMAIN runs /\ \A i \in DOMAIN runs : DOMAIN files[i] = FileFields
    BY FilesShape DEF FilesInv
<1> QED
    BY <1>1 DEF FileFields

LEMMA EndedColumns ==
    ASSUME TableInv, FilesInv, ColumnsInv, NEW status, NEW metrics, Fair(metrics),
           runs' = Ended(status, metrics),
           \/ files' = files
           \/ \E printed : IsPrinted(printed) /\ files' = [files EXCEPT ![Current].printed = printed]
    PROVE  ColumnsInv'
<1>1. DOMAIN files = DOMAIN runs /\ \A i \in DOMAIN runs : DOMAIN files[i] = FileFields
    BY FilesShape DEF FilesInv
<1>2. /\ DOMAIN runs' = DOMAIN runs
      /\ \A i \in DOMAIN runs :
             \/ runs'[i] = runs[i]
             \/ runs'[i] = [runs[i] EXCEPT !.status = status, !.metrics = metrics, !.listed = TRUE]
    BY DEF Ended
<1>3. \A i \in DOMAIN runs : IsPrinted(files'[i].printed)
    <2>1. \A i \in DOMAIN runs : IsPrinted(files[i].printed)
        BY DEF ColumnsInv, ColumnsOf
    <2>2. ASSUME NEW printed, IsPrinted(printed), files' = [files EXCEPT ![Current].printed = printed],
                 NEW i \in DOMAIN runs
          PROVE  files'[i].printed \in {printed, files[i].printed}
        BY <1>1, <2>2 DEF FileFields
    <2> QED
        BY <2>1, <2>2
<1>4. ASSUME NEW i \in DOMAIN runs PROVE KeepsRow(runs[i], runs'[i])
    <2>1. KeepsRow(runs[i], runs[i])
          /\ KeepsRow(runs[i], [runs[i] EXCEPT !.status = status, !.metrics = metrics, !.listed = TRUE])
        BY RowUpdated DEF ColumnsInv, ColumnsOf
    <2> QED
        BY <1>2, <2>1
<1> QED
    BY <1>2, <1>3, <1>4, ColumnsStep DEF KeepsRow

LEMMA BegunColumns ==
    ASSUME TableInv, FilesInv, ColumnsInv, NEW row, row.id = Len(runs) + 1, Begin(row),
           UNCHANGED samples, RowColumns \subseteq DOMAIN row, IsNew(row),
           row.system \in Profiles, Fair(row.metrics)
    PROVE  ColumnsInv'
<1>1. /\ DOMAIN runs' = 1..(Len(runs) + 1)
      /\ \A i \in DOMAIN runs : runs'[i] = runs[i] /\ files'[i] = files[i]
      /\ runs'[Len(runs) + 1] = row /\ files'[Len(runs) + 1] = NoFiles
    BY BegunFiles
<1>2. Len(runs) \in Nat /\ DOMAIN runs = 1..Len(runs) /\ DOMAIN Legacy \subseteq DOMAIN runs
    BY TableShape
<1>3. ColumnsOf(Len(runs) + 1, row, NoFiles.printed)
    <2>1. Len(runs) + 1 \notin DOMAIN Legacy
        BY <1>2
    <2> QED
        BY <2>1, NothingIsPrinted DEF ColumnsOf
<1>4. \A i \in DOMAIN runs' : i \in DOMAIN runs \/ i = Len(runs) + 1
    BY <1>1, <1>2
<1> QED
    BY <1>1, <1>3, <1>4 DEF ColumnsInv

LEMMA NewRowColumns ==
    ASSUME command \in AllCommands, command.name \in {"bench", "agent"}
    PROVE  /\ \A config, trial :
                  LET row == TrialRow(config, trial)
                  IN  /\ RowColumns \subseteq DOMAIN row /\ IsNew(row) /\ row.id = Len(runs) + 1
                      /\ row.system \in Profiles /\ Fair(row.metrics)
           /\ \A config, endpoint :
                  LET row == EvalRow(config, endpoint)
                  IN  /\ RowColumns \subseteq DOMAIN row /\ IsNew(row) /\ row.id = Len(runs) + 1
                      /\ row.system \in Profiles /\ Fair(row.metrics)
<1>1. command.host \in Profiles /\ command.target \in Targets
    BY DEF Profiles, Targets
<1>2. \A kind, suite, label, work, config :
          LET row == NewRow(kind, suite, label, work, config)
          IN  /\ RowColumns \subseteq DOMAIN row /\ row.id = Len(runs) + 1
              /\ row.system \in Profiles /\ Fair(row.metrics)
              /\ row.spec = Spec_(kind, suite, work, config) /\ row.kind = kind
              /\ row.suite = suite /\ row.work = work /\ row.config = config
              /\ row.name.label = label /\ row.target = command.target
    BY <1>1, NoMetricsAreFair DEF NewRow, RowColumns, Name
<1>3. ASSUME NEW config, NEW trial
      PROVE  LET row == TrialRow(config, trial)
             IN  /\ RowColumns \subseteq DOMAIN row /\ IsNew(row) /\ row.id = Len(runs) + 1
                 /\ row.system \in Profiles /\ Fair(row.metrics)
    <2> DEFINE row == TrialRow(config, trial)
               work == BenchCommand(config, trial)
               made == [model |-> trial.model.name, params |-> trial.params,
                        prompt_tokens |-> trial.prompt_tokens, gen_tokens |-> trial.gen_tokens]
    <2>1. row = NewRow("llama_bench", config.name, <<config.name, trial.model.name>>, work, made)
        BY DEF TrialRow
    <2>2. made.model = trial.model.name /\ "execution_target" \notin DOMAIN made
        OBVIOUS
    <2> HIDE DEF row, work, made
    <2>3. /\ RowColumns \subseteq DOMAIN row /\ row.id = Len(runs) + 1
          /\ row.system \in Profiles /\ Fair(row.metrics)
          /\ row.spec = Spec_("llama_bench", config.name, work, made) /\ row.kind = "llama_bench"
          /\ row.suite = config.name /\ row.work = work /\ row.config = made
          /\ row.name.label = <<config.name, trial.model.name>> /\ row.target = command.target
        BY <1>2, <2>1
    <2>4. IsNew(row)
        BY <1>1, <2>2, <2>3 DEF IsNew
    <2> QED
        BY <2>3, <2>4 DEF row
<1>4. ASSUME NEW config, NEW endpoint
      PROVE  LET row == EvalRow(config, endpoint)
             IN  /\ RowColumns \subseteq DOMAIN row /\ IsNew(row) /\ row.id = Len(runs) + 1
                 /\ row.system \in Profiles /\ Fair(row.metrics)
    <2> DEFINE row == EvalRow(config, endpoint)
               work == {<<"agent-eval", endpoint.name>>}
               pin == IF command.target = NoTarget THEN NoTarget
                      ELSE TargetIdentityJson(command.target)
               made == [endpoint |-> endpoint, requests |-> Requests, model |-> endpoint.model,
                        execution_target |-> pin, prompt_tokens |-> 0,
                        gen_tokens |-> config.max_tokens]
    <2>1. row = NewRow("agent_eval", config.name, <<config.name, endpoint.name>>, work, made)
        BY DEF EvalRow
    <2>2. /\ made.endpoint = endpoint /\ "execution_target" \in DOMAIN made
          /\ made.execution_target = pin /\ made = [f \in DOMAIN made |-> made[f]]
        OBVIOUS
    <2> HIDE DEF row, work, made
    <2>3. /\ RowColumns \subseteq DOMAIN row /\ row.id = Len(runs) + 1
          /\ row.system \in Profiles /\ Fair(row.metrics)
          /\ row.spec = Spec_("agent_eval", config.name, work, made) /\ row.kind = "agent_eval"
          /\ row.suite = config.name /\ row.work = work /\ row.config = made
          /\ row.name.label = <<config.name, endpoint.name>> /\ row.target = command.target
        BY <1>2, <2>1
    <2>4. IsNew(row)
        BY <1>1, <2>2, <2>3 DEF IsNew
    <2> QED
        BY <2>3, <2>4 DEF row
<1> QED
    BY <1>3, <1>4

-----------------------------------------------------------------------------
(* Every step keeps the columns                                              *)

LEMMA MigrateKeepsColumns ==
    ASSUME CommandsInv, RecordsInv, ColumnsInv, Migrate
    PROVE  ColumnsInv'
<1>1. /\ UNCHANGED files
      /\ UNCHANGED runs \/ UpdateRow
    BY DEF Migrate, OpenDatabase, DefineSchema, StartVersion2, UpdateRow, InsertStdout,
           InsertStderr, MarkVersion2, ApplyVersion3, MarkVersion3, given, table
<1>2. TableInv /\ LegacyInv /\ OpeningInv
    BY DEF CommandsInv, MigrationInv
<1>3. CASE UNCHANGED runs
    BY <1>1, <1>3, SameRowsColumns
<1>4. CASE UpdateRow
    <2> DEFINE row == Head(opening.rows)
    <2>1. opening.step = "row" /\ opening.rows # <<>> /\ runs' = [runs EXCEPT ![row.id] = Migrated(row)]
        BY <1>4 DEF UpdateRow
    <2>2. RowsInv
        BY <1>2, <2>1 DEF OpeningInv
    <2>3. PICK k \in DOMAIN Legacy : row \in {Legacy[k], Migrated(Legacy[k])}
        BY <2>1, <2>2, RowsShape
    <2>4. row.id = k /\ Migrated(row) = Migrated(Legacy[k])
        BY <2>3, FetchedRow
    <2> HIDE DEF row
    <2>5. DOMAIN Legacy \subseteq DOMAIN runs
        BY <1>2, TableShape
    <2>6. /\ DOMAIN runs' = DOMAIN runs
          /\ \A i \in DOMAIN runs : i # k => runs'[i] = runs[i]
          /\ runs'[k] = Migrated(Legacy[k])
        BY <2>1, <2>4, <2>5
    <2>7. ColumnsOf(k, Migrated(Legacy[k]), files[k].printed)
        <3> DEFINE old == Legacy[k]
                   new == Migrated(old)
        <3>1. {"kind", "spec", "name", "config", "id", "status"} \subseteq DOMAIN old
            BY LegacyAssumption
        <3>2. /\ {"suite", "work", "system", "target", "metrics"} \subseteq DOMAIN old
              /\ old.target = NoTarget /\ Fair(old.metrics)
            BY ComparisonAssumption DEF Fair
        <3>3. /\ DOMAIN new = DOMAIN old
              /\ \A f \in DOMAIN old \ {"kind", "spec", "name", "config"} : new[f] = old[f]
            BY <3>1, MigratedFields
        <3>4. old.system \in Profiles
            BY DEF Profiles
        <3> HIDE DEF old, new
        <3>5. /\ new.suite = old.suite /\ new.work = old.work /\ new.system = old.system
              /\ new.target = old.target /\ new.metrics = old.metrics
            BY <3>1, <3>2, <3>3
        <3>6. RowColumns \subseteq DOMAIN new
            BY <3>1, <3>2, <3>3 DEF RowColumns
        <3>7. IsPrinted(files[k].printed)
            BY <2>5 DEF ColumnsInv, ColumnsOf
        <3>8. IsOld(new, old)
            BY <3>2, <3>5 DEF IsOld
        <3> QED
            BY <3>2, <3>4, <3>5, <3>6, <3>7, <3>8 DEF ColumnsOf, old, new
    <2> QED
        BY <1>1, <2>6, <2>7 DEF ColumnsInv
<1> QED
    BY <1>1, <1>3, <1>4

LEMMA BenchKeepsColumns ==
    ASSUME CommandsInv, RecordsInv, ColumnsInv, Bench, UNCHANGED evaluating
    PROVE  ColumnsInv'
<1>1. TableInv /\ FilesInv /\ ExecutingInv /\ CurrentInv /\ UNCHANGED samples
    BY DEF CommandsInv, MigrationInv, RecordsInv, evaluating
<1>2. CASE StartSweep \/ StartBench \/ Draw \/ Drawn \/ EndSweep \/ LeaveSweep \/ OrphanEnds
    BY <1>2, SameRowsColumns DEF StartSweep, StartBench, Draw, Drawn, EndSweep, LeaveSweep,
       OrphanEnds, table
<1>3. CASE BeginTrial
    <2>1. command.name = "bench"
        BY <1>1, <1>3 DEF BeginTrial, ExecutingInv
    <2>2. command \in AllCommands
        BY <1>1, <2>1 DEF CurrentInv, NoCommand
    <2>3. \/ UNCHANGED table
          \/ \E trial : Begin(TrialRow(command.config, trial))
        BY <1>3 DEF BeginTrial
    <2> QED
        BY <1>1, <2>1, <2>2, <2>3, NewRowColumns, BegunColumns, SameRowsColumns DEF table
<1>4. CASE CannotStart \/ Terminated \/ InterruptHandler
    BY <1>1, <1>4, NoMetricsAreFair, EndedColumns DEF CannotStart, Terminated, InterruptHandler
<1>5. CASE BenchEnds
    <2>1. PICK printed \in Outputs(Trials[sweep.next]) :
              /\ files' = [files EXCEPT ![Current].printed = printed]
              /\ \E status : runs' = Ended(status, LlamaBenchMetrics(printed))
        BY <1>5 DEF BenchEnds
    <2>2. IsPrinted(printed)
        BY BenchPrints, NothingIsPrinted DEF Outputs
    <2> QED
        BY <1>1, <2>1, <2>2, ParsedIsFair, EndedColumns
<1>6. CASE InterruptWait \/ InterruptTrial
    <2>1. UNCHANGED files /\ (UNCHANGED runs \/ runs' = Ended("failed", NoMetrics))
        BY <1>6 DEF InterruptWait, InterruptTrial
    <2> QED
        BY <1>1, <2>1, NoMetricsAreFair, EndedColumns, SameRowsColumns
<1> QED
    BY <1>2, <1>3, <1>4, <1>5, <1>6 DEF Bench

LEMMA EvaluateKeepsColumns ==
    ASSUME CommandsInv, RecordsInv, ColumnsInv, Evaluate
    PROVE  ColumnsInv'
<1>1. TableInv /\ FilesInv /\ ExecutingInv /\ CurrentInv
    BY DEF CommandsInv, MigrationInv, RecordsInv
<1>2. CASE StartEval \/ Ask \/ RecordSample \/ EndEval \/ LeaveEval
    BY <1>2, SameRowsColumns DEF StartEval, Ask, RecordSample, EndEval, LeaveEval, table
<1>3. CASE BeginTarget
    <2>1. command.name = "agent" /\ UNCHANGED samples
        BY <1>1, <1>3 DEF BeginTarget, ExecutingInv
    <2>2. command \in AllCommands
        BY <1>1, <2>1 DEF CurrentInv, NoCommand
    <2>3. \E endpoint : Begin(EvalRow(command.config, endpoint))
        BY <1>3 DEF BeginTarget
    <2> QED
        BY <1>1, <2>1, <2>2, <2>3, NewRowColumns, BegunColumns
<1>4. CASE ClaimArtifact \/ AppendResponse \/ AppendError \/ Measure
    <2>1. /\ UNCHANGED runs
          /\ \/ \E v : files' = [files EXCEPT ![Current].claimed = v]
             \/ \E v : files' = [files EXCEPT ![Current].responses = v]
             \/ \E v : files' = [files EXCEPT ![Current].errors = v]
             \/ \E v : files' = [files EXCEPT ![Current].measured = v]
        <3>1. CASE AppendResponse
            <4>1. /\ UNCHANGED runs
                  /\ files' = [files EXCEPT ![Current].responses = Append(@, Last(eval.results))]
                BY <3>1 DEF AppendResponse
            <4>2. [files EXCEPT ![Current].responses = Append(@, Last(eval.results))]
                  = [files EXCEPT ![Current].responses =
                        Append(files[Current].responses, Last(eval.results))]
                OBVIOUS
            <4> QED
                BY <4>1, <4>2
        <3>2. CASE AppendError
            <4>1. /\ UNCHANGED runs
                  /\ files' = [files EXCEPT ![Current].errors = Append(@, Last(eval.results).error)]
                BY <3>2 DEF AppendError
            <4>2. [files EXCEPT ![Current].errors = Append(@, Last(eval.results).error)]
                  = [files EXCEPT ![Current].errors =
                        Append(files[Current].errors, Last(eval.results).error)]
                OBVIOUS
            <4> QED
                BY <4>1, <4>2
        <3>3. CASE Measure
            BY <3>3 DEF Measure
        <3>4. CASE ClaimArtifact
            <4>1. UNCHANGED runs /\ files' = [files EXCEPT ![Current].claimed = @ + 1]
                BY <3>4 DEF ClaimArtifact
            <4>2. [files EXCEPT ![Current].claimed = @ + 1]
                  = [files EXCEPT ![Current].claimed = files[Current].claimed + 1]
                OBVIOUS
            <4> QED
                BY <4>1, <4>2
        <3> QED
            BY <1>4, <3>1, <3>2, <3>3, <3>4
    <2> QED
        BY <1>1, <2>1, OtherFilesKept, SameRowsColumns
<1>5. CASE Complete
    <2>1. UNCHANGED files /\ \E status : runs' = Ended(status, Counted(eval.results))
        BY <1>5 DEF Complete
    <2> QED
        BY <1>1, <2>1, CountedIsFair, EndedColumns
<1>6. CASE InterruptEval
    <2>1. UNCHANGED files /\ (UNCHANGED runs \/ runs' = Ended("failed", NoMetrics))
        BY <1>6 DEF InterruptEval
    <2> QED
        BY <1>1, <2>1, NoMetricsAreFair, EndedColumns, SameRowsColumns
<1> QED
    BY <1>2, <1>3, <1>4, <1>5, <1>6 DEF Evaluate

\* What a reparse reads are lists of results.
LEMMA ReparsedIsFair ==
    ASSUME ArtifactsInv, ColumnsInv, NEW row, row.id \in DOMAIN runs,
           ReparseRun(row).how = "parsed"
    PROVE  Fair(ReparseRun(row).metrics)
<1>1. \A how : NotReparsed(how).how = how
    BY DEF NotReparsed
<1>2. CASE IsLegacy(row)
    <2> DEFINE a == CHOOSE a \in LegacyOutput(row) : TRUE
    <2>1. ReparseRun(row) = ReparsedLegacy(row)
        BY <1>2 DEF ReparseRun
    <2>2. \E b \in LegacyOutput(row) : b.place \in Files
        BY <1>1, <2>1 DEF ReparsedLegacy
    <2>3. /\ ReparsedLegacy(row).metrics = LlamaBenchMetrics(Content[a.place])
        BY <1>1, <2>1, <2>2 DEF ReparsedLegacy
    <2>4. \A b, c \in LegacyOutput(row) : b = c
        BY DEF LegacyOutput, ArtifactsInv
    <2>5. a \in LegacyOutput(row)
        BY <2>2
    <2> HIDE DEF a
    <2>6. a.place \in Files
        BY <2>2, <2>4, <2>5
    <2> QED
        BY <2>1, <2>3, <2>6, ContentIsPrinted, ParsedIsFair
<1>3. CASE ~IsLegacy(row) /\ row.kind = "llama_bench"
    <2>1. ReparseRun(row).metrics = LlamaBenchMetrics(files[row.id].printed)
        BY <1>3 DEF ReparseRun
    <2> QED
        BY <2>1, ParsedIsFair DEF ColumnsInv, ColumnsOf
<1>4. CASE ~IsLegacy(row) /\ row.kind # "llama_bench"
    <2>1. ReparseRun(row).metrics = Counted(files[row.id].responses)
        BY <1>1, <1>4 DEF ReparseRun, ReparsedEval
    <2> QED
        BY <2>1, CountedIsFair
<1> QED
    BY <1>2, <1>3, <1>4

LEMMA ReportKeepsColumns ==
    ASSUME CommandsInv, RecordsInv, ColumnsInv, Report,
           UNCHANGED <<migration, benching, evaluating, kills>>
    PROVE  ColumnsInv'
<1>1. /\ TableInv /\ ArtifactsInv /\ ReparsesRows /\ UNCHANGED files /\ command # NoCommand
      /\ CurrentInv
    BY OnlyReport DEF CommandsInv, MigrationInv, RecordsInv, CurrentInv
<1>2. CASE Compare \/ LeaveCompare \/ StartReparse \/ LeaveReparse
    BY <1>1, <1>2, SameRowsColumns DEF Compare, LeaveCompare, StartReparse, LeaveReparse, table
<1>3. ASSUME NEW system \in Profiles, NEW metrics, Fair(metrics), DOMAIN runs' = DOMAIN runs,
             \A i \in DOMAIN runs : \/ runs'[i] = runs[i]
                                    \/ runs'[i] = [runs[i] EXCEPT !.metrics = metrics]
                                    \/ runs'[i] = [runs[i] EXCEPT !.system = system]
      PROVE  ColumnsInv'
    <2>1. ASSUME NEW i \in DOMAIN runs PROVE KeepsRow(runs[i], runs'[i])
        <3>1. /\ KeepsRow(runs[i], runs[i])
              /\ KeepsRow(runs[i], [runs[i] EXCEPT !.metrics = metrics])
              /\ KeepsRow(runs[i], [runs[i] EXCEPT !.system = system])
            BY <1>3, RowUpdated DEF ColumnsInv, ColumnsOf
        <3> QED
            BY <1>3, <3>1
    <2>2. \A i \in DOMAIN runs : IsPrinted(files'[i].printed)
        BY <1>1 DEF ColumnsInv, ColumnsOf
    <2> QED
        BY <1>3, <2>1, <2>2, ColumnsStep DEF KeepsRow
<1>4. command.host \in Profiles
    BY <1>1 DEF CurrentInv, Profiles
<1>5. CASE ReparseRow
    <2>1. PICK row \in reparse.left :
              \/ runs' = runs
              \/ /\ ReparseRun(row).how = "parsed"
                 /\ runs' = [runs EXCEPT ![row.id].metrics = ReparseRun(row).metrics]
        BY <1>5 DEF ReparseRow
    <2>2. row.id \in DOMAIN runs
        BY <1>1 DEF ReparsesRows
    <2>3. CASE runs' = runs
        BY <1>1, <2>3, SameRowsColumns
    <2>4. CASE /\ ReparseRun(row).how = "parsed"
               /\ runs' = [runs EXCEPT ![row.id].metrics = ReparseRun(row).metrics]
        <3> DEFINE metrics == ReparseRun(row).metrics
        <3>1. Fair(metrics)
            BY <1>1, <2>2, <2>4, ReparsedIsFair
        <3>2. /\ DOMAIN runs' = DOMAIN runs
              /\ \A i \in DOMAIN runs : \/ runs'[i] = runs[i]
                                        \/ runs'[i] = [runs[i] EXCEPT !.metrics = metrics]
            BY <2>4
        <3> HIDE DEF metrics
        <3> QED
            BY <1>3, <1>4, <3>1, <3>2
    <2> QED
        BY <2>1, <2>3, <2>4
<1>6. CASE Backfill
    <2>1. /\ DOMAIN runs' = DOMAIN runs
          /\ \A i \in DOMAIN runs : \/ runs'[i] = runs[i]
                                    \/ runs'[i] = [runs[i] EXCEPT !.system = command.host]
        BY <1>6 DEF Backfill
    <2> QED
        BY <1>3, <1>4, <2>1, NoMetricsAreFair
<1> QED
    BY <1>2, <1>5, <1>6 DEF Report

LEMMA InitGivesColumns == Init => ColumnsInv
<1> SUFFICES ASSUME Init, NEW i \in DOMAIN runs PROVE ColumnsOf(i, runs[i], files[i].printed)
    BY DEF ColumnsInv
<1>1. runs = Legacy /\ files = [k \in DOMAIN Legacy |-> NoFiles]
    BY DEF Init, MigrationInit
<1>2. i \in DOMAIN Legacy /\ runs[i] = Legacy[i] /\ files[i] = NoFiles
    BY <1>1
<1> DEFINE old == Legacy[i]
<1>3. {"id", "kind", "spec", "name", "config", "status"} \subseteq DOMAIN old
    BY <1>2, LegacyAssumption
<1>4. /\ {"suite", "work", "system", "target", "metrics"} \subseteq DOMAIN old
      /\ old.target = NoTarget /\ Fair(old.metrics)
    BY <1>2, ComparisonAssumption DEF Fair
<1>5. old.system \in Profiles
    BY <1>2 DEF Profiles
<1>6. RowColumns \subseteq DOMAIN old
    BY <1>3, <1>4 DEF RowColumns
<1> QED
    BY <1>2, <1>4, <1>5, <1>6, NothingIsPrinted DEF ColumnsOf, IsOld

LEMMA NextKeepsColumns == CommandsInv /\ RecordsInv /\ ColumnsInv /\ [Next]_vars => ColumnsInv'
<1> SUFFICES ASSUME CommandsInv, RecordsInv, ColumnsInv, [Next]_vars PROVE ColumnsInv'
    OBVIOUS
<1>1. TableInv /\ FilesInv
    BY DEF CommandsInv, MigrationInv, RecordsInv
<1>2. CASE UNCHANGED vars \/ Give \/ Refuse
    BY <1>2, SameRowsColumns DEF vars, table, Give, Refuse
<1>3. CASE Kill
    <2>1. UNCHANGED runs /\ \/ files' = files
                            \/ files' = [files EXCEPT ![Current].torn = TRUE]
        BY <1>3 DEF Kill
    <2> QED
        BY <1>1, <2>1, OtherFilesKept, SameRowsColumns
<1>4. CASE Migrate
    BY <1>4, MigrateKeepsColumns
<1>5. CASE Bench /\ UNCHANGED evaluating
    BY <1>5, BenchKeepsColumns
<1>6. CASE Evaluate
    BY <1>6, EvaluateKeepsColumns
<1>7. CASE Report /\ UNCHANGED <<migration, benching, evaluating, kills>>
    BY <1>7, ReportKeepsColumns
<1> QED
    BY <1>2, <1>3, <1>4, <1>5, <1>6, <1>7 DEF Next

LEMMA ColumnsInvHolds == Spec => []ColumnsInv
    BY InitGivesColumns, NextKeepsColumns, CommandsInvHolds, RecordsInvHolds, PTL DEF Spec

-----------------------------------------------------------------------------
(* What is shown stays what the table says                                   *)

LEMMA ShownKept ==
    ASSUME ShownInv, UNCHANGED <<runs, command, shown, opening>>
    PROVE  ShownInv'
BY DEF ShownInv, Open, ComparisonRuns

\* Between a comparison and its end nothing of the process moves but orphans.
LEMMA NextKeepsShown == CommandsInv /\ RecordsInv /\ ShownInv /\ [Next]_vars => ShownInv'
<1> SUFFICES ASSUME CommandsInv, RecordsInv, ShownInv, [Next]_vars PROVE ShownInv'
    OBVIOUS
<1>1. ExecutingInv /\ CurrentInv
    BY DEF CommandsInv, RecordsInv
<1>2. shown.done => Open /\ command.name = "compare"
    BY <1>1 DEF ShownInv, ExecutingInv
<1>3. ~NothingShown.done
    BY DEF NothingShown
<1>4. ASSUME ~shown'.done PROVE ShownInv'
    BY <1>4 DEF ShownInv
<1>5. ASSUME UNCHANGED shown, shown.done => UNCHANGED <<runs, command, opening>> PROVE ShownInv'
    BY <1>4, <1>5, ShownKept
<1>6. CASE UNCHANGED vars
    BY <1>5, <1>6 DEF vars, table, given, migration, reporting
<1>7. CASE Kill
    BY <1>3, <1>4, <1>7 DEF Kill
<1>8. CASE Give \/ Refuse
    BY <1>2, <1>5, <1>8 DEF Give, Refuse, Refused, NoCommand, reporting
<1>9. CASE Migrate /\ UNCHANGED reporting
    <2>1. ~Open
        BY <1>9 DEF Migrate, OpenDatabase, DefineSchema, StartVersion2, UpdateRow, InsertStdout,
           InsertStderr, MarkVersion2, ApplyVersion3, MarkVersion3, Open, Shut
    <2> QED
        BY <1>2, <1>5, <1>9, <2>1 DEF reporting
<1>10. CASE Bench /\ UNCHANGED <<migration, reporting>>
    <2>1. command.name = "bench" \/ UNCHANGED <<table, given>>
        <3>1. CASE sweep.step # "none"
            BY <1>1, <3>1 DEF ExecutingInv
        <3>2. CASE sweep.step = "none"
            BY <1>10, <3>2 DEF Bench, StartSweep, BeginTrial, StartBench, CannotStart, Draw, Drawn,
               BenchEnds, InterruptTrial, InterruptWait, Terminated, InterruptHandler, EndSweep,
               LeaveSweep, OrphanEnds
        <3> QED
            BY <3>1, <3>2
    <2> QED
        BY <1>2, <1>5, <1>10, <2>1 DEF reporting, migration, table, given
<1>11. CASE Evaluate /\ UNCHANGED reporting
    <2>1. command.name = "agent"
        <3>1. command.name = "agent" \/ eval.step # "none"
            BY <1>11 DEF Evaluate, StartEval, BeginTarget, ClaimArtifact, Ask, AppendResponse,
               AppendError, RecordSample, Measure, Complete, InterruptEval, EndEval, LeaveEval
        <3> QED
            BY <1>1, <3>1 DEF ExecutingInv
    <2> QED
        BY <1>2, <1>5, <1>11, <2>1 DEF reporting
<1>12. CASE Open /\ Report /\ UNCHANGED migration
    <2>1. CASE Compare
        <3>1. /\ command.name = "compare" /\ UNCHANGED <<runs, command, opening>>
              /\ shown' = [done |-> TRUE,
                           rows |-> BuildCompareRows(
                                        FilterCompareRuns(ComparisonRuns(command.include_failed),
                                                          command.suites), command)]
            BY <1>12, <2>1 DEF Compare, table, given, migration
        <3>2. command \in AllCommands
            BY <1>1, <3>1 DEF CurrentInv, NoCommand
        <3> QED
            BY <1>12, <3>1, <3>2 DEF ShownInv, Open, ComparisonRuns
    <2>2. CASE LeaveCompare
        BY <1>3, <1>4, <2>2 DEF LeaveCompare
    <2>3. CASE StartReparse \/ ReparseRow \/ LeaveReparse \/ Backfill
        <3>1. command.name \in {"reparse", "backfill"} /\ UNCHANGED shown
            BY <1>1, <2>3 DEF StartReparse, ReparseRow, LeaveReparse, Backfill, ExecutingInv, reporting
        <3> QED
            BY <1>2, <1>5, <3>1
    <2> QED
        BY <1>12, <2>1, <2>2, <2>3 DEF Report
<1> QED
    BY <1>6, <1>7, <1>8, <1>9, <1>10, <1>11, <1>12 DEF Next

LEMMA ShownInvHolds == Spec => []ShownInv
<1>1. Init => ShownInv
    BY DEF Init, ShownInv, NothingShown
<1> QED
    BY <1>1, NextKeepsShown, CommandsInvHolds, RecordsInvHolds, PTL DEF Spec

LEMMA RowsAreKnown ==
    ASSUME CommandsInv, ColumnsInv, NEW r \in Range(runs)
    PROVE  Fair(r.metrics) /\ (Open => IsKnown(r))
<1>1. PICK i \in DOMAIN runs : r = runs[i]
    BY DEF Range
<1>2. ColumnsOf(i, r, files[i].printed)
    BY <1>1 DEF ColumnsInv
<1>3. Open /\ i \in DOMAIN Legacy => IsMigrated(r, Legacy[i])
    BY <1>1 DEF CommandsInv, MigrationInv, OpeningInv, LegacyInv, Open
<1> QED
    BY <1>2, <1>3 DEF ColumnsOf, IsKnown

-----------------------------------------------------------------------------
\* Whatever the table holds, of whatever commands, from before and after the migration
\* and however they were cut off: a comparison shows, best first, the latest eligible run
\* of every trial on every machine it can tell from the others, no run of another machine
\* takes its place, and none that must merge with a later one is shown beside it
\* (compare.py _dedupe_latest_configs and _sort_key, core/targets.py, utils/system.py).
THEOREM ComparisonsShowLatest == Spec => []ComparisonShowsLatest
<1>1. CommandsInv /\ RecordsInv /\ ColumnsInv /\ ShownInv => ComparisonShowsLatest
    <2> SUFFICES ASSUME CommandsInv, RecordsInv, ColumnsInv, ShownInv PROVE ComparisonShowsLatest
        OBVIOUS
    <2>1. TableInv /\ FilesInv /\ (shown.done => command.name = "compare")
        BY DEF CommandsInv, MigrationInv, RecordsInv, ExecutingInv
    <2>2. \A r \in Range(runs) : Fair(r.metrics) /\ (Open => IsKnown(r))
        BY RowsAreKnown
    <2> QED
        BY <2>1, <2>2, ShownRows
<1> QED
    BY <1>1, CommandsInvHolds, RecordsInvHolds, ColumnsInvHolds, ShownInvHolds, PTL

-----------------------------------------------------------------------------
(* The trials that are meant                                                 *)

LEMMA AllOfThem ==
    ASSUME NEW s, IsSequence(s)
    PROVE  SubSeq(s, 1, Len(s)) = s
<1> DEFINE S == {s[i] : i \in DOMAIN s}
<1>1. s \in Seq(S)
    BY DEF IsSequence
<1> HIDE DEF S
<1> QED
    BY <1>1

\* A prefix of a sequence
LEMMA PrefixIsPart ==
    ASSUME NEW s, IsSequence(s), NEW n \in 0..Len(s)
    PROVE  /\ Len(SubSeq(s, 1, n)) = n /\ DOMAIN SubSeq(s, 1, n) = 1..n /\ DOMAIN s = 1..Len(s)
           /\ \A i \in 1..n : i \in DOMAIN s /\ SubSeq(s, 1, n)[i] = s[i]
<1> DEFINE S == {s[i] : i \in DOMAIN s}
<1>1. s \in Seq(S)
    BY DEF IsSequence
<1> HIDE DEF S
<1> QED
    BY <1>1

\* expand_trials: of every configuration that was loaded, whatever is repeated in it, the
\* trials of a sweep are among those it means; they are all of them if the limit cuts
\* nothing off, and each comes once if nothing is repeated.
THEOREM TrialsAreThoseMeant ==
    ASSUME NEW c \in AllCommands, c.name = "bench"
    PROVE  TrialsAreMeant(c.config, c.limit)
<1> DEFINE all == AllTrials(c.config)
           trials == ExpandTrials(c.config, c.limit)
           n == IF c.limit < Len(all) THEN c.limit ELSE Len(all)
<1>1. IsLoaded(c.config) /\ c.limit \in Nat
    BY LoadedIsLoaded
<1>2. /\ IsSequence(all) /\ Range(all) = Meant(c.config)
      /\ RepeatsNothing(c.config) => IsInjective(all)
    BY <1>1, ExpandedElements
<1>3. trials = SubSeq(all, 1, n)
    BY DEF ExpandTrials
<1> HIDE DEF all, trials
<1>4. Len(all) \in Nat
    BY <1>2 DEF IsSequence
<1>5. n \in 0..Len(all) /\ (c.limit >= Len(all) => n = Len(all))
    BY <1>1, <1>4
<1> HIDE DEF n
<1>6. /\ DOMAIN trials = 1..n /\ \A i \in 1..n : i \in DOMAIN all /\ trials[i] = all[i]
    BY <1>2, <1>3, <1>5, PrefixIsPart
<1>7. Range(trials) \subseteq Meant(c.config)
    BY <1>2, <1>6 DEF Range
<1>8. c.limit >= Len(all) => Range(trials) = Meant(c.config)
    BY <1>2, <1>3, <1>5, AllOfThem
<1>9. RepeatsNothing(c.config) => IsInjective(trials)
    BY <1>2, <1>6 DEF IsInjective
<1> QED
    BY <1>7, <1>8, <1>9 DEF TrialsAreMeant, all, trials

\* benchmarks/llama_bench: however a sweep ends, the table accounts for it, and its trials
\* are those its configuration means.
THEOREM SweepsAreAccounted == Spec => []SweepIsAccounted
<1>1. CommandsInv /\ RecordsInv /\ SweepInv => SweepIsAccounted
    <2> SUFFICES ASSUME CommandsInv, RecordsInv, SweepInv,
                        sweep.step \in {"ok", "raised", "interrupted"}
                 PROVE  TrialsAreMeant(command.config, command.limit) /\ RowsAreOfTrials
        BY DEF SweepIsAccounted
    <2>1. command \in AllCommands /\ command.name = "bench"
        BY UnderWay
    <2>2. TrialsAreMeant(command.config, command.limit)
        BY <2>1, TrialsAreThoseMeant
    <2> QED
        BY <2>2, RowsOfSweep
<1> QED
    BY <1>1, CommandsInvHolds, RecordsInvHolds, SweepInvHolds, PTL
=============================================================================
