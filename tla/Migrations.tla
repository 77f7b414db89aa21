----------------------------- MODULE Migrations -----------------------------
(***************************************************************************)
(* storage/migrations.py: what ResultStore.__init__ does to the database   *)
(* before a command may use it.  Every statement commits on its own, and   *)
(* the process may be killed between any two.                              *)
(*                                                                         *)
(* Rows written before version 2 have no hash, perhaps no kind, a path for *)
(* their output and one for their errors instead of artifacts, and the     *)
(* configuration of their time.  A path is the name of a file and whether  *)
(* it is absolute; a place is a directory and a name.                      *)
(***************************************************************************)
EXTENDS RunsTable

CONSTANTS
    Legacy,     \* the rows of the database as it is found
    Found,      \* the tables and columns it has
    Files       \* the places at which there is a file

\* What a row of before version 2 has: columns of its own and no hash, neither as
\* its spec nor in its name.  Rows are numbered in the order of their ended_at.
ASSUME LegacyAssumption ==
    /\ Legacy \in Seq({Legacy[i] : i \in DOMAIN Legacy})
    /\ \A i \in DOMAIN Legacy :
           LET row == Legacy[i]
           IN  /\ {"id", "kind", "spec", "name", "config", "stdout", "stderr", "cwd", "status"}
                      \subseteq DOMAIN row
               /\ row.id = i /\ row.spec = NoSpec
               /\ {"label", "suffixes"} \subseteq DOMAIN row.name
               /\ row.name.suffixes = <<>>
               /\ {"provider", "protocol", "benchmark"} \subseteq DOMAIN row.config

VARIABLES
    schema,     \* the tables and columns
    applied,    \* the versions schema_migrations has
    artifacts,  \* the artifacts of legacy rows: run, role and place
    opening     \* how far the process is: its next step, the statements left
                \* of initialize_schema and the rows left of _migrate_legacy_runs

database == <<schema, applied, artifacts>>

NoPath == [absolute |-> FALSE, name |-> "none"]
Shut == [step |-> "shut", statements |-> <<>>, rows |-> <<>>]

-----------------------------------------------------------------------------
Columns == {"benchmark_kind", "spec_hash", "parent_run_id", "schema_version", "system_json",
            "target_json"}

\* The statements of initialize_schema before the versions, by what they ensure.
Statements ==
    <<"runs", "benchmark_kind", "spec_hash", "parent_run_id", "schema_version", "system_json",
      "target_json", "metrics", "artifacts", "samples", "schema_migrations">>

\* CREATE TABLE IF NOT EXISTS and _ensure_column.  A new runs table has the columns.
Ensured(what) ==
    IF what = "runs" /\ "runs" \notin schema THEN schema \cup {"runs"} \cup Columns
    ELSE schema \cup {what}

OpenDatabase ==
    /\ command # NoCommand /\ opening.step = "shut"
    /\ opening' = [step |-> "schema", statements |-> Statements, rows |-> <<>>]
    /\ UNCHANGED <<table, given, database>>

DefineSchema ==
    /\ opening.step = "schema"
    /\ IF opening.statements = <<>>
       THEN opening' = [opening EXCEPT !.step = "version 2"] /\ UNCHANGED schema
       ELSE /\ schema' = Ensured(Head(opening.statements))
            /\ opening' = [opening EXCEPT !.statements = Tail(@)]
    /\ UNCHANGED <<table, given, applied, artifacts>>

-----------------------------------------------------------------------------
(* Version 2: _migrate_legacy_runs.                                          *)

ProtocolByProvider ==
    [openai |-> "openai_chat", cerebras |-> "openai_chat", ollama |-> "ollama_chat"]

\* _migrate_config
MigrateConfig(config) ==
    [config EXCEPT
        !.provider = "none",
        !.protocol = IF @ = "none" /\ config.provider \in DOMAIN ProtocolByProvider
                     THEN ProtocolByProvider[config.provider] ELSE @,
        !.benchmark = IF @ = "lm-eval" THEN "lm_eval" ELSE @]

\* _infer_benchmark_kind; "mapping" is any mapping.
InferBenchmarkKind(config) ==
    IF config.benchmark \in {"lm-eval", "lm_eval"} THEN "lm_eval"
    ELSE IF config.benchmark = "mapping" THEN "agent_eval"
    ELSE IF config.scenario # "none" /\ {config.provider, config.protocol} # {"none"}
    THEN "http_load" ELSE "llama_bench"

Kind(row) == IF row.kind # "none" THEN row.kind ELSE InferBenchmarkKind(MigrateConfig(row.config))

Fingerprint(row) ==
    IF row.spec # NoSpec THEN row.spec
    ELSE [scheme |-> 0, kind |-> Kind(row), name |-> row.name, work |-> row.work,
          config |-> MigrateConfig(row.config)]

\* The name gets the fingerprint unless it ends with it.
NormalizedName(row) ==
    IF row.name.suffixes # <<>> /\ Last(row.name.suffixes) = Fingerprint(row) THEN row.name
    ELSE [row.name EXCEPT !.suffixes = Append(@, Fingerprint(row))]

Migrated(row) ==
    [row EXCEPT !.kind = Kind(row), !.spec = Fingerprint(row), !.name = NormalizedName(row),
                !.config = MigrateConfig(row.config)]

\* A version whose marker is there is skipped; the rows are fetched at once.
StartVersion2 ==
    /\ opening.step = "version 2"
    /\ IF 2 \in applied THEN opening' = [opening EXCEPT !.step = "version 3"]
       ELSE opening' = [opening EXCEPT !.step = "row", !.rows = runs]
    /\ UNCHANGED <<table, given, database>>

HasPaths == "paths" \in schema
NextRow == [opening EXCEPT !.step = "row", !.rows = Tail(@)]

\* Mutant: the hash a row gets is only appended to its name.
UpdateRow_NameOnly ==
    /\ opening.step = "row" /\ opening.rows # <<>>
    /\ LET row == Head(opening.rows)
       IN  runs' = [runs EXCEPT ![row.id] = [Migrated(row) EXCEPT !.spec = row.spec]]
    /\ opening' = IF HasPaths THEN [opening EXCEPT !.step = "stdout"] ELSE NextRow
    /\ UNCHANGED <<files, given, database>>

UpdateRow ==
    /\ opening.step = "row" /\ opening.rows # <<>>
    /\ LET row == Head(opening.rows)
       IN  runs' = [runs EXCEPT ![row.id] = Migrated(row)]
    /\ opening' = IF HasPaths THEN [opening EXCEPT !.step = "stdout"] ELSE NextRow
    /\ UNCHANGED <<files, given, database>>

\* _resolve_legacy_path: the first place that has the file, or the first one.
Place(path, base) ==
    IF path.absolute THEN <<"root", path.name>>
    ELSE LET directories == <<base, "database", command.cwd>>
             found == {i \in 1..3 : <<directories[i], path.name>> \in Files}
         IN  IF found = {} THEN <<base, path.name>>
             ELSE <<directories[CHOOSE i \in found : \A j \in found : i <= j], path.name>>

\* _legacy_stdout_role, and the role of stderr
StdoutRole(kind) ==
    IF kind = "lm_eval" THEN "result"
    ELSE IF kind \in {"http_load", "agent_eval"} THEN "responses" ELSE "stdout"
StderrRole(kind) == IF kind \in {"http_load", "agent_eval"} THEN "errors" ELSE "stderr"

\* INSERT OR IGNORE: run and role are the key.
InsertLegacyArtifact(row, role, path) ==
    artifacts' = IF path = NoPath \/ \E a \in artifacts : a.run = row.id /\ a.role = role
                 THEN artifacts
                 ELSE artifacts \cup {[run |-> row.id, role |-> role,
                                       place |-> Place(path, row.cwd)]}

InsertStdout ==
    /\ opening.step = "stdout"
    /\ LET row == Head(opening.rows)
       IN  InsertLegacyArtifact(row, StdoutRole(Kind(row)), row.stdout)
    /\ opening' = [opening EXCEPT !.step = "stderr"]
    /\ UNCHANGED <<table, given, schema, applied>>

InsertStderr ==
    /\ opening.step = "stderr"
    /\ LET row == Head(opening.rows)
       IN  InsertLegacyArtifact(row, StderrRole(Kind(row)), row.stderr)
    /\ opening' = NextRow
    /\ UNCHANGED <<table, given, schema, applied>>

MarkVersion2 ==
    /\ opening.step = "row" /\ opening.rows = <<>>
    /\ applied' = applied \cup {2}
    /\ opening' = [opening EXCEPT !.step = "version 3"]
    /\ UNCHANGED <<table, given, schema, artifacts>>

\* Version 3 ensures a column, which initialize_schema has already done.
ApplyVersion3 ==
    /\ opening.step = "version 3"
    /\ schema' = IF 3 \in applied THEN schema ELSE Ensured("target_json")
    /\ opening' = [opening EXCEPT !.step = IF 3 \in applied THEN "open" ELSE "mark 3"]
    /\ UNCHANGED <<table, given, applied, artifacts>>

MarkVersion3 ==
    /\ opening.step = "mark 3"
    /\ applied' = applied \cup {3}
    /\ opening' = [opening EXCEPT !.step = "open"]
    /\ UNCHANGED <<table, given, schema, artifacts>>

Open == opening.step = "open"

MigrationInit ==
    /\ runs = Legacy /\ files = [i \in DOMAIN Legacy |-> NoFiles]
    /\ schema = Found /\ applied = {} /\ artifacts = {} /\ opening = Shut

Migrate ==
    \/ OpenDatabase \/ DefineSchema \/ StartVersion2 \/ UpdateRow \/ InsertStdout
    \/ InsertStderr \/ MarkVersion2 \/ ApplyVersion3 \/ MarkVersion3

-----------------------------------------------------------------------------
\* A database that a command may use has been migrated exactly once, however
\* often an earlier opening was cut off and from wherever it was made: each row
\* has the identity its original gives it, one hash in its name, and each of its
\* files as an artifact, where it is found if it is beside the run or the database.
MigrationConverges ==
    Open =>
        /\ Columns \subseteq schema
        /\ \A i \in DOMAIN Legacy :
               LET old == Legacy[i]
                   kind == Kind(old)
                   has(role, path) ==
                       path # NoPath /\ HasPaths =>
                           \E a \in artifacts :
                               /\ a.run = i /\ a.role = role /\ a.place[2] = path.name
                               /\ ~path.absolute /\ a.place \notin Files =>
                                      {<<old.cwd, path.name>>, <<"database", path.name>>}
                                          \cap Files = {}
               IN  /\ runs[i].kind = kind /\ runs[i].spec = Fingerprint(old)
                   /\ runs[i].config = MigrateConfig(old.config)
                   /\ runs[i].name.label = old.name.label
                   /\ runs[i].name.suffixes = <<Fingerprint(old)>>
                   /\ has(StdoutRole(kind), old.stdout) /\ has(StderrRole(kind), old.stderr)
        /\ \A a, b \in artifacts : a.run = b.run /\ a.role = b.role => a = b
=============================================================================
