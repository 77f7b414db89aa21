------------------------------ MODULE Commands ------------------------------
(***************************************************************************)
(* One database and the commands that are given on it, one after the       *)
(* other: `llama bench`, `agent eval`, `compare`, `reparse` and            *)
(* `backfill-system-metadata`.  Every command opens the database first,    *)
(* which migrates it, and each may be killed at any step.                  *)
(***************************************************************************)
EXTENDS Comparison

CONSTANTS
    Scripts,     \* the sequences of commands that are given
    MaxKills     \* bound on how many commands are killed

AllCommands == UNION {Range(script) : script \in Scripts}

ASSUME CommandsAssumption ==
    /\ Scripts \subseteq Seq(AllCommands)
    /\ MaxKills \in Nat

\* What loading a configuration sees to: lists are lists, an empty list of prompt
\* variants or response types is the default one, the names of models are unique,
\* the swept keys are those of a mapping, and a limit is a number.
ASSUME ConfigsAssumption ==
    \A c \in AllCommands :
        LET config == c.config
        IN  /\ c.name = "agent" =>
                   /\ config.tasks \in Seq(Range(config.tasks))
                   /\ config.prompt_variants \in Seq(Range(config.prompt_variants)) \ {<<>>}
                   /\ config.response_types \in Seq(Range(config.response_types)) \ {<<>>}
                   /\ config.limit \in Nat
            /\ c.name = "bench" =>
                   /\ config.models \in Seq(Range(config.models))
                   /\ config.prompts \in Seq(Range(config.prompts))
                   /\ config.gens \in Seq(Range(config.gens))
                   /\ config.swept \in Seq(Range(config.swept))
                   /\ \A item \in Range(config.swept) : item.values \in Seq(Range(item.values))
                   /\ \A i, j \in DOMAIN config.models :
                          config.models[i].name = config.models[j].name => i = j
                   /\ \A i, j \in DOMAIN config.swept :
                          config.swept[i].key = config.swept[j].key => i = j
                   /\ c.limit \in Nat

\* The host profiles that a row can have, of its executor or of its target
Profiles ==
    {c.host : c \in AllCommands} \cup {Legacy[i].system : i \in DOMAIN Legacy}
    \cup {c.target.profile : c \in {c \in AllCommands : /\ c.name \in {"bench", "agent"}
                                                         /\ c.target # NoTarget}}

\* What only a comparison needs.  What tells one machine from others belongs to no
\* other; speeds are numbers; a target has its columns; and old rows, which have no
\* target, begin their names with their suite, which their hash does not hold.
ASSUME ComparisonAssumption ==
    /\ \A p, q \in Profiles :
           \/ DOMAIN Candidates(p) \cap DOMAIN Candidates(q) # {}
           \/ /\ p.fingerprint = NoFingerprint /\ q.fingerprint = NoFingerprint
              /\ p.hostname # None /\ p.hostname = q.hostname
           => p.machine = q.machine
    /\ Speeds \subseteq Int
    /\ \A place \in Files :
           /\ Content[place] \in Seq(Range(Content[place]))
           /\ \A result \in Range(Content[place]) : result.avg_ts \in Int
    /\ \A c \in AllCommands :
           /\ c.name = "compare" => c.limit \in Nat
           /\ c.name \in {"bench", "agent"} /\ c.target # NoTarget =>
                  {"schema_version", "name", "profile", "destination", "service", "route",
                   "model", "topology", "binding"} \subseteq DOMAIN c.target
    /\ \A i \in DOMAIN Legacy :
           LET row == Legacy[i]
           IN  /\ {"suite", "work", "system", "target", "metrics"} \subseteq DOMAIN row
               /\ row.target = NoTarget /\ "execution_target" \notin DOMAIN row.config
               /\ row.name = [label |-> row.name.label, suffixes |-> <<>>]
               /\ \A name \in DOMAIN row.metrics : IsSpeed(name) => row.metrics[name] \in Int
               /\ \A j \in DOMAIN Legacy :
                      Legacy[j].name = row.name => Legacy[j].suite = row.suite

VARIABLES kills  \* how many have been

migration == <<database, opening>>
benching == <<sweep, benches>>
evaluating == <<eval, samples>>
vars == <<table, given, migration, benching, evaluating, reporting, kills>>

Give ==
    /\ command = NoCommand /\ todo # <<>>
    /\ command' = Head(todo) /\ todo' = Tail(todo)
    /\ opening' = Shut
    /\ UNCHANGED <<table, database, benching, evaluating, reporting, kills>>

\* `agent eval` reads its tasks before it opens the database.
Refused == command.name = "agent" /\ CannotSelect(command.config)
Refuse ==
    /\ Refused /\ Over
    /\ UNCHANGED <<table, todo, migration, benching, evaluating, reporting, kills>>

\* SIGKILL, or Ctrl-C while the database is opened or repaired: nothing handles it.
\* A response that was being written may be torn.
Kill ==
    /\ command # NoCommand /\ kills < MaxKills
    /\ kills' = kills + 1
    /\ sweep' = NoSweep /\ eval' = NoEval /\ shown' = NothingShown /\ reparse' = NoReparse
    /\ \E torn \in {FALSE, eval.step = "response"} :
           files' = IF torn THEN [files EXCEPT ![Current].torn = TRUE] ELSE files
    /\ opening' = Shut /\ Over
    /\ UNCHANGED <<runs, todo, database, benches, samples>>

Init ==
    /\ MigrationInit
    /\ todo \in Scripts /\ command = NoCommand
    /\ sweep = NoSweep /\ benches = {} /\ eval = NoEval /\ samples = {}
    /\ shown = NothingShown /\ reparse = NoReparse /\ kills = 0

Next ==
    \/ Give \/ Refuse \/ Kill
    \/ ~Refused /\ Migrate /\ UNCHANGED <<benching, evaluating, reporting, kills>>
    \/ Open /\ Bench /\ UNCHANGED <<migration, evaluating, reporting, kills>>
    \/ Open /\ Evaluate /\ UNCHANGED <<migration, benching, reporting, kills>>
    \/ Open /\ Report /\ UNCHANGED <<migration, benching, evaluating, kills>>

Spec == Init /\ [][Next]_vars
=============================================================================
