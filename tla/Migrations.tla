----------------------------- MODULE Migrations -----------------------------
(***************************************************************************)
(* The start of an API process: the embedded migrations are applied in the *)
(* order of their names, each in a transaction that also records its       *)
(* version, and only then does the process serve.  Any error ends the      *)
(* process, which its supervisor starts again.  Nothing keeps two          *)
(* processes from migrating one database at the same time: whether a       *)
(* version is applied is read before the transaction, and only the primary *)
(* key of schema_migrations stands between two that read the same.         *)
(*                                                                         *)
(* The effect of a migration is how often its SQL was committed: some may  *)
(* be run twice (CREATE ... IF NOT EXISTS, an INSERT of reference data),   *)
(* others fail the second time, so both are allowed.                       *)
(***************************************************************************)
EXTENDS Naturals, FiniteSets

CONSTANTS
  Processes,     \* API processes on one database
  Versions,      \* number of embedded migrations, 1..Versions in name order
  MaxFailures    \* bound: failures that are not caused by another process

ASSUME MigrationsAssumption == Versions \in Nat /\ MaxFailures \in Nat

VARIABLES
  stage,         \* how far process p is in its start
  file,          \* the migration that p is at
  applied,       \* versions in schema_migrations
  ran,           \* ran[m]: how often the SQL of m was committed
  failures       \* failures so far

schemaVars == <<stage, file, applied, ran, failures>>

Stages == {"down", "checking", "applying", "executed", "recorded", "serving"}
Files == 1..Versions

SchemaInit ==
  /\ stage = [p \in Processes |-> "down"]
  /\ file = [p \in Processes |-> 1]
  /\ applied = {}
  /\ ran = [m \in Files |-> 0]
  /\ failures = 0

\* The supervisor starts the process ("restart: unless-stopped").
Start(p) ==
  /\ stage[p] = "down"
  /\ stage' = [stage EXCEPT ![p] = "checking"]
  /\ file' = [file EXCEPT ![p] = 1]
  /\ UNCHANGED <<applied, ran, failures>>

\* Wrong: whether the version is applied is not asked.
CheckNothing(p) ==
  /\ stage[p] = "checking" /\ file[p] \in Files
  /\ stage' = [stage EXCEPT ![p] = "applying"]
  /\ UNCHANGED <<file, applied, ran, failures>>

\* SELECT EXISTS, outside any transaction.
Check(p) ==
  /\ stage[p] = "checking" /\ file[p] \in Files
  /\ IF file[p] \in applied
     THEN file' = [file EXCEPT ![p] = @ + 1] /\ UNCHANGED stage
     ELSE stage' = [stage EXCEPT ![p] = "applying"] /\ UNCHANGED file
  /\ UNCHANGED <<applied, ran, failures>>

\* BEGIN and the SQL of the file.
Execute(p) ==
  /\ stage[p] = "applying"
  /\ stage' = [stage EXCEPT ![p] = "executed"]
  /\ UNCHANGED <<file, applied, ran, failures>>

\* What the SQL creates exists already.
AlreadyExists(p) ==
  /\ stage[p] = "applying" /\ file[p] \in applied
  /\ stage' = [stage EXCEPT ![p] = "down"]
  /\ UNCHANGED <<file, applied, ran, failures>>

\* Wrong: INSERT ... ON CONFLICT DO NOTHING.
RecordAgain(p) ==
  /\ stage[p] = "executed"
  /\ \A q \in Processes \ {p} : ~(stage[q] = "recorded" /\ file[q] = file[p])
  /\ stage' = [stage EXCEPT ![p] = "recorded"]
  /\ UNCHANGED <<file, applied, ran, failures>>

\* The INSERT waits for another process's uncommitted row of the same version;
\* it is refused, and everything rolled back, when the version is there.
Record(p) ==
  /\ stage[p] = "executed"
  /\ \A q \in Processes \ {p} : ~(stage[q] = "recorded" /\ file[q] = file[p])
  /\ stage' = [stage EXCEPT ![p] = IF file[p] \in applied THEN "down" ELSE "recorded"]
  /\ UNCHANGED <<file, applied, ran, failures>>

CommitVersion(p) ==
  /\ stage[p] = "recorded"
  /\ applied' = applied \cup {file[p]}
  /\ ran' = [ran EXCEPT ![file[p]] = @ + 1]
  /\ stage' = [stage EXCEPT ![p] = "checking"]
  /\ file' = [file EXCEPT ![p] = @ + 1]
  /\ UNCHANGED failures

\* Apply has returned: the services are built and the server listens.
Serve(p) ==
  /\ stage[p] = "checking" /\ file[p] = Versions + 1
  /\ stage' = [stage EXCEPT ![p] = "serving"]
  /\ UNCHANGED <<file, applied, ran, failures>>

\* A lost connection, a failing statement, a crash, or the process is stopped;
\* losing the race to create schema_migrations itself counts among these.
Exit(p) ==
  /\ stage[p] # "down"
  /\ failures < MaxFailures
  /\ failures' = failures + 1
  /\ stage' = [stage EXCEPT ![p] = "down"]
  /\ UNCHANGED <<file, applied, ran>>

StartUp(p) ==
  \/ Start(p) \/ Check(p) \/ Execute(p) \/ AlreadyExists(p)
  \/ Record(p) \/ CommitVersion(p) \/ Serve(p)

-----------------------------------------------------------------------------
(***************************************************************************)
(* Every migration takes effect once and in order, however many processes  *)
(* start at the same time and wherever they fail; its version is recorded  *)
(* if and only if it took effect, and who serves finds the whole schema.   *)
(***************************************************************************)
SchemaStepsOnce ==
  /\ \A m \in Files : ran[m] = IF m \in applied THEN 1 ELSE 0
  /\ \A m \in applied : 1..m \subseteq applied
  /\ \A p \in Processes : stage[p] = "serving" => applied = Files
=============================================================================
