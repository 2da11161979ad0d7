----------------------------- MODULE ApiProcess -----------------------------
(***************************************************************************)
(* An API process from its start to its end: it migrates the database      *)
(* together with the other processes, then serves place searches from      *)
(* memory, and loses that memory when it ends.                             *)
(***************************************************************************)
EXTENDS Migrations, PlaceSearch

CONSTANT Observed   \* the process whose searches are followed

ASSUME ApiProcessAssumption == Observed \in Processes

vars == <<schemaVars, searchVars>>

Init == SchemaInit /\ SearchInit

\* A process that starts, or is refused a migration, has no memory to lose.
Starts(p) == StartUp(p) /\ UNCHANGED searchVars

Ends(p) ==
  /\ Exit(p)
  /\ IF p = Observed THEN Forget ELSE UNCHANGED searchVars

Serves ==
  /\ stage[Observed] = "serving"
  /\ Search
  /\ UNCHANGED schemaVars

\* Readings of the clock are compared only within the life of a process.
Time ==
  /\ stage[Observed] = "serving"
  /\ Tick
  /\ UNCHANGED schemaVars

\* The bounds are reached and nobody searches any more.
Rest ==
  /\ clock = MaxClock
  /\ \A p \in Processes : stage[p] = "serving"
  /\ UNCHANGED vars

Next ==
  \/ \E p \in Processes : Starts(p) \/ Ends(p)
  \/ Serves
  \/ Time
  \/ Rest

(***************************************************************************)
(* The supervisor starts what is down, and a process that is starting goes *)
(* on: its only wait, for a row of schema_migrations, ends with the        *)
(* transaction that holds it.  Requests and failures need not happen.      *)
(***************************************************************************)
Spec == Init /\ [][Next]_vars /\ \A p \in Processes : WF_vars(Starts(p))

-----------------------------------------------------------------------------
(***************************************************************************)
(* When failures stop, every process comes to serve and goes on serving,   *)
(* also those that lost the race for a migration and had to start again.   *)
(***************************************************************************)
StartUpSettles == \A p \in Processes : <>[](stage[p] = "serving")
=============================================================================
