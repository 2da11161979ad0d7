------------------------- MODULE RideContract_proofs -------------------------
(***************************************************************************)
(* Proofs about the contract, for any number of rides and drivers.         *)
(***************************************************************************)
EXTENDS RideContract, TLAPS

(***************************************************************************)
(* The contract keeps its types, a driver's rides apart, and drivers and   *)
(* assignments together.  The three are inductive as one.                  *)
(***************************************************************************)
ContractInv == TypeOK /\ OneRideUnderWay /\ DriverOnlyByAssignment

\* Every step keeps them.
LEMMA ContractStep ==
  ASSUME ContractInv, [Next]_vars
  PROVE  ContractInv'
<1> USE DEF ContractInv, TypeOK, OneRideUnderWay, DriverOnlyByAssignment, Phases, UnderWay
<1>1. CASE UNCHANGED vars
  BY <1>1 DEF vars
<1>2. ASSUME NEW E \in SUBSET Open, Lapse(E) PROVE ContractInv'
  BY <1>2 DEF Lapse, Open
<1>3. ASSUME NEW E \in SUBSET Open, NEW r \in Rides \ E, NEW d \in Drivers, Assign(r, d, E)
      PROVE  ContractInv'
  <2>1. /\ phase' \in [Rides -> Phases]
        /\ phase'[r] = "assigned" /\ driver' = [driver EXCEPT ![r] = d]
        /\ \A q \in Rides : q # r => \/ phase'[q] = phase[q]
                                     \/ phase[q] = "open" /\ phase'[q] = "expired"
    BY <1>3 DEF Assign, MoveTo, Open
  <2>2. \A q \in Rides : driver[q] = d => phase[q] \notin UnderWay
    BY <1>3 DEF Assign, Busy
  <2> QED
    BY <2>1, <2>2
<1>4. ASSUME NEW E \in SUBSET Open, NEW r \in Rides \ E,
             \/ Request(r, E) \/ Start(r, E) \/ Complete(r, E)
             \/ CollectCash(r, E) \/ Cancel(r, E)
      PROVE  ContractInv'
  <2>1. /\ phase' \in [Rides -> Phases] /\ driver' = driver
        /\ \A q \in Rides : q # r => \/ phase'[q] = phase[q]
                                     \/ phase[q] = "open" /\ phase'[q] = "expired"
        /\ \/ phase[r] = "none" /\ phase'[r] = "open"
           \/ phase[r] = "assigned" /\ phase'[r] = "riding"
           \/ phase[r] = "riding" /\ phase'[r] = "completed"
           \/ phase[r] = "completed" /\ phase'[r] = "settled"
           \/ phase'[r] = "cancelled"
    BY <1>4 DEF Request, Start, Complete, CollectCash, Cancel, MoveTo, Open
  <2> QED
    BY <2>1
<1> QED
  BY <1>1, <1>2, <1>3, <1>4 DEF Next

\* They hold in every reachable state.
LEMMA ContractInductive == Spec => []ContractInv
<1>1. Init => ContractInv
  BY ContractAssumption
  DEF Init, ContractInv, TypeOK, OneRideUnderWay, DriverOnlyByAssignment, Phases, UnderWay
<1>2. ContractInv /\ [Next]_vars => ContractInv'
  BY ContractStep
<1> QED
  BY <1>1, <1>2, PTL DEF Spec

(***************************************************************************)
(* Under the contract no driver ever has two rides under way.              *)
(***************************************************************************)
THEOREM OneRideUnderWayAlways == Spec => []OneRideUnderWay
BY ContractInductive, PTL DEF ContractInv

(***************************************************************************)
(* Under the contract a ride has a driver exactly when it was given one.   *)
(***************************************************************************)
THEOREM DriverOnlyByAssignmentAlways == Spec => []DriverOnlyByAssignment
BY ContractInductive, PTL DEF ContractInv

(***************************************************************************)
(* The contract never reopens a ride that ended, nor replaces a driver.    *)
(***************************************************************************)
THEOREM ChoiceIsFinalAlways == Spec => ChoiceIsFinal
<1> DEFINE Kept == \A r \in Rides :
                     /\ phase[r] \in Final => phase'[r] = phase[r]
                     /\ driver[r] # NoDriver => driver'[r] = driver[r]
<1>1. ContractInv /\ [Next]_vars => [Kept]_vars
  <2> SUFFICES ASSUME ContractInv, Next PROVE Kept
    OBVIOUS
  <2> USE DEF ContractInv, TypeOK, DriverOnlyByAssignment, Final, Open, Kept, MoveTo
  <2>1. ASSUME NEW E \in SUBSET Open, Lapse(E) PROVE Kept
    BY <2>1 DEF Lapse
  <2>2. ASSUME NEW E \in SUBSET Open, NEW r \in Rides \ E, NEW d \in Drivers, Assign(r, d, E)
        PROVE  Kept
    BY <2>2 DEF Assign
  <2>3. ASSUME NEW E \in SUBSET Open, NEW r \in Rides \ E,
               \/ Request(r, E) \/ Start(r, E) \/ Complete(r, E)
               \/ CollectCash(r, E) \/ Cancel(r, E)
        PROVE  Kept
    BY <2>3 DEF Request, Start, Complete, CollectCash, Cancel
  <2> QED
    BY <2>1, <2>2, <2>3 DEF Next
<1> QED
  BY <1>1, ContractInductive, PTL DEF Spec, ChoiceIsFinal
==============================================================================
