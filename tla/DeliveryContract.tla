--------------------------- MODULE DeliveryContract ---------------------------
(***************************************************************************)
(* What the durable backlog of agent-os promises for a task delivery that  *)
(* could not be made at once: the delivery is owed, it is tried a bounded  *)
(* number of times, and in the end it is either delivered or written off,  *)
(* and stays so.  Abstract: no table, no worker, no batch, no failures of  *)
(* the store.  DeliveryBacklog implements this module.                     *)
(***************************************************************************)
EXTENDS Naturals

CONSTANTS Runs,         \* the task runs whose delivery may be owed
          MaxAttempts   \* how many failed tries write a delivery off

VARIABLES debt,    \* run -> "none" | "owed" | "delivered" | "written_off"
          tries    \* run -> tries that failed

contractVars == <<debt, tries>>

ContractInit == /\ debt = [r \in Runs |-> "none"]
                /\ tries = [r \in Runs |-> 0]

\* The executor gave up and the delivery is now owed.
Owe(r) == /\ debt[r] = "none"
          /\ debt' = [debt EXCEPT ![r] = "owed"]
          /\ UNCHANGED tries

\* A try that the peer accepted.
Deliver(r) == /\ debt[r] = "owed"
              /\ debt' = [debt EXCEPT ![r] = "delivered"]
              /\ UNCHANGED tries

\* A try that failed; the last one allowed writes the delivery off.
Miss(r) == /\ debt[r] = "owed"
           /\ tries' = [tries EXCEPT ![r] = @ + 1]
           /\ debt' = [debt EXCEPT ![r] =
                         IF tries'[r] = MaxAttempts THEN "written_off" ELSE "owed"]

ContractNext == \E r \in Runs : Owe(r) \/ Deliver(r) \/ Miss(r)

ContractSafety == ContractInit /\ [][ContractNext]_contractVars

\* An owed delivery keeps being tried.
ContractSpec == /\ ContractSafety
                /\ \A r \in Runs : WF_contractVars(Deliver(r) \/ Miss(r))
===============================================================================
