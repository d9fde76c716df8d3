---------------------------- MODULE DevIdentity ----------------------------
(* The identity the web client sends with every request.  The bar that     *)
(* changes it is in the header, so it can change under any open panel.     *)
EXTENDS Naturals

CONSTANTS
  None,
  Identities,
  MaxSwitches  \* bound: number of changes of identity

VARIABLES
  identity,
  switches  \* number of changes so far

TypeOfIdentity == identity \in Identities /\ switches \in 0 .. MaxSwitches

InitIdentity == identity \in Identities /\ switches = 0

SetIdentity(i) ==
  /\ i # identity /\ switches < MaxSwitches
  /\ identity' = i
  /\ switches' = switches + 1

=============================================================================
