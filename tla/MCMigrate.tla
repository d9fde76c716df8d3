----------------------------- MODULE MCMigrate -----------------------------
(* An instance of Migrate for TLC.                                         *)
EXTENDS Migrate

CONSTANTS r1, r2, r3, a, b

(* Successive releases, one whose second file was edited, and one that     *)
(* was branched before the second file and has the third.                  *)
MCReleases == {[v \in Versions |-> IF v = 1 THEN a ELSE None],
               [v \in Versions |-> IF v = 3 THEN None ELSE a],
               [v \in Versions |-> a],
               [v \in Versions |-> IF v = 2 THEN b ELSE a],
               [v \in Versions |-> IF v = 2 THEN None ELSE a]}

=============================================================================
