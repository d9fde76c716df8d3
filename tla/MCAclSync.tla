----------------------------- MODULE MCAclSync -----------------------------
(* Instances of AclSync for TLC.                                           *)
EXTENDS AclSync

CONSTANTS d1, d2, s1, s2, r1, r2

(* One policy with a bound of its own, one that relies on the default and  *)
(* admits another role.                                                    *)
MCPolicies ==
  { [sites |-> {}, roles |-> {r1}, maxStale |-> 0],
    [sites |-> {}, roles |-> {r2}, maxStale |-> None] }

OnePolicy == { [sites |-> {}, roles |-> {r1}, maxStale |-> 1] }

OneSource  == [d \in Docs |-> s1]
TwoSources == [d \in Docs |-> IF d = d1 THEN s1 ELSE s2]

=============================================================================
