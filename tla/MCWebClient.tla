---------------------------- MODULE MCWebClient ----------------------------
(* Instances of WebClient for TLC.                                         *)
EXTENDS WebClient

CONSTANTS i1, i2, d1, q1, q2, p1, p2, p3, s1, s2, k1, k2

(* Uploads of i1 are for a scope that i2 is in as well.                    *)
MCShares == [i \in Identities |-> IF i = i1 THEN Identities ELSE {i}]

(* p1 and p2 are of one document, p2 and p3 rank higher.                   *)
MCSource == [p \in Passages |-> IF p = p3 THEN s2 ELSE s1]
MCWeight == [p \in Passages |-> IF p = p1 THEN 1 ELSE 2]

(* p3 answers the second question only.                                    *)
MCFits == [q \in Questions |-> IF q = q1 THEN Passages \ {p3} ELSE Passages]

MCGranted == [i \in Identities |-> IF i = i1 THEN Documents ELSE Documents \ {s1}]

=============================================================================
