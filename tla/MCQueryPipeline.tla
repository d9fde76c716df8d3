-------------------------- MODULE MCQueryPipeline --------------------------
(* Instances of QueryPipeline for TLC.                                     *)
EXTENDS QueryPipeline

CONSTANTS d1, d2, d3, r1, n1, n2, c1, c2, c3, c4, c5, q1, open, closed

Policy(ss, n) == [sites |-> ss, roles |-> {r1}, maxStale |-> n]
MCPolicies == {Policy({}, 0), Policy({n2}, None)}
OnePolicy == {Policy({n1}, 0)}

Caller(rs, v) == [sites |-> {n1}, roles |-> rs, verified |-> v]
MCCallers == {Caller({r1}, TRUE), Caller({r1}, FALSE), Caller({}, TRUE)}

(* d1 holds c1 and c2, d2 holds c3 and c5, d3 holds c4; c5 is withdrawn.   *)
(* d1 and d2 are one family and take opposing positions.                   *)
MCDocOf    == [c \in Chunks |-> IF c \in {c1, c2} THEN d1
                                ELSE IF c = c4 THEN d3 ELSE d2]
MCWeight   == [c \in Chunks |-> IF c = c1 THEN 2 ELSE IF c = c5 THEN 0 ELSE 1]
MCPosition == [c \in Chunks |-> IF c = c1 THEN open
                                ELSE IF c = c3 THEN closed ELSE None]
MCScope    == [c \in Chunks |-> d1]
MCFamily   == [d \in Docs |-> IF d = d2 THEN d1 ELSE d]

=============================================================================
