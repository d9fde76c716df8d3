---------------------------- MODULE MCIngestion ----------------------------
(* Instances of Ingestion for TLC.                                         *)
EXTENDS Ingestion

CONSTANTS pump, old, bad, junk, P, S

Plain(n)      == [number |-> n, controlled |-> FALSE]
Controlled(n) == [number |-> n, controlled |-> TRUE]

(* pump is a STEP assembly of P and S, S marked as export controlled; old  *)
(* is a proprietary assembly of S and a part without a number that FreeCAD *)
(* can open (what it writes may be broken); bad is a compound file that    *)
(* fails to parse, junk nobody recognises.                                 *)
MCRecognised == [d \in Docs |-> IF d = junk THEN {}
                                ELSE IF d = old THEN {"BLOCKED"}
                                ELSE IF d = bad THEN {"OLE"} ELSE {"STEP"}]
MCParts == [d \in Docs |-> IF d = pump THEN <<Plain(P), Controlled(S)>>
                           ELSE <<Plain(S), Plain(None)>>]

=============================================================================
