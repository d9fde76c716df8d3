--------------------------- MODULE MCSearchIndex ---------------------------
(* Instances of SearchIndex for TLC.                                       *)
EXTENDS SearchIndex

CONSTANTS s1, c1, c2, c3, pump, valve, w1, w2

(* Every chunk but c2, which has no tokens, speaks of the pump.            *)
MCTermsOf == [c \in Chunks |-> IF c = c2 THEN {}
                               ELSE IF c = c3 THEN {pump, valve} ELSE {pump}]
MCLength  == [c \in Chunks |-> Cardinality(MCTermsOf[c])]
MCSeed    == <<s1>>

(* One upload of two chunks, one of a single chunk.                        *)
MCUpload  == [w \in Writers |-> IF w = w1 THEN <<c2, c1>> ELSE <<c3>>]

=============================================================================
