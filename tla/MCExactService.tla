--------------------------- MODULE MCExactService ---------------------------
(* Instances of ExactService for TLC: see the ExactService_*.cfg files.    *)
EXTENDS ExactService

\* No, one, two or four matches, of equal and of different sizes.
MCSizes == {[n \in 0 .. 0 |-> 2], [n \in 0 .. 1 |-> 2 + n],
            [n \in 0 .. 2 |-> 1 + 2 * n], [n \in 0 .. 4 |-> 1 + n]}

MCReasons == {"READ_FAILED", "ENTRY_LIMIT", "BYTE_LIMIT", "POLICY_CHANGED"}
MCThrown == {"CANCELLED", "DEADLINE", "WORKER_EXIT", "OUT_OF_SCOPE", "OTHER"}
=============================================================================
