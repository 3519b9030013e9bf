------------------------------ MODULE MCKVHash ------------------------------
(* Four keys on two slots: k1, k2 and k3 share a chain, long enough to have *)
(* a head, a middle and an end to unlink; k4 is alone in its own.           *)
EXTENDS KVHash

CONSTANTS k1, k2, k3, k4, s1, s2, v1, v2, long

MCKey == {k1, k2, k3, k4}
MCSlot == {s1, s2}
MCHash == [k \in MCKey |-> IF k = k4 THEN s2 ELSE s1]

\* A reply holds of the long value what v1 is.
MCValue == {v1, v2, long}
MCFit == [v \in MCValue |-> IF v = long THEN v1 ELSE v]

=============================================================================
