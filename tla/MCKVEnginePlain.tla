--------------------------- MODULE MCKVEnginePlain ---------------------------
(* The clients of this instance are those of whom the theorems on saving    *)
(* and restoring speak.                                                     *)
EXTENDS MCKVEngine

\* What loading can make a key of, and what a cut at another colon would.
OneWordKeys == {<<p>> : p \in Piece} \cup {<<a, b>>, <<b, b>>}
PlainChain == [k \in OneWordKeys |-> 0]

ASSUME PlainAssumption == ClientsPlain

=============================================================================
