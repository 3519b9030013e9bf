---------------------------- MODULE MCKVEngine ----------------------------
EXTENDS KVEngine

CONSTANTS a, b, w

MCWord == {a, b, w}
PlainKeys == {<<a>>, <<b>>}
ColonKeys == {<<a>>, <<a, b>>}
ClientValues == {<<b, a>>, <<w>>}

\* w is a, a newline and b, of which a reply has no room for the end.
BrokenWords == {w}
MCUpper == [u \in {w} |-> a]
MCLower == [u \in {w} |-> b]

\* All that loading a cut or a badly split line can put in the table.
MCStrings == UNION {[1 .. n -> Piece] : n \in 1 .. 3}
MCKey == UNION {[1 .. n -> Piece] : n \in 1 .. 2}
MCHash == [k \in MCKey |-> IF b \in {k[i] : i \in DOMAIN k} THEN 1 ELSE 0]
MCFit == [v \in MCStrings |-> IF v = <<w>> THEN <<Torn>> ELSE v]

=============================================================================
