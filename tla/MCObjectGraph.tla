--------------------------- MODULE MCObjectGraph ---------------------------
(* An instance of ObjectGraph for TLC: a commit p over the chunk x, and a  *)
(* commit q over p and the chunk y.                                        *)
EXTENDS ObjectGraph

CONSTANTS p, q, x, y

MCObjects == {p, q, x, y}
MCDeps    == (p :> <<x>>) @@ (q :> <<p, y>>) @@ (x :> <<>>) @@ (y :> <<>>)
MCPayload == {x, y}
MCRoots   == {p, q}
MCSources == {MCObjects, MCObjects \ {y}}
=============================================================================
