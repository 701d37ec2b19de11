--------------------------- MODULE MCEvidenceGate ---------------------------
(* Small instance of EvidenceGate: two events over two files, one of them  *)
(* with two sources, and one locator whose hash was never registered.      *)
EXTENDS EvidenceGate

CONSTANTS e1, e2, p1, p2, a, b, z

Loc(event, path, sha, first, last) ==
    [event |-> event, path |-> path, sha |-> sha, first |-> first, last |-> last]
Locators == {Loc(e1, p1, a, 1, 2), Loc(e1, p2, b, 1, 1), Loc(e1, p2, b, 1, 2),
             Loc(e2, p1, a, 1, 2), Loc(e2, p2, z, 1, 1)}
References ==
    {Loc(e1, p1, a, 1, 2), Loc(e2, p1, a, 1, 2), Loc(e1, p2, b, 1, 1),
     Loc(e1, p2, b, 1, None), Loc(e2, p2, z, 1, 1), Loc(e1, p1, a, 1, 1),
     Loc(None, p1, None, 1, None)}
CiteLists ==
    {<<>>, <<Loc(e1, p1, a, 1, 2)>>,
     <<Loc(e1, p1, a, 1, 2), Loc(e2, p1, a, 1, 2)>>,
     <<Loc(e2, p1, a, 1, 2), Loc(e1, p2, b, 1, 1)>>,
     <<Loc(e1, p1, a, 1, 1), Loc(e2, p1, a, 1, 2)>>,
     <<Loc(e2, p2, z, 1, 1)>>,
     <<Loc(e1, p2, b, 1, None)>>}
Later == {Loc(e2, p1, a, 1, 2)}
Registry == (p1 :> a) @@ (p2 :> b)
Length == (a :> 2) @@ (b :> 2) @@ (z :> 1)
Claims == {[type |-> "causal", materiality |-> "auto"],
           [type |-> "factual", materiality |-> "material"],
           [type |-> "factual", materiality |-> "auto"]}
=============================================================================
