------------------------- MODULE MCCandidateSearch --------------------------
(* Small instance of CandidateSearch: a record whose source is registered  *)
(* with the second ledger, which also brings a record of an unregistered   *)
(* revision.                                                               *)
EXTENDS CandidateSearch

CONSTANTS e1, e2, p1, good, bad, b1, b2, server, m1, m2

Loc(event, path, sha, first, last) ==
    [event |-> event, path |-> path, sha |-> sha, first |-> first, last |-> last]
One == Loc(e1, p1, good, 1, 2)
Two == Loc(e2, p1, bad, 1, 1)
Ledgers == <<[rows |-> {One}, sources |-> {}],
             [rows |-> {One, Two}, sources |-> {<<p1, good>>}]>>
Pieces == [l \in {One, Two} |-> IF l = One THEN {<<1, 1>>} ELSE {<<1, 1>>}]
OwnRow == [e \in {e1, e2} |-> IF e = e1 THEN One ELSE Two]
Dates == [e \in {e1, e2} |-> IF e = e1 THEN 1 ELSE 2]
Files == [p \in {p1} |-> good]
Backends == [p \in {b1, b2, server} |-> IF p = b2 THEN m2 ELSE m1]
Mixes == {<<2, 1, 0>>, <<1, 3, 0>>, <<1, 1, 1>>, <<2, 0, 1>>}
Queries == {{}, {One, Two}}
=============================================================================
