--------------------------- MODULE MCIngestCommit ---------------------------
(* Small instances of IngestCommit.                                        *)
EXTENDS IngestCommit

CONSTANTS p1, p2, d1, d2, r1, r2, day1, day2, src1, approval, lineA, lineB,
          idApproval, idA, idB

OneDay == (approval :> day1) @@ (lineA :> day1) @@ (lineB :> day1)
TwoDays == (approval :> day1) @@ (lineA :> day1) @@ (lineB :> day2)
OwnIds == (approval :> idApproval) @@ (lineA :> idA) @@ (lineB :> idB)
SharedId == (approval :> idApproval) @@ (lineA :> idA) @@ (lineB :> idA)
Cites == (approval :> {}) @@ (lineA :> {src1}) @@ (lineB :> {})
NeedApproval == (approval :> {}) @@ (lineA :> {approval}) @@ (lineB :> {approval})

OneDraft == d1 :> lineA
TwoDrafts == (d1 :> lineA) @@ (d2 :> lineB)
OneRegisters == d1 :> <<src1>>
FirstRegisters == (d1 :> <<src1>>) @@ (d2 :> <<>>)
BothRegister == (d1 :> <<src1>>) @@ (d2 :> <<src1>>)

Symmetry == Permutations({p1, p2})
=============================================================================
