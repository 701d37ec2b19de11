SPECIFICATION Spec
CONSTANTS
    strictPlan = strictPlan  openPlan = openPlan  hiddenPlan = hiddenPlan
    r1 = r1  e1 = e1  e2 = e2
    Plan = {strictPlan, openPlan, hiddenPlan}
    Spec0 <- Specifications
    RunId = {r1}
    Path = {1, 2}
    MaxContent = 2
    Foreign = {2}
    Patched = {1}
    Proc = {e1, e2}
    Answers <- FactualAnswers
    Receipts <- ReceiptFiles
    None = None
    Expiring = {r1}
    SealedLate = {}
    Scribbled = {1, 2}
    MaxEdit = 1
    MaxScribble = 1
    MaxFault = 1
SYMMETRY Symmetry
CHECK_DEADLOCK FALSE
INVARIANTS
    ImportIsAsConfirmed
