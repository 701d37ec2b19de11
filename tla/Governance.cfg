SPECIFICATION Spec
CONSTANTS
    g = g  w = w  c1 = c1  c2 = c2  b1 = b1  b2 = b2  e1 = e1  e2 = e2
    Governor = "scope_and_cost_governor"
    Critical <- Reviewers
    Corrector = "correction_executor"
    Roster <- RoleNames
    Manifest <- Manifests
    Slot = {g, w, c1, c2}
    Packet0 <- Packets
    Widened <- WiderPaths
    Later = "later snapshot"
    DecisionOf <- Decisions
    Operation <- Operations
    Binding = {b1, b2}
    RefOf <- Refs
    Runner = {e1, e2}
    Review <- Reviews
    Failure <- Failures
    Level <- Levels
    MaxEdit = 1
    MaxReview = 3
    MaxException = 2
    Ceiling = {2, 3}
    None = None
CHECK_DEADLOCK FALSE
INVARIANTS
    TypeOK
    IssuedReceiptGoverns
    ReviewersAreIsolated
    PreflightStaysInside
    OneAgentRunPerApproval
    SeriousFailureStops
PROPERTIES
    GateReopensOnlyByRevision
