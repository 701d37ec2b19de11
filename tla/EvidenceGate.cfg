SPECIFICATION Spec
CONSTANTS
    e1 = e1  e2 = e2  p1 = p1  p2 = p2  a = a  b = b  z = z
    Path = {p1, p2}
    Content = {a, b, z}
    Lines <- Length
    Registered <- Registry
    Locator <- Locators
    Reference <- References
    Claim <- Claims
    Context = {0, 1}
    MaxFetchLines = 2
    LogLimit = 2
    Cites <- CiteLists
    Late <- Later
    MaxCall = 2
    MaxEdit = 2
    DefaultSpan = 1
    None = None
CHECK_DEADLOCK FALSE
INVARIANTS
    TypeOK
    EligibleIsGrounded
    MismatchIsNotDropped
    CleanClaimIsEligible
