SPECIFICATION Spec
CONSTANTS
    p1 = p1  p2 = p2  d1 = d1  d2 = d2  r1 = r1  r2 = r2
    day1 = day1  day2 = day2  src1 = src1
    approval = approval  lineA = lineA  lineB = lineB
    idApproval = idApproval  idA = idA  idB = idB
    Proc = {p1, p2}
    Draft = {d1}
    Receipt = {r1, r2}
    Line = {approval, lineA, lineB}
    RecordId = {idApproval, idA, idB}
    Day = {day1, day2}
    Path = {src1}
    SourcesFile = SourcesFile
    None = None
    Stale = Stale
    IdOf <- OwnIds
    DayOf <- OneDay
    Refs <- Cites
    Approvals <- NeedApproval
    LineOf <- OneDraft
    Registers <- OneRegisters
    AdminLine = {approval, lineB}
    AdminPath = {src1}
    Expiring = {r1}
    MaxEdit = 1
    MaxFault = 2
SYMMETRY Symmetry
INVARIANTS
    TypeOK
    OneReceiptPerDraft
    ConsumedIsCanonical
    PendingIsUntouched
    JournalNeverAhead
PROPERTIES
    ImplementsGovernedLedger
