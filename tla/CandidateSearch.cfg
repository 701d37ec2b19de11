SPECIFICATION Spec
CONSTANTS
    e1 = e1  e2 = e2  p1 = p1  good = good  bad = bad
    b1 = b1  b2 = b2  server = server  m1 = m1  m2 = m2
    Builder = {b1, b2}
    Reader = {server}
    Server = server
    Backend <- Backends
    Ledger <- Ledgers
    Chunks <- Pieces
    Main <- OwnRow
    Date <- Dates
    File <- Files
    Content = {good, bad}
    Query <- Queries
    Mix <- Mixes
    MaxBusy = 2
    None = None
CHECK_DEADLOCK FALSE
INVARIANTS
    TypeOK
    TextIsRegistered
    SteadySearch
