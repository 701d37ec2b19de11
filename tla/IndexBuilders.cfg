SPECIFICATION FairSpec
CONSTANTS
    server = server
    cli = cli
    cli2 = cli2
    s1 = s1
    s2 = s2
    s3 = s3
    NFile = 2
    Absent = absent
    Proc <- TwoClis
    Builder <- TwoClis
    Server = {}
    Stamp <- OneStamp
    MaxLine = 1
    MaxEdit = 1
    MaxFault = 1
INVARIANTS
    IndexIsImage
PROPERTIES
    GoodIndexIsKept
    EventuallyCurrent
