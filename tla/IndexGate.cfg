SPECIFICATION Spec
CONSTANTS
    server = server
    cli = cli
    cli2 = cli2
    s1 = s1
    s2 = s2
    s3 = s3
    NFile = 2
    Absent = absent
    Proc <- ServerAndCli
    Builder <- OneCli
    Server <- OneServer
    Stamp <- ThreeStamps
    MaxLine = 1
    MaxEdit = 0
    MaxFault = 1
SYMMETRY Symmetry
INVARIANTS
    TypeOK
    GateIsOfThisCall
    CacheIsSound
