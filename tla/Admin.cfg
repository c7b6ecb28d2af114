SPECIFICATION PackSpec
CONSTANTS
    Member = {m1}
    Browser = {b1,b2}
    NoUser = NoUser
    MaxAttempts = 1
    MaxPw = 3
    MaxTokens = 2
    MaxIds = 2
    MaxCalls = 4
    OuId = {1,2}
    OuName = {x,y}
    RoleId = {1,2,3}
    CName = {a,b,c,d}
    DirStarts <- DY_Starts
    MaxDirEdits = 1
    Uid = {"a","b"}
    Cn = {"x"}
    GName = {"g","h","p","q"}
    ByUid = {"p","q"}
    Keep = Keep
    EditStarts <- LE_Starts
    MaxEditCalls = 1
    MaxEditFaults = 1
    FDev = {"x","y"}
    Ip = {"i1","i2","i3"}
    NoIp = NoIp
    NmsStarts <- LN_Starts
    Days = 1
    MaxNms = 3
    MaxDay = 1
    MaxNmsRuns = 2
    MaxNmsEdits = 2
    MaxNmsFaults = 1
    PinDev = {1,2}
    Coord = {"c1","c2"}
    CellOf <- LP_Cells
    Named = {"town","farm"}
    NoPlace = NoPlace
    PinStarts <- LP_Starts
    MaxPinRuns = 2
    MaxPinEdits = 1
    Pairs = 4
    SepPair = 3
    LatPts <- OL_LatA
    LngPts <- OL_LngA
    Sites <- OL_SitesA
    HostName = {"h","i"}
    Literal = {"i"}
    Dest = {"m"}
    NoDest = "none"
    FacStarts <- IC_FS
    MaxIcRuns = 2
    MaxIcEdits = 2
    MaxIcFaults = 1
    PHost = {1,2}
    IfName = {1,2,3}
    Sid = {1,2}
    IfBase <- PO_Ib
    SidBase <- PO_Ib
    FoldOf <- PO_Fo
    VendorOf <- PO_V
    EAPI = FALSE
    Inventories <- PO_Inv
    AnswerNames <- PO_AN
    PWTables <- PO_PW
    Reads <- PO_RR
    PollWorkers = 1
    MaxCycles = 1
    Operator = {o1,o2}
    RowName = {"a","b"}
    ZoneName = {"c","z"}
    DefaultDomain = "c"
    DnsDevice = {"d"}
    NsHost = {"n"}
    ZonesOf <- DN_Zones
    RecordSet <- DN_Records
    Bodies <- DN_Bodies
    DnsStarts <- DN_Starts
    MaxRowId = 2
    MaxDnsEdits = 2
    MaxDnsSyncs = 2
    MaxDnsFaults = 1
    EntryNames <- CF_Names
    Credential = {"","k1","k2"}
    HandWritten <- CF_HandWritten
    HandEnv <- CF_HandEnv
    Saves <- CF_Saves
    CertStarts <- CF_Starts
    MaxCertEdits = 2
    MaxCertSyncs = 2
    MaxCertFaults = 1
    Company = {c1, c2}
    Delivery = {d1}
    Person = {p1}
    LocalCustomer = {x1}
    LocalContact = {y1}
    Text = {0, 1}
    None = None
    LimeStarts <- LM_Starts
    MaxRuns = 2
    MaxEvents = 2
INVARIANTS
    
    
    PublishedWhole

    
    
CHECK_DEADLOCK FALSE
