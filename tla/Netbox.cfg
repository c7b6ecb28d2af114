SPECIFICATION PackSpec
CONSTANTS
    Dev = {d1, d2}
    FullMin = 2
    FullPercent = 20
    NobodySyncs = NobodySyncs
    MaxChanges = 2
    MaxNbSyncs = 0
    MaxNbFaults = 1
    Proc = {"p", "q", "r"}
    Device = {"d","e"}
    Rack = {1,2}
    Edits <- PL_Edits
    Unplaced = Unplaced
    TicksPerU = 2
    RackTicks = 4
    DevTicks = 2
    Start <- PL_Start
    ImportAt <- PL_At
    MaxImports = 1
    Client = {c1, c2}
    Port = {p, q, r}
    NbPort = {p, q, x}
    MaxCables = 2
    MaxCableRows = 3
    MaxEdits = 1
    MaxSyncs = 1
    Names = {"x","y"}
    NbIds = {1,2}
    Addrs = {7}
    MaxRows = 2
    NoRow = NoRow
    L2Id = {1, 2}
    NbIface <- LV_Iface
    TypeOf <- LV_Types
    L2Service = {"S", "T"}
    L2Starts <- LV_Starts
    L2Bodies <- LV_Bodies
    NameRank <- LV_Rank
    L2Puts <- LV_Puts
    NoService = "none"
    MaxL2Imports = 2
    MaxL2Edits = 2
    MaxL2Faults = 1
    Cidr = {"a", "b"}
    VName = {"x", "y"}
    VrfId = {1, 2}
    PfxId = {1, 2}
    SyncStarts <- PS_SyncStarts
    MaxFid = 3
    MaxNbEdits = 2
    MaxPfxSyncs = 2
    MaxPfxFaults = 1
    Name <- TS_Name
    Email = {"", "e"}
    TenantStarts <- TS_Starts
    MaxCustomer = 4
    MaxContact = 3
    MaxTenant = 4
    MaxPerson = 3
    MaxTenantRuns = 2
    MaxTenantEvents = 1
    IfNames <- DI_Names
    Vrfs = {"", "v", "g"}
    vrfInGlobal = {"g"}
    Prefixes = {1, 2}
    Descs = {"plain","anycast"}
    NoName = NoName
    Starts <- DI_Starts
    Configs <- DI_Configs
    Templates = {{}, {1}}
    MaxId = 30
    MaxRuns = 3
    MaxFails = 1
    LldpPort <- DC_Ports
    DeviceOf <- DC_Devs
    Peer <- DC_Peers
    Selected = {"D","Q","X"}
    Optical = {"O"}
    Plants <- DC_Plants
    Lags = {"p","x"}
    MaxCableId = 4
    MaxLldpFails = 1
    DevName = {"x","y","z"}
    Oid = {1,2}
    BecsStarts <- BS_Apart
    NoModel = {}
    Only = Everything
    Everything = Everything
    MaxDevId = 4
    MaxBecsRuns = 2
    MaxFaults = 1
    IfName = {"lo","e1","e2"}
    IfOid = {1,2,3}
    Loopback = "lo"
    IfStarts <- BI_IfApart
    MaxRow = 4
    MaxIfFaults = 1
INVARIANTS
    NbSafe
    
    OnlyLateRowDeadlocks
PROPERTIES
    CablesSettle
    
    TenantsPlaced
    DeviceMirrored
    
CHECK_DEADLOCK FALSE
