SPECIFICATION PackSpec
CONSTANTS
    TreeClient = {c}
    Region = {"r1","r2"}
    DevSite = "r2"
    None = None
    CreateKinds = {"folder"}
    UpdateKinds = {"parameter"}
    MoveAt = {0}
    MaxId = 12
    MaxAsks = 2
    MaxSyncs = 1
    MaxEdits = 0
    Org = {1, 2}
    ParentOf <- CV_ParentOf
    MIface = {"i", "k"}
    ScopeOfIface <- CV_ScopeOfIface
    ScopeOfDevice <- CV_ScopeOfDevice
    PlatformOf <- CV_PlatformOf
    Var = {"v"}
    Plain = {"a", "b"}
    ValueStarts <- CV_Starts
    ParamBodies <- CV_Params
    VarBodies <- CV_Vars
    MinParam = 3
    MaxParam = 5
    MaxValueCalls = 2
    MaxValueEvents = 3
    Rank <- CB_Rank
    CatBodies <- CB_Bodies
    CatStarts <- CB_Starts
    Others <- CB_Others
    MaxScope = 12
    MaxType = 2
    MaxCatCalls = 2
    Caller = {c1}
    Dev = {1,2}
    Ifc = {1}
    Wants <- RZ_Wants
    Cleanups <- RZ_Cleanups
    MaxTree = 1
    MaxReqs = 3
    MaxErrs = 1
    MaxNb = 20
    Client = {a,b,c}
    Asks <- SR_Asks
    Category = {"p", "q"}
    FirstRows = {1}
    MaxNum = 3
    Nothing = Nothing
    OnDevice <- OP_OnDevice
    RoleOf <- OP_RoleOf
    KindCF <- OP_KindCF
    OptService = {"s1", "s2"}
    OptStarts <- OP_Starts
    PortSaves <- OP_PortSaves
    XcBodies <- OP_Xcs
    CableBodies <- OP_Cables
    Attaches <- OP_Attaches
    KindMaps <- OP_KindMaps
    Inventories <- OP_Inv
    MaxOptCalls = 3
    Width = 3
    PageBits = 1
    Named = {"n"}
    Extra = {"red", "blue"}
    MaxPid = 16
    PlanStarts <- AP_PlanStarts
    MaxPlanCalls = 1
    MClient = {"c1", "c2"}
    Window = {"w1"}
    MCustomer = {"k1", "k2"}
    MContact = {"p1", "p2"}
    MService = {"s1", "s2"}
    CustomerOf <- MT_CustomerOf
    KindOfService <- MT_Category
    MResource = {"r1"}
    MaintStarts <- MT_Starts
    MaxMaintCalls = 3
    MaxMailFaults = 1
INVARIANTS
    ConfigurationKept
    
    
    MaintenanceTold

    
    
CHECK_DEADLOCK FALSE
