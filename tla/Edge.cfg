SPECIFICATION PackSpec
CONSTANTS
    Dev = {d1}
    FullMin = 2
    FullPercent = 20
    NobodySyncs = NobodySyncs
    MaxChanges = 2
    MaxNbSyncs = 1
    MaxNbFaults = 1
    Plain = plain
    Tls = tls
    Addr = {1, 2, 3}
    Off = Off
    MaxEdits = 3
    MaxBindFails = 1
    MaxFetchFails = 1
    MaxSaveFails = 1
    MaxCrashes = 1
    MaxEvents = 5
    Batch = 2
    HubBatch = 2
    MaxSpool = 3
    MaxLogFaults = 2
    Req = {a, b}
    KeyOf <- SharedKey
    NoAnswer = NoAnswer
    Slots = 2
    Copies = 2
    MaxExpired = 1
    Inputs <- MCInputs
    EnabledSets <- MCEnabledSets
INVARIANTS
    NbSafe
    ListenSafe
    LogSafe
    LoginSafe
    
PROPERTIES
    EdgeFollows
CHECK_DEADLOCK FALSE
