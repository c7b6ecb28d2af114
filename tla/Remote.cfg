SPECIFICATION PackSpec
CONSTANTS
    Run = {r1}
    Call = {k1}
    RunNode = {n1, n2}
    NoRun = NoRun
    Lines = 1
    Cap = 3
    MaxRunFaults = 1
    Capture = {"a","b","c"}
    PwFor <- SX_Pws
    Nobody = Nobody
    MaxLost = 2
    SshCaller = {"a", "b"}
    KeyOf <- SP_TwoKeys
    PwOf <- SP_TwoPws
    None = None
    Cmds = 1
    MaxSessions = 1
    QueueDepth = 1
    MaxPoolFaults = 1
    MaxEvicts = 1
    Request = {"a","b"}
    MaxOutages = 1
    MaxSlow = 1
    Device = {"a","b","c","d"}
    Attrs <- DR_Attrs
    Only = NoDevice
    Service <- DR_Service
    Workers = 2
    NoDevice = NoDevice
    MaxAnswersLost = 1
INVARIANTS
    ExecSafe
PROPERTIES
    RunFaithful
    NeverClosedInUse
    SshServes
    DeviceRunEnds
CHECK_DEADLOCK FALSE
