SPECIFICATION PackSpec
CONSTANTS
    Sched = {1, 2}
    Cron = {"often", "once"}
    Activations <- MCActivations
    Target = {t1, t2}
    None = None
    MaxTime = 2
    MaxEdits = 2
    MaxCrashes = 1
    MaxFails = 1
    MaxLate = 1
    Node = {n1}
    Config = {c1, c2}
    Off = Off
    NoConn = NoConn
    MinBackoff = 2
    MaxBackoff = 3
    MaxConnEdits = 2
    MaxConnFaults = 1
INVARIANTS
    SchedulerSafe
    ConnSafe
PROPERTIES
    OneRunPerActivation
    ControlServes
CHECK_DEADLOCK FALSE
