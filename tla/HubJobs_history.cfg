SPECIFICATION Spec
CONSTANTS
    j1 = j1  j2 = j2  j3 = j3  a = a  b = b  h = h
    n1 = n1   c1 = c1  c2 = c2
    Job = {j1, j2, j3}
    Target = {a, b, h}
    Housekeeping = h
    Plan <- PlanTrim
    Node = {n1}
    Serves <- ServesOne
    Conn = {c1}
    NodeOf <- OneLink
    HK = HK
    None = None
    Keep = 1
    Edits = FALSE
    MaxFaults = 1
    MaxDrops = 0
    MaxLost = 0
    MaxRestarts = 1
PROPERTIES
    ImplementsLifecycle
CHECK_DEADLOCK FALSE
