SPECIFICATION Spec
CONSTANTS
    j1 = j1  j2 = j2  j3 = j3  a = a  b = b  h = h
    n1 = n1   c1 = c1  c2 = c2
    Job = {j1, j2}
    Target = {a, b, h}
    Housekeeping = h
    Plan <- PlanPair
    Node = {n1}
    Serves <- ServesOne
    Conn = {c1, c2}
    NodeOf <- Relink
    HK = HK
    None = None
    Keep = 1
    Edits = FALSE
    MaxFaults = 0
    MaxDrops = 1
    MaxLost = 1
    MaxRestarts = 0
INVARIANTS
    JobsSafe
CHECK_DEADLOCK FALSE
