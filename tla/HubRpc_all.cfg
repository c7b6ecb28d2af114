SPECIFICATION RpcFairSpec
CONSTANTS
  Req = {r1, r2}
  Session = {s1, s2}
  NoRpc = NoRpc
  MaxInFlight = 1
  MaxRpcFaults = 1
INVARIANTS
    RpcSafe
PROPERTIES
    CallsReturn
CHECK_DEADLOCK FALSE
