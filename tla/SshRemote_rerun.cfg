SPECIFICATION RemoteSpec
CONSTANTS
  Request = {"a","b"}
  MaxOutages = 1
  MaxSlow = 1
INVARIANT NeverRunTwice
CHECK_DEADLOCK FALSE
