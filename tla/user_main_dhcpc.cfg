SPECIFICATION UserSpec
CONSTANTS
  MaxSetups = 0
  RawNew = {{"tcp", "udp"}}
  RingSize = 3
  MaxRequests = 2
  MaxAps = 3
  Types = {"DHCPC_STATE_SET"}
INVARIANT DhcpcStatusTruthful
CHECK_DEADLOCK FALSE
