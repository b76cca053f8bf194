SPECIFICATION ConfigSpec
CHECK_DEADLOCK FALSE
CONSTANTS
 Lease = 2
 SelectTries = 1
 CheckTries = 1
 RebindTries = 1
 RebootTries = 2
 Clients = {a, b}
 StartIp = 2
 EndIp = 4
 DHCPS_LEASE_TIMER = 2
 MaxTicks = 2
 MaxFaults = 1
 NetCap = 4
 Stations = {1, 2}
 SeedOf <- SameSeed
 RandOf <- OtherRand
 AddrMod = 4
 RANGE_START = 1
 RANGE_END = 2
 PROBE_WAIT = 2
 PROBE_MIN = 1
 PROBE_MAX = 3
 PROBE_NUM = 2
 ANNOUNCE_NUM = 2
 ANNOUNCE_INTERVAL = 2
 ANNOUNCE_WAIT = 2
 MAX_CONFLICTS = 1
 RATE_LIMIT_INTERVAL = 3
 DEFEND_INTERVAL = 3
 TriedMod = 4
 MaxLost = 2
 AutoCalls = 3
INVARIANTS  AddressesApart
PROPERTIES OldAddressGone 
