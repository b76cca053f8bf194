SPECIFICATION UserSpec
CONSTANTS
  MaxSetups = 2
  RawNew = {{"tcp", "udp"}, {"tcp"}}
  RingSize = 2
  MaxRequests = 3
  MaxAps = 3
  Types = {"WIFI_MODE_SET", "STATIC_IP_CONF_SET", "DHCPC_STATE_SET", "STATION_CONF_SET", "SLEEP_MODE_SET", "SCAN_REQUEST", "SOFTAP_CONF_SET", "SOFTAP_NET_CONF_SET", "LOG_LEVEL_SET", "IP_CONF_REQUEST", "MACADDR_REQUEST", "RSSI_REQUEST", "CONN_STATUS_REQUEST", "ECHO_REQUEST", "SET_BAUD", "FORWARD_IP_BROADCASTS", "SET_FORWARDING_MODE", "PRINT_STATS"}
CHECK_DEADLOCK FALSE
INVARIANTS PbufOwnedOnce DetachedWhenHooked InjectedReachesAir RoutingSound 
