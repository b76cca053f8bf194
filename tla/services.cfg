SPECIFICATION Spec
CHECK_DEADLOCK FALSE
CONSTANTS
 IgmpNetifs = {1, 2}
 Groups = {"g"}
 JoinTimer = 3
 MaxResps = {2, 4}
 IgmpCalls = 4
 Names <- MCNames
 DNS_TABLE_SIZE = 2
 DNS_MAX_SERVERS = 2
 DNS_MAX_RETRIES = 2
 DNS_MAX_TTL = 1
 TtlMod = 3
 Ttls = {0, 2}
 SeqnoMod = 2
 AskAgainOn = {"answer", "timeout"}
 DnsCalls = 3
 Cyclic = {"arp", "tcp"}
 Interval <- MCInterval
 TCP_TMR_INTERVAL = 2
 TicksPerMs = 2
 PING_TIMEOUT_MS = 3
 PingEvery = 3
 PingCount = 2
 Pings = {1, 2}
 MaxNow = 12
 Links = {1, 2}
 PcbIds = {1, 2}
 SNDBUF = 3
 MSS = 1
 SendLengths = {3}
 MaxCon = 1
 LinkTimer = 2
 DisconnectWhileClosing = FALSE
 Pbufs = {1, 2, 3}
 Offsets = {2}
 Lengths = {1, 4}
 PbufTypes = {"POOL", "RAM", "REF"}
 PBUF_POOL_BUFSIZE = 3
 Incs = {1}
 Texts <- MCTexts
 PbufCalls = 5
 Bits = 4
 ByteValues = {0, 1, 8, 10, 12, 15}
 EspCalls = 3
 MEM_SIZE = 24
 SIZEOF_STRUCT_MEM = 2
 MIN_SIZE = 2
 MEM_ALIGNMENT = 2
 SizeMod = 64
 HeapSizes = {0, 1, 3, 8}
 HeapCalls = 5
 Datagrams <- MCDatagrams
 Mtu = 1
 Detours <- MCDetours
 PbufsOf <- MCPbufsOf
 IP_REASS_MAX_PBUFS = 4
 IP_REASS_MAXAGE = 1
 FragCalls = 5
INVARIANTS IgmpSound    PacketsSound  HeapSound ReassSound
PROPERTIES LimitKept NothingWaits
