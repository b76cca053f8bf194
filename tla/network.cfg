SPECIFICATION Spec
CHECK_DEADLOCK FALSE
CONSTANTS
 Slots = {1, 2}
 ARP_MAXAGE = 3
 ARP_MAXPENDING = 2
 Netifs = {1, 2}
 Pcbs = {101, 102}
 Raws = {201, 202}
 PortRange = {6, 7, 8}
 Frames <- MCFrames
 Hosts = {13, 14, 33}
 Ports = {5}
 Addrs = {0, 11}
 MaxCalls <- MCMaxCalls
 TcpPcbs = {1, 2, 3}
 Prios = {1, 2}
 MEMP_NUM_TCP_PCB = 2
 LocalIps = {1, 2}
 RangeStart = 1
 RangeEnd = 5
 TcpTicks = 1
 TcpCalls = 6
INVARIANTS ArpSound PcbsSound
PROPERTY QueueDrains
