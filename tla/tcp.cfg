\* A client that writes three bytes in two or three calls, over segments
\* of at most two, to a server with a window of two.  Sequence numbers
\* wrap during the handshake.  One fault: a loss, a duplicate, a refused
\* buffer, an application that does what applications rarely do, or a
\* timer that expires early; timers that repair it are free.
SPECIFICATION Spec
CHECK_DEADLOCK FALSE
CONSTANTS
 TCP_MSS = 2
 TCP_WND = 2
 TCP_SND_BUF = 2
 TCP_SND_QUEUELEN = 4
 SeqSpace = 64
 U16Mod = 16
 InitialMss = 1
 MtuMss = 2
 TCP_MAXRTX = 1
 TCP_SYNMAXRTX = 1
 KeepCnt = 1
 KeepAlive = TRUE
 MaxWrite = 2
 FirstIss = 60
 IssStep = 3
 NetCap = 2
 Rare = {"refuse", "abort", "shutdown", "none", "keep"}
 MaxFaults = 1
 ClientBytes = 3
 ServerBytes = 0
INVARIANTS StreamIntact AckedIsHeld SendQueueSound
PROPERTY WindowKept
