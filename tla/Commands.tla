------------------------------ MODULE Commands ------------------------------
(***************************************************************************)
(* The host's requests: packet_from_host and scan_done                     *)
(* (user_main/user_main.c) above the WiFi SDK, and the replies as they     *)
(* leave for the host.  The packet messages, and what the forwarding       *)
(* settings change, are the subject of Forwarding.                         *)
(*                                                                         *)
(* The SDK is external: every call may succeed or fail, and one that fails *)
(* changes nothing.  Replies have high priority; the transmit ring takes   *)
(* them in order as long as it has a free slot and drops them otherwise    *)
(* (that is what FrameQueue says and Comm implements).  packet_from_host   *)
(* runs in the comm task, which is also the one that empties the ring, and *)
(* scan_done in an SDK task of higher priority: the ring is not emptied    *)
(* while either of them runs, so each is one step.                         *)
(*                                                                         *)
(* Left out: the contents of the settings and replies.                     *)
(***************************************************************************)
EXTENDS Integers, Sequences

CONSTANTS
  RingSize,     \* TX_RING_BUFFER_SIZE (32)
  MaxRequests,  \* bound: requests of the host
  MaxAps,       \* bound: access points a scan finds
  Types         \* the requests this host makes

VARIABLES
  sdk,       \* the state the SDK keeps for the firmware
  loglevel,  \* comm_loglevel
  scanning,  \* a scan is under way
  ring,      \* messages in the transmit ring
  requests,  \* requests handled
  req,       \* history: the request handled last
  answer,    \* history: the messages it led to, sent or dropped
  heard      \* history: what the host still expects of the last SCAN_REPLY
             \* that was transmitted, and the entries it has got of it

commandsVars == <<sdk, loglevel, scanning, ring, requests, req, answer, heard>>

OpModes == SUBSET {"sta", "ap"}
Levels == {0, 50}    \* everything is logged; errors are suppressed

AllTypes == {"WIFI_MODE_SET", "STATIC_IP_CONF_SET", "DHCPC_STATE_SET",
             "STATION_CONF_SET", "SLEEP_MODE_SET", "SCAN_REQUEST",
             "SOFTAP_CONF_SET", "SOFTAP_NET_CONF_SET", "LOG_LEVEL_SET",
             "IP_CONF_REQUEST", "MACADDR_REQUEST", "RSSI_REQUEST",
             "CONN_STATUS_REQUEST", "ECHO_REQUEST", "SET_BAUD",
             "FORWARD_IP_BROADCASTS", "SET_FORWARDING_MODE", "PRINT_STATS"}

ASSUME CommandsAssumption ==
  /\ RingSize \in Nat \ {0} /\ MaxRequests \in Nat /\ MaxAps \in Nat
  /\ Types \subseteq AllTypes

CommandsInit ==
  /\ sdk \in [opmode : OpModes, dhcpc : BOOLEAN, dhcps : BOOLEAN,
              static_ip : {FALSE}, offer_router : {FALSE}, joined : {FALSE},
              ap_conf : {FALSE}]
  /\ loglevel = 0 /\ scanning = FALSE /\ ring = <<>> /\ requests = 0
  /\ req = [type |-> "NONE"] /\ answer = <<>>
  /\ heard = [left |-> 0, got |-> 0]

-----------------------------------------------------------------------------
Status(s) == [type |-> "STATUS", val |-> s]
Reply(type) == [type |-> type, val |-> 0]
Log(level) ==
  IF level >= loglevel THEN <<[type |-> "LOG", val |-> level]>> ELSE <<>>

FAIL_NoReturn == <<Status(255)>> \o Log(40) \o <<Status(0)>>

Ok == <<Status(0)>>
FAIL == <<Status(255)>> \o Log(40)       \* comm_send_status(255); COMM_ERR

(* comm_send_ctl for each message in turn. *)
Room == RingSize - Len(ring)
Stored_All(msgs) == msgs
Stored(msgs) == SubSeq(msgs, 1, IF Len(msgs) < Room THEN Len(msgs) ELSE Room)

(* A handler: request r was answered by msgs and left the SDK in s. *)
Answer(r, msgs, s) ==
  /\ r.type \in Types /\ requests < MaxRequests /\ requests' = requests + 1
  /\ req' = r /\ answer' = msgs /\ sdk' = s
  /\ ring' = ring \o Stored(msgs)
  /\ UNCHANGED heard

Quiet == UNCHANGED <<loglevel, scanning>>

(* A request whose payload has the wrong size, or a value that is not one  *)
(* of those the handler knows.                                             *)
BadRequest(type) ==
  /\ type \in {"WIFI_MODE_SET", "DHCPC_STATE_SET", "STATION_CONF_SET",
               "SLEEP_MODE_SET", "SCAN_REQUEST", "SOFTAP_CONF_SET",
               "SOFTAP_NET_CONF_SET", "LOG_LEVEL_SET",
               "FORWARD_IP_BROADCASTS", "SET_FORWARDING_MODE"}
  /\ Answer([type |-> type, good |-> FALSE], FAIL, sdk) /\ Quiet

WifiModeSet(m, ok) ==
  /\ IF ok THEN Answer([type |-> "WIFI_MODE_SET", good |-> TRUE, mode |-> m],
                       Ok, [sdk EXCEPT !.opmode = m])
           ELSE Answer([type |-> "WIFI_MODE_SET", good |-> TRUE, mode |-> m],
                       FAIL, sdk)
  /\ Quiet

(* The size is checked after the mode; the DHCP client is stopped before   *)
(* the address is set.                                                     *)
StaticIpConfSet(good, stop, set) ==
  LET r == [type |-> "STATIC_IP_CONF_SET", good |-> good]
      stopped == [sdk EXCEPT !.dhcpc = FALSE]
  IN /\ \/ /\ "sta" \notin sdk.opmode \/ ~good \/ (sdk.dhcpc /\ ~stop)
           /\ Answer(r, FAIL, sdk)
        \/ /\ "sta" \in sdk.opmode /\ good /\ (sdk.dhcpc => stop)
           /\ IF set THEN Answer(r, Ok, [stopped EXCEPT !.static_ip = TRUE])
                     ELSE Answer(r, FAIL, stopped)
     /\ Quiet

(* TRY fails when its expression is true, and wifi_station_dhcpc_start and *)
(* _stop return true on success.                                           *)
DhcpcStateSet(on, ok) ==
  LET r == [type |-> "DHCPC_STATE_SET", good |-> TRUE, on |-> on]
      acts == sdk.dhcpc # on
  IN /\ Answer(r, IF acts /\ ok THEN FAIL ELSE Ok,
               [sdk EXCEPT !.dhcpc = IF ok THEN on ELSE @])
     /\ Quiet

(* A call that fails is reported; the disconnect and connect that follow   *)
(* a successful one are not checked.                                       *)
StationConfSet(set, connect) ==
  LET r == [type |-> "STATION_CONF_SET", good |-> TRUE]
  IN /\ IF "sta" \in sdk.opmode /\ set
        THEN Answer(r, Ok, [sdk EXCEPT !.joined = connect])
        ELSE Answer(r, FAIL, sdk)
     /\ Quiet

SleepModeSet(ok) ==
  /\ Answer([type |-> "SLEEP_MODE_SET", good |-> TRUE],
            IF ok THEN Ok ELSE FAIL, sdk)
  /\ Quiet

SoftApConfSet(ok) ==
  LET r == [type |-> "SOFTAP_CONF_SET", good |-> TRUE]
  IN /\ IF "ap" \in sdk.opmode /\ ok
        THEN Answer(r, Ok, [sdk EXCEPT !.ap_conf = TRUE])
        ELSE Answer(r, FAIL, sdk)
     /\ Quiet

(* The DHCP server is stopped if it runs, the address set and, if asked    *)
(* for, the lease range and the router option set and the server started.  *)
(* n is the number of these calls that succeed before one fails.           *)
NetConfCalls_NoStop(dhcpd, router) ==
  <<"set_ip">> \o (IF dhcpd THEN <<"lease", "start">> ELSE <<>>)

NetConfCalls(dhcpd, router) ==
  (IF sdk.dhcps THEN <<"stop">> ELSE <<>>) \o <<"set_ip">>
    \o (IF ~dhcpd THEN <<>>
        ELSE <<"lease">> \o (IF router THEN <<"router">> ELSE <<>>)
               \o <<"start">>)

(* What the calls in done, the first of the list, leave behind. *)
NetConfEffect(done) ==
  [sdk EXCEPT !.dhcps = "start" \in done \/ (@ /\ "stop" \notin done),
              !.offer_router = @ \/ "router" \in done]

SoftApNetConfSet(dhcpd, router, n) ==
  LET calls == NetConfCalls(dhcpd, router)
      r == [type |-> "SOFTAP_NET_CONF_SET", good |-> TRUE,
            dhcpd |-> dhcpd, router |-> router]
  IN /\ n <= Len(calls)
     /\ Answer(r, IF n = Len(calls) THEN Ok ELSE FAIL,
               NetConfEffect({calls[k] : k \in 1..n}))
     /\ Quiet

LogLevelSet(level) ==
  /\ Answer([type |-> "LOG_LEVEL_SET", good |-> TRUE], Ok, sdk)
  /\ loglevel' = level /\ UNCHANGED scanning

(* The forwarding settings: what they change is the subject of Forwarding. *)
ForwardingSet(type) ==
  /\ type \in {"FORWARD_IP_BROADCASTS", "SET_FORWARDING_MODE"}
  /\ Answer([type |-> type, good |-> TRUE], Ok, sdk) /\ Quiet

(* Requests that are answered by what the SDK says, or by an error. *)
Query(type, reply, ok) ==
  /\ Answer([type |-> type, good |-> TRUE],
            IF ok THEN <<Reply(reply)>> ELSE FAIL, sdk)
  /\ Quiet

QueryAny(ok) ==
  \/ Query("IP_CONF_REQUEST", "IP_CONF_REPLY", ok)
  \/ Query("MACADDR_REQUEST", "MACADDR_REPLY", ok)
  \/ Query("RSSI_REQUEST", "RSSI_REPLY", ok)

(* Requests that cannot fail; SET_BAUD has no reply, and PRINT_STATS has   *)
(* a log line, which the log level may suppress.                           *)
ConnStatusRequest == Query("CONN_STATUS_REQUEST", "CONN_STATUS_REPLY", TRUE)
EchoRequest == Query("ECHO_REQUEST", "ECHO_REPLY", TRUE)
SetBaud == Answer([type |-> "SET_BAUD", good |-> TRUE], <<>>, sdk) /\ Quiet
PrintStats == Answer([type |-> "PRINT_STATS", good |-> TRUE], Log(20), sdk) /\ Quiet

(* wifi_station_scan refuses while a scan is under way. *)
ScanRequest(ok) ==
  /\ ok => ~scanning
  /\ Answer([type |-> "SCAN_REQUEST", good |-> TRUE],
            IF ok THEN Ok ELSE FAIL, sdk)
  /\ scanning' = (scanning \/ ok) /\ UNCHANGED loglevel

(* scan_done: the header and all entries at once; nothing at all if the    *)
(* scan failed.                                                            *)
ScanReply(n) == [type |-> "SCAN_REPLY", val |-> n]
ScanEntry(k) == [type |-> "SCAN_ENTRY", val |-> k]

ScanMessages_CountsBehindFirst(n) ==
  <<ScanReply(IF n = 0 THEN 0 ELSE n - 1)>> \o [k \in 1..n |-> ScanEntry(k - 1)]

ScanMessages(n) == <<ScanReply(n)>> \o [k \in 1..n |-> ScanEntry(k - 1)]

ScanDone(n) ==
  /\ scanning /\ scanning' = FALSE
  /\ ring' = ring \o Stored(ScanMessages(n))
  /\ UNCHANGED <<sdk, loglevel, requests, req, answer, heard>>

ScanFailed ==
  /\ scanning /\ scanning' = FALSE
  /\ UNCHANGED <<sdk, loglevel, ring, requests, req, answer, heard>>

(* transmitter_send takes the oldest message. *)
Transmit ==
  /\ ring # <<>> /\ ring' = Tail(ring)
  /\ heard' = CASE Head(ring).type = "SCAN_REPLY" -> [left |-> Head(ring).val, got |-> 0]
               [] Head(ring).type = "SCAN_ENTRY" ->
                    [left |-> heard.left - 1, got |-> heard.got + 1]
               [] OTHER -> heard
  /\ UNCHANGED <<sdk, loglevel, scanning, requests, req, answer>>

CommandsNext ==
  \/ \E t \in AllTypes : BadRequest(t)
  \/ \E m \in OpModes, ok \in BOOLEAN : WifiModeSet(m, ok)
  \/ \E g, a, b \in BOOLEAN : StaticIpConfSet(g, a, b)
  \/ \E on, ok \in BOOLEAN : DhcpcStateSet(on, ok)
  \/ \E a, b \in BOOLEAN : StationConfSet(a, b)
  \/ \E ok \in BOOLEAN : SleepModeSet(ok) \/ SoftApConfSet(ok) \/ ScanRequest(ok)
                           \/ QueryAny(ok)
  \/ \E dhcpd, router \in BOOLEAN, n \in 0..5 : SoftApNetConfSet(dhcpd, router, n)
  \/ \E level \in Levels : LogLevelSet(level)
  \/ \E t \in AllTypes : ForwardingSet(t)
  \/ ConnStatusRequest \/ EchoRequest \/ SetBaud \/ PrintStats
  \/ \E n \in 0..MaxAps : ScanDone(n)
  \/ ScanFailed \/ Transmit

CommandsSpec == CommandsInit /\ [][CommandsNext]_commandsVars

-----------------------------------------------------------------------------
MessageTypes == {"STATUS", "LOG", "SCAN_REPLY", "SCAN_ENTRY", "IP_CONF_REPLY",
                 "MACADDR_REPLY", "RSSI_REPLY", "CONN_STATUS_REPLY", "ECHO_REPLY"}
Messages == [type : MessageTypes, val : Int]

(* Every variable keeps its type; the ring never exceeds its size. *)
CommandsOK ==
  /\ sdk \in [opmode : OpModes, dhcpc : BOOLEAN, dhcps : BOOLEAN,
              static_ip : BOOLEAN, offer_router : BOOLEAN, joined : BOOLEAN,
              ap_conf : BOOLEAN]
  /\ loglevel \in Levels /\ scanning \in BOOLEAN /\ requests \in 0..MaxRequests
  /\ Len(ring) <= RingSize
  /\ \A k \in DOMAIN ring : ring[k] \in Messages
  /\ heard \in [left : Int, got : Nat]

(* The replies among the messages that a request led to, by their places. *)
Replies == {k \in DOMAIN answer : answer[k].type # "LOG"}

(* The reply that message.h lists for a request, next to STATUS. *)
ReplyTo(type) ==
  CASE type = "IP_CONF_REQUEST" -> "IP_CONF_REPLY"
    [] type = "MACADDR_REQUEST" -> "MACADDR_REPLY"
    [] type = "RSSI_REQUEST" -> "RSSI_REPLY"
    [] type = "CONN_STATUS_REQUEST" -> "CONN_STATUS_REPLY"
    [] type = "ECHO_REQUEST" -> "ECHO_REPLY"
    [] OTHER -> "STATUS"

Unanswered == {"NONE", "SET_BAUD", "PRINT_STATS"}

(* Every other request is answered exactly once, whichever SDK call fails: *)
(* by the documented reply, or by STATUS with an error (FAIL returns from  *)
(* packet_from_host).  A host that waits for one reply per request never   *)
(* gets out of step, unless a reply is dropped.                            *)
OneReplyPerRequest ==
  IF req.type \in Unanswered THEN Replies = {}
  ELSE \E k \in DOMAIN answer :
         /\ Replies = {k}
         /\ answer[k].type = ReplyTo(req.type) \/ answer[k] = Status(255)

Succeeded == \E k \in DOMAIN answer : Replies = {k} /\ answer[k] = Status(0)

(* "0 means success": after STATUS 0 the request is in effect, although    *)
(* its handler makes up to five SDK calls, each of which may fail.         *)
StatusTruthful ==
  Succeeded =>
    /\ req.good
    /\ req.type = "WIFI_MODE_SET" => sdk.opmode = req.mode
    /\ req.type = "STATIC_IP_CONF_SET" => sdk.static_ip /\ ~sdk.dhcpc
    /\ req.type = "SOFTAP_NET_CONF_SET" =>
         /\ sdk.dhcps = req.dhcpd
         /\ req.dhcpd /\ req.router => sdk.offer_router

(* A host that counts: each SCAN_ENTRY it gets is the next one of the last *)
(* SCAN_REPLY it got, and there are never more of them than that reply     *)
(* announced, although scan_done may run between any two replies, a scan   *)
(* may follow one whose entries the full ring has dropped, and the header  *)
(* itself may be dropped.                                                  *)
EntriesFollowHeader ==
  ring # <<>> /\ Head(ring).type = "SCAN_ENTRY" =>
    heard.left > 0 /\ Head(ring).val = heard.got

-----------------------------------------------------------------------------
(* What message.h says and the code does not do. *)

(* MSG_STATUS: "0 means success, any other value is error code", for       *)
(* MSG_STATION_DHCPC_STATE_SET: the DHCP client is in the requested state  *)
(* if and only if the status is 0.                                         *)
DhcpcStatusTruthful ==
  req.type = "DHCPC_STATE_SET" /\ req.good => (Succeeded <=> sdk.dhcpc = req.on)

(* A host can rely on what it hears: one reply per request, a status that  *)
(* is true, and scan entries that it can count.                            *)
HostInformed == CommandsOK /\ OneReplyPerRequest /\ StatusTruthful /\ EntriesFollowHeader
=============================================================================
