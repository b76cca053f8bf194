-------------------------------- MODULE Igmp --------------------------------
(***************************************************************************)
(* lwIP's IGMP host (lwip/core/ipv4/igmp.c).  igmp_group_list is a         *)
(* function from <<interface, group>> to the group's record: a lookup goes *)
(* by both and the order of the list decides nothing.  filter is what the  *)
(* driver's igmp_mac_filter has been told to receive, out the messages of  *)
(* the step, mem what the step is refused ("group" or "pbuf").  A timer    *)
(* starts at a random value below the time allowed.                        *)
(***************************************************************************)
EXTENDS Integers, Sequences, FiniteSets

CONSTANTS IgmpNetifs, Groups,
          JoinTimer,        \* IGMP_JOIN_DELAYING_MEMBER_TMR
          MaxResps,         \* response times of queries
          IgmpCalls         \* calls and messages of a behaviour

ASSUME IgmpTimes == JoinTimer \in Nat /\ JoinTimer >= 2 /\ \A m \in MaxResps : m \in Nat /\ m >= 2

VARIABLE igmp
allsystems == "allsystems"

NewGroup == [state |-> "NON_MEMBER", timer |-> 0, last |-> FALSE, use |-> 0]
igmp_init == [groups |-> [k \in {} |-> NewGroup], filter |-> {}, out |-> {}, mem |-> "ok", calls |-> IgmpCalls]

Without(f, K) == [k \in DOMAIN f \ K |-> f[k]]
With(f, k, v) == [j \in DOMAIN f \cup {k} |-> IF j = k THEN v ELSE f[j]]

-----------------------------------------------------------------------------
(* A report makes this host the last reporter; both messages need a pbuf.  *)
igmp_send(s, k, type) ==
    IF s.mem = "pbuf" THEN s
    ELSE [s EXCEPT !.out = @ \cup {<<type, k>>}, !.groups[k].last = IF type = "REPORT" THEN TRUE ELSE @]

igmp_lookfor_group(s, k) == k \in DOMAIN s.groups
igmp_lookup_group(s, k) ==
    IF igmp_lookfor_group(s, k) \/ s.mem = "group" THEN s
    ELSE [s EXCEPT !.groups = With(@, k, NewGroup)]

(* (rand % (max_time - 1)) + 1: below two there is no such number.         *)
TimerValues(max) == 1..(max - 1)

(* A running timer is only ever shortened.                                 *)
Delays_Always(g, maxresp) == g.state # "NON_MEMBER"
Delays(g, maxresp) == \/ g.state = "IDLE_MEMBER"
                      \/ g.state = "DELAYING_MEMBER" /\ (g.timer = 0 \/ maxresp < g.timer)
igmp_delaying_member(s, k, maxresp, t) ==
    IF Delays(s.groups[k], maxresp)
    THEN [s EXCEPT !.groups[k].state = "DELAYING_MEMBER", !.groups[k].timer = t] ELSE s
DelayAll(s, K, maxresp, t) ==
    [s EXCEPT !.groups = [k \in DOMAIN @ |-> IF k \in K THEN igmp_delaying_member(s, k, maxresp, t[k]).groups[k]
                                             ELSE @[k]]]

(* The first member sets the filter and reports at once, and once more     *)
(* after a delay.                                                          *)
JoinOn(s, k, t) ==
    LET s1 == igmp_lookup_group(s, k)
        g  == s1.groups[k]
        s2 == igmp_send([s1 EXCEPT !.filter = IF g.use = 0 THEN @ \cup {k} ELSE @], k, "REPORT")
        s3 == [s2 EXCEPT !.groups[k].timer = t, !.groups[k].state = "DELAYING_MEMBER"]
    IN  IF ~igmp_lookfor_group(s1, k) THEN s
        ELSE [(IF g.state = "NON_MEMBER" THEN s3 ELSE s1) EXCEPT !.groups[k].use = @ + 1]

LeaveOn_KeepsFilter(s, k) ==
    LET s1 == IF s.groups[k].last THEN igmp_send(s, k, "LEAVE") ELSE s
    IN  IF s.groups[k].use <= 1 THEN [s1 EXCEPT !.groups = Without(@, {k})]
        ELSE [s EXCEPT !.groups[k].use = @ - 1]
LeaveOn(s, k) ==
    LET s1 == IF s.groups[k].last THEN igmp_send(s, k, "LEAVE") ELSE s
    IN  IF s.groups[k].use <= 1 THEN [s1 EXCEPT !.groups = Without(@, {k}), !.filter = @ \ {k}]
        ELSE [s EXCEPT !.groups[k].use = @ - 1]

igmp_timeout(s, k) == IF s.groups[k].state = "DELAYING_MEMBER" THEN igmp_send(s, k, "REPORT") ELSE s
Older(g) == [g EXCEPT !.timer = IF @ > 0 THEN @ - 1 ELSE 0]
igmp_tmr(s) ==
    LET due == {k \in DOMAIN s.groups : s.groups[k].timer = 1}
        s1  == [s EXCEPT !.groups = [k \in DOMAIN @ |-> Older(@[k])]]
    IN  [s1 EXCEPT !.groups = [k \in DOMAIN @ |-> IF k \in due THEN igmp_timeout(s1, k).groups[k] ELSE @[k]],
                   !.out = UNION {igmp_timeout(s1, k).out : k \in due}]

igmp_start(s, n) ==
    LET k  == <<n, allsystems>>
        s1 == igmp_lookup_group(s, k)
    IN  IF ~igmp_lookfor_group(s1, k) THEN s
        ELSE [s1 EXCEPT !.groups[k].state = "IDLE_MEMBER", !.groups[k].use = @ + 1, !.filter = @ \cup {k}]
OnNetif(s, n) == {k \in DOMAIN s.groups : k[1] = n}
igmp_stop(s, n) == [s EXCEPT !.groups = Without(@, OnNetif(s, n)), !.filter = @ \ OnNetif(s, n)]

-----------------------------------------------------------------------------
IgmpReady(mem) == [igmp EXCEPT !.out = {}, !.mem = mem, !.calls = @ - 1]
IgmpBecomes(s) == igmp.calls > 0 /\ igmp' = [s EXCEPT !.mem = "ok"]

IgmpStart(n, mem) == <<n, allsystems>> \notin DOMAIN igmp.groups /\ IgmpBecomes(igmp_start(IgmpReady(mem), n))
IgmpStop(n) == IgmpBecomes(igmp_stop(IgmpReady("ok"), n))

(* All interfaces with the address asked for (or 0.0.0.0) are joined one   *)
(* after the other; the first that is refused a group ends it.  They share *)
(* nothing, so their order decides nothing.  N are those it comes to, the  *)
(* refused one included.                                                   *)
JoinResults(N) == {mem \in [N -> {"ok", "group", "pbuf"}] : \A m, n \in N : mem[m] = "group" /\ mem[n] = "group" => m = n}
JoinAll(s, N, a, mem, t) ==
    LET one(n) == JoinOn([s EXCEPT !.mem = mem[n]], <<n, a>>, t[n])
    IN  [s EXCEPT !.groups = [k \in UNION {DOMAIN one(n).groups : n \in N} |->
                                IF k \in N \X {a} THEN one(k[1]).groups[k] ELSE @[k]],
                  !.filter = UNION {one(n).filter : n \in N},
                  !.out = UNION {one(n).out : n \in N}]
igmp_joingroup(N, a, mem) ==
    \E t \in [N -> TimerValues(JoinTimer)] : IgmpBecomes(JoinAll(IgmpReady("ok"), N, a, mem, t))
igmp_leavegroup(n, a, mem) ==
    <<n, a>> \in DOMAIN igmp.groups /\ IgmpBecomes(LeaveOn(IgmpReady(mem), <<n, a>>))

(* A query to all, or for one group; a report of another host.             *)
GeneralQuery(n, maxresp) ==
    /\ <<n, allsystems>> \in DOMAIN igmp.groups
    /\ LET K == OnNetif(igmp, n) \ {<<n, allsystems>>}
       IN  \E t \in [K -> TimerValues(maxresp)] : IgmpBecomes(DelayAll(IgmpReady("ok"), K, maxresp, t))
GroupQuery(n, a, maxresp) ==
    /\ <<n, a>> \in DOMAIN igmp.groups
    /\ \E t \in TimerValues(maxresp) :
            IgmpBecomes(igmp_delaying_member(IgmpReady("ok"), <<n, a>>, maxresp, t))
OtherReport_KeepsTimer(n, a) ==
    /\ <<n, a>> \in DOMAIN igmp.groups
    /\ IgmpBecomes([IgmpReady("ok") EXCEPT !.groups[<<n, a>>].state = "IDLE_MEMBER"])
OtherReport(n, a) ==
    /\ <<n, a>> \in DOMAIN igmp.groups
    /\ LET s == IgmpReady("ok")
       IN  IgmpBecomes(IF s.groups[<<n, a>>].state = "DELAYING_MEMBER"
                       THEN [s EXCEPT !.groups[<<n, a>>] = [@ EXCEPT !.timer = 0, !.state = "IDLE_MEMBER",
                                                                    !.last = FALSE]] ELSE s)
igmp_report_groups(n) ==
    \E t \in [OnNetif(igmp, n) -> TimerValues(JoinTimer)] :
        IgmpBecomes(DelayAll(IgmpReady("ok"), OnNetif(igmp, n), JoinTimer, t))

IgmpTick(mem) ==
    /\ \E k \in DOMAIN igmp.groups : igmp.groups[k].timer > 0
    /\ igmp' = [igmp_tmr([igmp EXCEPT !.out = {}, !.mem = mem]) EXCEPT !.mem = "ok"]

IgmpInit == igmp = igmp_init
IgmpNext ==
    \/ \E mem \in {"ok", "pbuf"} : IgmpTick(mem)
    \/ \E n \in IgmpNetifs :
        \/ \E mem \in {"ok", "group"} : IgmpStart(n, mem)
        \/ IgmpStop(n) \/ igmp_report_groups(n)
        \/ \E m \in MaxResps : GeneralQuery(n, m) \/ \E a \in Groups : GroupQuery(n, a, m)
        \/ \E a \in Groups : \/ OtherReport(n, a)
                             \/ \E mem \in {"ok", "pbuf"} : igmp_leavegroup(n, a, mem)
    \/ \E N \in (SUBSET IgmpNetifs) \ {{}}, a \in Groups : \E mem \in JoinResults(N) : igmp_joingroup(N, a, mem)
IgmpSpec == IgmpInit /\ [][IgmpNext]_igmp

-----------------------------------------------------------------------------
(* The driver receives exactly the groups of the list, through joins that  *)
(* fail half way, nested joins and the stop of an interface.               *)
FilterMatchesGroups == igmp.filter = DOMAIN igmp.groups

(* A group in the list is in use and past its join, and its timer runs     *)
(* only while it owes a report: a report of another host stops it.         *)
IgmpOK == \A k \in DOMAIN igmp.groups :
    /\ igmp.groups[k].use > 0 /\ igmp.groups[k].state # "NON_MEMBER"
    /\ igmp.groups[k].timer > 0 => igmp.groups[k].state = "DELAYING_MEMBER"

(* A report that is due is not put off again and again: no query makes a   *)
(* running timer later than the query allows.                              *)
TimerOnlyShortens == [][\A k \in DOMAIN igmp.groups \cap DOMAIN igmp'.groups :
    igmp.groups[k].timer > 0 => igmp'.groups[k].timer <= igmp.groups[k].timer]_igmp

(* Groups, filters and timers agree after any joins, leaves, queries and   *)
(* reports (igmp.c).                                                       *)
IgmpSound == FilterMatchesGroups /\ IgmpOK
=============================================================================
