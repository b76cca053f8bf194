--------------------------- MODULE ServicesProofs ---------------------------
(***************************************************************************)
(* Three services of the stack, for every number of interfaces, groups,    *)
(* slots, servers, calls, timers and pings: the groups of IGMP with the    *)
(* driver's filters and their timers, the callbacks of the resolver, and   *)
(* the list of timeouts with those who live on it.                         *)
(***************************************************************************)
EXTENDS Igmp, Dns, Timers, Induction, FiniteSetTheorems, SequenceTheorems
-----------------------------------------------------------------------------
(***************************************************************************)
(* IGMP.  The lemmas are about values s of igmp: an operation goes through *)
(* several of them within a step.                                          *)
(***************************************************************************)
Group == [state : {"NON_MEMBER", "IDLE_MEMBER", "DELAYING_MEMBER"},
          timer : Nat, last : BOOLEAN, use : Nat]

IsIgmp(s) ==
  /\ s = [groups |-> s.groups, filter |-> s.filter, out |-> s.out, mem |-> s.mem,
          calls |-> s.calls]
  /\ s.groups \in [DOMAIN s.groups -> Group]

(* A group in the list, between two steps. *)
InUse(g) == /\ g.use > 0 /\ g.state # "NON_MEMBER"
            /\ g.timer > 0 => g.state = "DELAYING_MEMBER"

IgmpKept(s) ==
  /\ IsIgmp(s) /\ s.filter = DOMAIN s.groups
  /\ \A k \in DOMAIN s.groups : InUse(s.groups[k])

(* No timer of s that runs is later in r. *)
NoneLater(s, r) ==
  \A k \in DOMAIN s.groups \cap DOMAIN r.groups :
    s.groups[k].timer > 0 => r.groups[k].timer <= s.groups[k].timer

(* One group of the list gets a new record. *)
SetGroup(s, k, g) == [s EXCEPT !.groups = [s.groups EXCEPT ![k] = g]]

LEMMA SetGroupIs ==
  ASSUME NEW s, IsIgmp(s), NEW k \in DOMAIN s.groups, NEW g \in Group
  PROVE  LET r == SetGroup(s, k, g)
         IN  /\ IsIgmp(r) /\ r.filter = s.filter /\ r.out = s.out /\ r.mem = s.mem
             /\ DOMAIN r.groups = DOMAIN s.groups /\ r.groups[k] = g
             /\ \A j \in DOMAIN s.groups : j # k => r.groups[j] = s.groups[j]
BY DEF SetGroup, IsIgmp

(* igmp_send changes nothing but the mark of the last reporter. *)
LEMMA SendKeeps ==
  ASSUME NEW s, IsIgmp(s), NEW k \in DOMAIN s.groups, NEW type
  PROVE  LET r == igmp_send(s, k, type)
         IN  /\ IsIgmp(r) /\ r.filter = s.filter /\ DOMAIN r.groups = DOMAIN s.groups
             /\ r.groups[k].state = s.groups[k].state
             /\ r.groups[k].timer = s.groups[k].timer
             /\ r.groups[k].use = s.groups[k].use
             /\ \A j \in DOMAIN s.groups : j # k => r.groups[j] = s.groups[j]
<1> DEFINE r == igmp_send(s, k, type)
<1>1. CASE s.mem = "pbuf"
  BY <1>1 DEF igmp_send
<1>2. CASE s.mem # "pbuf"
  <2> DEFINE s1 == [s EXCEPT !.out = @ \cup {<<type, k>>}]
             g == [s.groups[k] EXCEPT !.last = IF type = "REPORT" THEN TRUE ELSE @]
  <2>1. r = SetGroup(s1, k, g)
    BY <1>2 DEF igmp_send, SetGroup, IsIgmp
  <2>2. IsIgmp(s1) /\ s1.groups = s.groups /\ s1.filter = s.filter
    BY DEF IsIgmp
  <2>3. s.groups[k] \in Group
    BY DEF IsIgmp
  <2>4. /\ g \in Group /\ g.state = s.groups[k].state /\ g.timer = s.groups[k].timer
        /\ g.use = s.groups[k].use
    BY <2>3 DEF Group
  <2> HIDE DEF g, s1
  <2>5. /\ IsIgmp(r) /\ r.filter = s.filter /\ DOMAIN r.groups = DOMAIN s.groups
        /\ r.groups[k] = g
        /\ \A j \in DOMAIN s.groups : j # k => r.groups[j] = s.groups[j]
    BY <2>1, <2>2, <2>4, SetGroupIs
  <2> HIDE DEF r
  <2> QED
    BY <2>4, <2>5 DEF r
<1> QED
  BY <1>1, <1>2

(* igmp_lookup_group makes a group where there is none and memory for one. *)
LEMMA LookupMakes ==
  ASSUME NEW s, IsIgmp(s), NEW k, k \notin DOMAIN s.groups, s.mem # "group"
  PROVE  LET r == igmp_lookup_group(s, k)
         IN  /\ IsIgmp(r) /\ r.filter = s.filter /\ r.mem = s.mem
             /\ DOMAIN r.groups = DOMAIN s.groups \cup {k} /\ r.groups[k] = NewGroup
             /\ \A j \in DOMAIN s.groups : r.groups[j] = s.groups[j]
<1> DEFINE G == With(s.groups, k, NewGroup)
<1>1. igmp_lookup_group(s, k) = [s EXCEPT !.groups = G]
  BY DEF igmp_lookup_group, igmp_lookfor_group
<1>2. /\ DOMAIN G = DOMAIN s.groups \cup {k} /\ G[k] = NewGroup
      /\ \A j \in DOMAIN s.groups : G[j] = s.groups[j]
  BY DEF With
<1>3. NewGroup \in Group
  BY DEF NewGroup, Group
<1>4. G \in [DOMAIN G -> Group]
  BY <1>2, <1>3 DEF With, IsIgmp
<1> HIDE DEF G
<1> QED
  BY <1>1, <1>2, <1>4 DEF IsIgmp

(* One more user of a group. *)
LEMMA UseMore ==
  ASSUME NEW s, IsIgmp(s), NEW k \in DOMAIN s.groups
  PROVE  LET r == [s EXCEPT !.groups[k].use = @ + 1]
         IN  /\ IsIgmp(r) /\ r.filter = s.filter /\ DOMAIN r.groups = DOMAIN s.groups
             /\ r.groups[k].state = s.groups[k].state
             /\ r.groups[k].timer = s.groups[k].timer
             /\ r.groups[k].use = s.groups[k].use + 1
             /\ \A j \in DOMAIN s.groups : j # k => r.groups[j] = s.groups[j]
<1> DEFINE g == [s.groups[k] EXCEPT !.use = @ + 1]
           r == [s EXCEPT !.groups[k].use = @ + 1]
<1>1. r = SetGroup(s, k, g)
  BY DEF SetGroup, IsIgmp
<1>2. s.groups[k] \in Group
  BY DEF IsIgmp
<1>3. /\ g \in Group /\ g.state = s.groups[k].state /\ g.timer = s.groups[k].timer
      /\ g.use = s.groups[k].use + 1
  BY <1>2 DEF Group
<1> HIDE DEF g, r
<1>4. /\ IsIgmp(r) /\ r.filter = s.filter /\ DOMAIN r.groups = DOMAIN s.groups
      /\ r.groups[k] = g
      /\ \A j \in DOMAIN s.groups : j # k => r.groups[j] = s.groups[j]
  BY <1>1, <1>3, SetGroupIs
<1> QED
  BY <1>3, <1>4 DEF r

LEMMA TimerValue ==
  ASSUME NEW max \in Nat, NEW t \in TimerValues(max)
  PROVE  t \in Nat /\ t > 0 /\ t < max
BY DEF TimerValues

(* A join on one interface changes the group k only, and its timer only    *)
(* when it makes the group.                                                *)
LEMMA JoinOnKeeps ==
  ASSUME NEW s, IgmpKept(s), NEW k, NEW t \in TimerValues(JoinTimer)
  PROVE  LET r == JoinOn(s, k, t)
         IN  /\ IgmpKept(r) /\ DOMAIN s.groups \subseteq DOMAIN r.groups
             /\ DOMAIN r.groups \subseteq DOMAIN s.groups \cup {k}
             /\ \A j \in DOMAIN s.groups : j # k => r.groups[j] = s.groups[j]
             /\ k \in DOMAIN s.groups => r.groups[k].timer = s.groups[k].timer
<1> DEFINE r == JoinOn(s, k, t)
           s1 == igmp_lookup_group(s, k)
<1>0. /\ IsIgmp(s) /\ s.filter = DOMAIN s.groups
      /\ \A j \in DOMAIN s.groups : InUse(s.groups[j]) /\ s.groups[j].use \in Nat
  BY DEF IgmpKept, IsIgmp, Group
<1>1. CASE k \in DOMAIN s.groups
  <2>1. s1 = s
    BY <1>1 DEF igmp_lookup_group, igmp_lookfor_group
  <2>2. r = [s EXCEPT !.groups[k].use = @ + 1]
    BY <1>0, <1>1, <2>1 DEF JoinOn, igmp_lookfor_group, InUse
  <2>3. /\ IsIgmp(r) /\ r.filter = s.filter /\ DOMAIN r.groups = DOMAIN s.groups
        /\ r.groups[k].state = s.groups[k].state
        /\ r.groups[k].timer = s.groups[k].timer
        /\ r.groups[k].use = s.groups[k].use + 1
        /\ \A j \in DOMAIN s.groups : j # k => r.groups[j] = s.groups[j]
    BY <1>0, <1>1, <2>2, UseMore
  <2> HIDE DEF r, s1
  <2>4. \A j \in DOMAIN s.groups : InUse(r.groups[j])
    BY <1>0, <1>1, <2>3 DEF InUse
  <2>5. IgmpKept(r)
    BY <1>0, <2>3, <2>4 DEF IgmpKept
  <2> QED
    BY <2>3, <2>5 DEF r
<1>2. CASE k \notin DOMAIN s.groups /\ s.mem = "group"
  <2>1. s1 = s
    BY <1>2 DEF igmp_lookup_group, igmp_lookfor_group
  <2>2. r = s
    BY <1>2, <2>1 DEF JoinOn, igmp_lookfor_group
  <2> QED
    BY <1>2, <2>2
<1>3. CASE k \notin DOMAIN s.groups /\ s.mem # "group"
  <2> DEFINE s2 == igmp_send([s1 EXCEPT !.filter = @ \cup {k}], k, "REPORT")
             s3 == [s2 EXCEPT !.groups[k].timer = t, !.groups[k].state = "DELAYING_MEMBER"]
  <2>1. /\ IsIgmp(s1) /\ s1.filter = s.filter
        /\ DOMAIN s1.groups = DOMAIN s.groups \cup {k} /\ s1.groups[k] = NewGroup
        /\ \A j \in DOMAIN s.groups : s1.groups[j] = s.groups[j]
    BY <1>0, <1>3, LookupMakes
  <2>2. r = [s3 EXCEPT !.groups[k].use = @ + 1]
    BY <2>1 DEF JoinOn, igmp_lookfor_group, NewGroup
  <2> DEFINE sf == [s1 EXCEPT !.filter = @ \cup {k}]
  <2>3. IsIgmp(sf) /\ sf.groups = s1.groups /\ sf.filter = s.filter \cup {k} /\ k \in DOMAIN sf.groups
    BY <2>1 DEF IsIgmp
  <2>4. s2 = igmp_send(sf, k, "REPORT")
    OBVIOUS
  <2> HIDE DEF sf, s1, s2
  <2>5. /\ IsIgmp(s2) /\ s2.filter = sf.filter /\ DOMAIN s2.groups = DOMAIN sf.groups
        /\ s2.groups[k].use = sf.groups[k].use
        /\ \A j \in DOMAIN sf.groups : j # k => s2.groups[j] = sf.groups[j]
    BY <2>3, <2>4, SendKeeps
  <2>6. s2.groups[k].use = 0
    BY <2>1, <2>3, <2>5 DEF NewGroup
  <2>7. s2.groups[k] \in Group /\ k \in DOMAIN s2.groups
    BY <2>3, <2>5 DEF IsIgmp
  <2>8. t \in Nat /\ t > 0
    BY IgmpTimes, TimerValue
  <2> DEFINE ga == [s2.groups[k] EXCEPT !.timer = t]
             sa == SetGroup(s2, k, ga)
             gb == [ga EXCEPT !.state = "DELAYING_MEMBER"]
             sb == SetGroup(sa, k, gb)
  <2>9. /\ ga \in Group /\ ga.timer = t /\ ga.use = 0
    BY <2>6, <2>7, <2>8 DEF Group
  <2>10. gb \in Group /\ gb.timer = t /\ gb.state = "DELAYING_MEMBER" /\ gb.use = 0
    <3> HIDE DEF ga
    <3> QED
      BY <2>9 DEF Group
  <2>a. /\ IsIgmp(sa) /\ sa.filter = s2.filter /\ DOMAIN sa.groups = DOMAIN s2.groups
        /\ sa.groups[k] = ga
        /\ \A j \in DOMAIN s2.groups : j # k => sa.groups[j] = s2.groups[j]
    <3> HIDE DEF ga
    <3> QED
      BY <2>5, <2>7, <2>9, SetGroupIs
  <2>b. /\ IsIgmp(sb) /\ sb.filter = sa.filter /\ DOMAIN sb.groups = DOMAIN sa.groups
        /\ sb.groups[k] = gb
        /\ \A j \in DOMAIN sa.groups : j # k => sb.groups[j] = sa.groups[j]
    <3> HIDE DEF gb, sa
    <3> QED
      BY <2>7, <2>10, <2>a, SetGroupIs
  <2>c. s3 = sb
    <3>1. sa = [s2 EXCEPT !.groups[k].timer = t]
      BY <2>5, <2>7 DEF SetGroup, IsIgmp
    <3>2. s3 = [[s2 EXCEPT !.groups[k].timer = t] EXCEPT !.groups[k].state = "DELAYING_MEMBER"]
      OBVIOUS
    <3>3. s3 = [sa EXCEPT !.groups[k].state = "DELAYING_MEMBER"]
      BY <3>1, <3>2
    <3> HIDE DEF sa, s3, ga
    <3>4. [sa EXCEPT !.groups[k].state = "DELAYING_MEMBER"]
            = [sa EXCEPT !.groups = [sa.groups EXCEPT ![k] = [sa.groups[k] EXCEPT !.state = "DELAYING_MEMBER"]]]
      BY <2>7, <2>a DEF IsIgmp
    <3> QED
      BY <2>a, <3>3, <3>4 DEF SetGroup
  <2>d. r = [sb EXCEPT !.groups[k].use = @ + 1]
    BY <2>2, <2>c
  <2> HIDE DEF gb, sb, ga, sa, r
  <2>11. /\ IsIgmp(r) /\ r.filter = s2.filter /\ DOMAIN r.groups = DOMAIN s2.groups
         /\ r.groups[k].timer = t /\ r.groups[k].state = "DELAYING_MEMBER" /\ r.groups[k].use = 1
         /\ \A j \in DOMAIN s2.groups : j # k => r.groups[j] = s2.groups[j]
    <3>1. k \in DOMAIN sb.groups
      BY <2>7, <2>a, <2>b
    <3>2. /\ IsIgmp(r) /\ r.filter = sb.filter /\ DOMAIN r.groups = DOMAIN sb.groups
          /\ r.groups[k].state = sb.groups[k].state
          /\ r.groups[k].timer = sb.groups[k].timer
          /\ r.groups[k].use = sb.groups[k].use + 1
          /\ \A j \in DOMAIN sb.groups : j # k => r.groups[j] = sb.groups[j]
      BY <2>b, <2>d, <3>1, UseMore
    <3> QED
      BY <2>10, <2>a, <2>b, <3>2
  <2>12. /\ DOMAIN r.groups = DOMAIN s.groups \cup {k} /\ r.filter = s.filter \cup {k}
    BY <2>1, <2>3, <2>5, <2>11
  <2>13. \A j \in DOMAIN s.groups : j # k => r.groups[j] = s.groups[j]
    BY <2>1, <2>3, <2>5, <2>11
  <2>14. InUse(r.groups[k])
    BY <2>8, <2>11 DEF InUse
  <2>15. \A j \in DOMAIN r.groups : InUse(r.groups[j])
    BY <1>0, <1>3, <2>12, <2>13, <2>14
  <2>16. IgmpKept(r)
    BY <1>0, <2>11, <2>12, <2>15 DEF IgmpKept
  <2> QED
    BY <1>3, <2>12, <2>13, <2>16 DEF r
<1> QED
  BY <1>1, <1>2, <1>3

(* A leave on one interface. *)
LEMMA LeaveOnKeeps ==
  ASSUME NEW s, IgmpKept(s), NEW k \in DOMAIN s.groups
  PROVE  IgmpKept(LeaveOn(s, k)) /\ NoneLater(s, LeaveOn(s, k))
<1> DEFINE r == LeaveOn(s, k)
           s1 == IF s.groups[k].last THEN igmp_send(s, k, "LEAVE") ELSE s
<1>0. /\ IsIgmp(s) /\ s.filter = DOMAIN s.groups /\ s.groups[k] \in Group
      /\ \A j \in DOMAIN s.groups : InUse(s.groups[j]) /\ s.groups[j] \in Group
  BY DEF IgmpKept, IsIgmp
<1>1. CASE s.groups[k].use <= 1
  <2>1. r = [s1 EXCEPT !.groups = Without(@, {k}), !.filter = @ \ {k}]
    BY <1>1 DEF LeaveOn
  <2>2. /\ IsIgmp(s1) /\ s1.filter = s.filter /\ DOMAIN s1.groups = DOMAIN s.groups
        /\ \A j \in DOMAIN s.groups : j # k => s1.groups[j] = s.groups[j]
    <3>1. CASE s.groups[k].last
      BY <1>0, <3>1, SendKeeps
    <3>2. CASE ~s.groups[k].last
      BY <1>0, <3>2
    <3> QED
      BY <3>1, <3>2
  <2> HIDE DEF s1
  <2> DEFINE G == Without(s1.groups, {k})
  <2>3. /\ DOMAIN G = DOMAIN s.groups \ {k}
        /\ \A j \in DOMAIN G : G[j] = s.groups[j]
        /\ G = [j \in DOMAIN G |-> G[j]]
    BY <2>2 DEF Without
  <2>4. /\ r = [[s1 EXCEPT !.groups = G] EXCEPT !.filter = s1.filter \ {k}]
    BY <2>1, <2>2 DEF IsIgmp
  <2> HIDE DEF G, r
  <2>5. r.groups = G /\ r.filter = s.filter \ {k}
        /\ r = [groups |-> r.groups, filter |-> r.filter, out |-> r.out, mem |-> r.mem,
                calls |-> r.calls]
    BY <2>2, <2>4 DEF IsIgmp
  <2>6. G \in [DOMAIN G -> Group]
    BY <1>0, <2>3
  <2>7. IsIgmp(r)
    BY <2>5, <2>6 DEF IsIgmp
  <2>8. IgmpKept(r)
    BY <1>0, <2>3, <2>5, <2>7 DEF IgmpKept
  <2>9. \A j \in DOMAIN s.groups \cap DOMAIN r.groups : r.groups[j].timer <= s.groups[j].timer
    BY <1>0, <2>3, <2>5 DEF Group
  <2> QED
    BY <2>8, <2>9 DEF NoneLater, r
<1>2. CASE ~(s.groups[k].use <= 1)
  <2> DEFINE g == [s.groups[k] EXCEPT !.use = @ - 1]
  <2>1. r = SetGroup(s, k, g)
    BY <1>0, <1>2 DEF LeaveOn, SetGroup, IsIgmp
  <2>2. /\ g \in Group /\ g.state = s.groups[k].state /\ g.timer = s.groups[k].timer /\ g.use > 0
    BY <1>0, <1>2 DEF Group
  <2> HIDE DEF g, r
  <2>3. /\ IsIgmp(r) /\ r.filter = s.filter /\ DOMAIN r.groups = DOMAIN s.groups
        /\ r.groups[k] = g
        /\ \A j \in DOMAIN s.groups : j # k => r.groups[j] = s.groups[j]
    BY <1>0, <2>1, <2>2, SetGroupIs
  <2>4. \A j \in DOMAIN s.groups : InUse(r.groups[j])
    BY <1>0, <2>2, <2>3 DEF InUse
  <2>5. IgmpKept(r)
    BY <1>0, <2>3, <2>4 DEF IgmpKept
  <2>6. \A j \in DOMAIN s.groups : r.groups[j].timer <= s.groups[j].timer
    BY <1>0, <2>2, <2>3 DEF Group
  <2> QED
    BY <2>5, <2>6 DEF NoneLater, r
<1> QED
  BY <1>1, <1>2

(* New records for some of the groups. *)
LEMMA NewRecords ==
  ASSUME NEW s, IgmpKept(s), NEW r, NEW G,
         r = [groups |-> G, filter |-> s.filter, out |-> r.out, mem |-> r.mem, calls |-> r.calls],
         G = [k \in DOMAIN s.groups |-> G[k]],
         \A k \in DOMAIN s.groups :
           /\ G[k] \in Group /\ InUse(G[k])
           /\ s.groups[k].timer > 0 => G[k].timer <= s.groups[k].timer
  PROVE  IgmpKept(r) /\ NoneLater(s, r)
<1>1. r.groups = G /\ r.filter = s.filter /\ DOMAIN G = DOMAIN s.groups
  OBVIOUS
<1>2. G \in [DOMAIN G -> Group]
  BY <1>1
<1>3. IsIgmp(r)
  BY <1>1, <1>2 DEF IsIgmp
<1> QED
  BY <1>1, <1>3 DEF IgmpKept, NoneLater

(* A query makes a timer run that does not, and shortens one that runs. *)
LEMMA DelayingMember ==
  ASSUME NEW s, IgmpKept(s), NEW k \in DOMAIN s.groups, NEW max \in Nat,
         NEW t \in TimerValues(max)
  PROVE  LET r == igmp_delaying_member(s, k, max, t)
         IN  /\ r = [groups |-> r.groups, filter |-> s.filter, out |-> s.out, mem |-> s.mem,
                     calls |-> s.calls]
             /\ DOMAIN r.groups = DOMAIN s.groups
             /\ r.groups = [j \in DOMAIN s.groups |-> r.groups[j]]
             /\ \A j \in DOMAIN s.groups : j # k => r.groups[j] = s.groups[j]
             /\ r.groups[k] \in Group /\ InUse(r.groups[k])
             /\ s.groups[k].timer > 0 => r.groups[k].timer <= s.groups[k].timer
<1> DEFINE r == igmp_delaying_member(s, k, max, t)
           h == s.groups[k]
<1>0. /\ IsIgmp(s) /\ h \in Group /\ InUse(h)
      /\ s = [groups |-> s.groups, filter |-> s.filter, out |-> s.out, mem |-> s.mem,
              calls |-> s.calls]
      /\ s.groups = [j \in DOMAIN s.groups |-> s.groups[j]]
  BY DEF IgmpKept, IsIgmp
<1>1. CASE ~Delays(h, max)
  <2>1. r = s
    BY <1>1 DEF igmp_delaying_member
  <2>2. h.timer \in Nat
    BY <1>0 DEF Group
  <2> QED
    BY <1>0, <2>1, <2>2
<1>2. CASE Delays(h, max)
  <2> DEFINE ga == [h EXCEPT !.state = "DELAYING_MEMBER"]
             g == [ga EXCEPT !.timer = t]
             sa == [s EXCEPT !.groups[k].state = "DELAYING_MEMBER"]
  <2>1. t \in Nat /\ t > 0 /\ t < max
    BY TimerValue
  <2>2. ga \in Group /\ ga.use = h.use /\ ga.state = "DELAYING_MEMBER"
    BY <1>0 DEF Group
  <2>3. g \in Group /\ g.use = h.use /\ g.state = "DELAYING_MEMBER" /\ g.timer = t
    <3> HIDE DEF ga
    <3> QED
      BY <2>1, <2>2 DEF Group
  <2>4. InUse(g)
    BY <1>0, <2>3 DEF InUse
  <2>5. h.timer > 0 => t <= h.timer
    BY <1>0, <1>2, <2>1 DEF Delays, InUse, Group
  <2>6. r = [sa EXCEPT !.groups[k].timer = t]
    <3>1. r = [s EXCEPT !.groups[k].state = "DELAYING_MEMBER", !.groups[k].timer = t]
      BY <1>2 DEF igmp_delaying_member
    <3>2. [s EXCEPT !.groups[k].state = "DELAYING_MEMBER", !.groups[k].timer = t]
            = [[s EXCEPT !.groups[k].state = "DELAYING_MEMBER"] EXCEPT !.groups[k].timer = t]
      OBVIOUS
    <3> QED
      BY <3>1, <3>2
  <2>7. sa = SetGroup(s, k, ga)
    BY <1>0 DEF SetGroup, IsIgmp
  <2>8. /\ IsIgmp(sa) /\ sa.filter = s.filter /\ DOMAIN sa.groups = DOMAIN s.groups
        /\ sa.groups[k] = ga /\ sa.out = s.out /\ sa.mem = s.mem
        /\ \A j \in DOMAIN s.groups : j # k => sa.groups[j] = s.groups[j]
    <3> HIDE DEF ga, sa
    <3> QED
      BY <1>0, <2>2, <2>7, SetGroupIs
  <2>9. sa.calls = s.calls
    BY <1>0
  <2> HIDE DEF sa
  <2>10. r = SetGroup(sa, k, g)
    <3>1. k \in DOMAIN sa.groups /\ sa.groups[k] = ga
      BY <2>8
    <3> HIDE DEF ga
    <3> QED
      BY <2>6, <2>8, <3>1 DEF SetGroup, IsIgmp
  <2> HIDE DEF g
  <2>11. /\ IsIgmp(r) /\ r.filter = sa.filter /\ DOMAIN r.groups = DOMAIN sa.groups
         /\ r.groups[k] = g /\ r.out = sa.out /\ r.mem = sa.mem
         /\ \A j \in DOMAIN sa.groups : j # k => r.groups[j] = sa.groups[j]
    BY <2>3, <2>8, <2>10, SetGroupIs
  <2>12. r.calls = sa.calls
    BY <2>8, <2>10 DEF SetGroup, IsIgmp
  <2> HIDE DEF r, ga, h
  <2>13. /\ r = [groups |-> r.groups, filter |-> s.filter, out |-> s.out, mem |-> s.mem,
                 calls |-> s.calls]
         /\ r.groups = [j \in DOMAIN s.groups |-> r.groups[j]]
    BY <2>8, <2>9, <2>11, <2>12 DEF IsIgmp
  <2>14. \A j \in DOMAIN s.groups : j # k => r.groups[j] = s.groups[j]
    BY <2>8, <2>11
  <2>15. r.groups[k] = g /\ DOMAIN r.groups = DOMAIN s.groups
    BY <2>8, <2>11
  <2>16. h.timer > 0 => g.timer <= h.timer
    BY <2>3, <2>5
  <2> QED
    BY <2>3, <2>4, <2>13, <2>14, <2>15, <2>16 DEF r, h
<1> QED
  BY <1>1, <1>2

LEMMA DelayAllKeeps ==
  ASSUME NEW s, IgmpKept(s), NEW K \in SUBSET DOMAIN s.groups, NEW max \in Nat,
         NEW t \in [K -> TimerValues(max)]
  PROVE  IgmpKept(DelayAll(s, K, max, t)) /\ NoneLater(s, DelayAll(s, K, max, t))
<1> DEFINE one(k) == igmp_delaying_member(s, k, max, t[k])
           G == [k \in DOMAIN s.groups |-> IF k \in K THEN one(k).groups[k] ELSE s.groups[k]]
           r == DelayAll(s, K, max, t)
<1>1. r = [s EXCEPT !.groups = G]
  BY DEF DelayAll
<1>2. ASSUME NEW k \in K
      PROVE  /\ one(k).groups[k] \in Group /\ InUse(one(k).groups[k])
             /\ s.groups[k].timer > 0 => one(k).groups[k].timer <= s.groups[k].timer
  <2>1. k \in DOMAIN s.groups /\ t[k] \in TimerValues(max)
    OBVIOUS
  <2> QED
    BY <2>1, DelayingMember
<1> HIDE DEF one
<1>3. \A k \in DOMAIN s.groups : InUse(s.groups[k]) /\ s.groups[k] \in Group
  BY DEF IgmpKept, IsIgmp
<1>4. ASSUME NEW k \in DOMAIN s.groups
      PROVE  /\ G[k] \in Group /\ InUse(G[k])
             /\ s.groups[k].timer > 0 => G[k].timer <= s.groups[k].timer
  <2>1. CASE k \in K
    BY <1>2, <2>1
  <2>2. CASE k \notin K
    BY <1>3, <2>2 DEF Group
  <2> QED
    BY <2>1, <2>2
<1>5. G = [k \in DOMAIN s.groups |-> G[k]]
  OBVIOUS
<1> HIDE DEF G
<1>6. r = [groups |-> G, filter |-> s.filter, out |-> r.out, mem |-> r.mem, calls |-> r.calls]
  BY <1>1 DEF IgmpKept, IsIgmp
<1> HIDE DEF r
<1>7. IgmpKept(r) /\ NoneLater(s, r)
  BY <1>4, <1>5, <1>6, NewRecords
<1> QED
  BY <1>7 DEF r

(* igmp_tmr *)
LEMMA TmrKeeps ==
  ASSUME NEW s, IgmpKept(s)
  PROVE  IgmpKept(igmp_tmr(s)) /\ NoneLater(s, igmp_tmr(s))
<1> DEFINE due == {k \in DOMAIN s.groups : s.groups[k].timer = 1}
           D == [k \in DOMAIN s.groups |-> Older(s.groups[k])]
           s1 == [s EXCEPT !.groups = D]
           G == [k \in DOMAIN D |-> IF k \in due THEN igmp_timeout(s1, k).groups[k] ELSE D[k]]
           out == UNION {igmp_timeout(s1, k).out : k \in due}
           r == igmp_tmr(s)
<1>0. \A k \in DOMAIN s.groups : InUse(s.groups[k]) /\ s.groups[k] \in Group
  BY DEF IgmpKept, IsIgmp
<1>1. ASSUME NEW k \in DOMAIN s.groups
      PROVE  /\ D[k] \in Group /\ InUse(D[k]) /\ D[k].timer \in Nat
             /\ s.groups[k].timer > 0 => D[k].timer <= s.groups[k].timer
  <2>1. s.groups[k] \in Group /\ InUse(s.groups[k])
    BY <1>0
  <2> QED
    BY <2>1 DEF Group, InUse, Older
<1>2. DOMAIN D = DOMAIN s.groups /\ D \in [DOMAIN D -> Group]
  BY <1>1
<1>3. s1.groups = D
  BY DEF IgmpKept, IsIgmp
<1>4. r = [[s1 EXCEPT !.groups = G] EXCEPT !.out = out]
  <2>1. igmp_tmr(s) = [s1 EXCEPT !.groups = [k \in DOMAIN @ |-> IF k \in due THEN igmp_timeout(s1, k).groups[k] ELSE @[k]],
                                 !.out = UNION {igmp_timeout(s1, k).out : k \in due}]
    BY DEF igmp_tmr
  <2>2. igmp_tmr(s) = [s1 EXCEPT !.groups = G, !.out = out]
    BY <1>3, <2>1
  <2>3. [s1 EXCEPT !.groups = G, !.out = out] = [[s1 EXCEPT !.groups = G] EXCEPT !.out = out]
    OBVIOUS
  <2> QED
    BY <2>2, <2>3
<1> HIDE DEF D
<1>5. IsIgmp(s1) /\ s1.filter = s.filter
  BY <1>2, <1>3 DEF IgmpKept, IsIgmp
<1> HIDE DEF s1
<1>6. ASSUME NEW k \in DOMAIN s.groups
      PROVE  /\ igmp_timeout(s1, k).groups[k] \in Group
             /\ igmp_timeout(s1, k).groups[k].state = D[k].state
             /\ igmp_timeout(s1, k).groups[k].timer = D[k].timer
             /\ igmp_timeout(s1, k).groups[k].use = D[k].use
  <2> DEFINE q == igmp_timeout(s1, k)
  <2>1. /\ IsIgmp(q) /\ DOMAIN q.groups = DOMAIN s1.groups /\ q.groups[k].state = D[k].state
        /\ q.groups[k].timer = D[k].timer /\ q.groups[k].use = D[k].use
    <3>1. k \in DOMAIN s1.groups
      BY <1>2, <1>3
    <3>2. CASE s1.groups[k].state = "DELAYING_MEMBER"
      <4>1. q = igmp_send(s1, k, "REPORT")
        BY <3>2 DEF igmp_timeout
      <4> QED
        BY <1>3, <1>5, <3>1, <4>1, SendKeeps
    <3>3. CASE s1.groups[k].state # "DELAYING_MEMBER"
      BY <1>3, <1>5, <3>3 DEF igmp_timeout
    <3> QED
      BY <3>2, <3>3
  <2>2. q.groups[k] \in Group
    BY <1>2, <1>3, <2>1 DEF IsIgmp
  <2> QED
    BY <2>1, <2>2
<1>7. ASSUME NEW k \in DOMAIN s.groups
      PROVE  /\ G[k] \in Group /\ InUse(G[k])
             /\ s.groups[k].timer > 0 => G[k].timer <= s.groups[k].timer
  <2>1. CASE k \in due
    <3>1. G[k] = igmp_timeout(s1, k).groups[k]
      BY <1>2, <2>1
    <3> HIDE DEF G
    <3> QED
      BY <1>1, <1>6, <3>1 DEF InUse
  <2>2. CASE k \notin due
    BY <1>1, <1>2, <2>2
  <2> QED
    BY <2>1, <2>2
<1>8. G = [k \in DOMAIN s.groups |-> G[k]]
  BY <1>2
<1> HIDE DEF G, out
<1>9. r = [groups |-> G, filter |-> s.filter, out |-> r.out, mem |-> r.mem, calls |-> r.calls]
  BY <1>4, <1>5 DEF IsIgmp
<1> HIDE DEF r
<1>10. IgmpKept(r) /\ NoneLater(s, r)
  BY <1>7, <1>8, <1>9, NewRecords
<1> QED
  BY <1>10 DEF r

LEMMA StartKeeps ==
  ASSUME NEW s, IgmpKept(s), NEW n, <<n, allsystems>> \notin DOMAIN s.groups
  PROVE  IgmpKept(igmp_start(s, n)) /\ NoneLater(s, igmp_start(s, n))
<1> DEFINE k == <<n, allsystems>>
           s1 == igmp_lookup_group(s, k)
           r == igmp_start(s, n)
<1>0. /\ IsIgmp(s) /\ s.filter = DOMAIN s.groups
      /\ \A j \in DOMAIN s.groups : InUse(s.groups[j]) /\ s.groups[j] \in Group
  BY DEF IgmpKept, IsIgmp
<1>1. CASE s.mem = "group"
  <2>1. s1 = s
    BY <1>1 DEF igmp_lookup_group
  <2>2. r = s
    BY <2>1 DEF igmp_start, igmp_lookfor_group
  <2> QED
    BY <1>0, <2>2 DEF NoneLater, Group
<1>2. CASE s.mem # "group"
  <2>1. /\ IsIgmp(s1) /\ s1.filter = s.filter
        /\ DOMAIN s1.groups = DOMAIN s.groups \cup {k} /\ s1.groups[k] = NewGroup
        /\ \A j \in DOMAIN s.groups : s1.groups[j] = s.groups[j]
    <3> HIDE DEF k
    <3>1. k \notin DOMAIN s.groups
      BY DEF k
    <3> QED
      BY <1>0, <1>2, <3>1, LookupMakes
  <2>2. r = [s1 EXCEPT !.groups[k].state = "IDLE_MEMBER", !.groups[k].use = @ + 1,
                       !.filter = @ \cup {k}]
    BY <2>1 DEF igmp_start, igmp_lookfor_group
  <2> HIDE DEF s1, k, r
  <2> DEFINE ga == [NewGroup EXCEPT !.state = "IDLE_MEMBER"]
             g == [ga EXCEPT !.use = @ + 1]
             sa == [s1 EXCEPT !.groups[k].state = "IDLE_MEMBER"]
             sb == [sa EXCEPT !.groups[k].use = @ + 1]
  <2>3. r = [sb EXCEPT !.filter = @ \cup {k}]
    <3>1. [s1 EXCEPT !.groups[k].state = "IDLE_MEMBER", !.groups[k].use = @ + 1,
                     !.filter = @ \cup {k}]
            = [[s1 EXCEPT !.groups[k].state = "IDLE_MEMBER", !.groups[k].use = @ + 1]
                 EXCEPT !.filter = @ \cup {k}]
      BY <2>1 DEF IsIgmp
    <3>2. [s1 EXCEPT !.groups[k].state = "IDLE_MEMBER", !.groups[k].use = @ + 1] = sb
      BY <2>1 DEF IsIgmp
    <3> QED
      BY <2>2, <3>1, <3>2
  <2>4. /\ ga \in Group /\ ga.state = "IDLE_MEMBER" /\ ga.timer = 0 /\ ga.use = 0
    BY DEF Group, NewGroup
  <2>5. sa = SetGroup(s1, k, ga)
    BY <2>1 DEF SetGroup, IsIgmp
  <2>6. /\ IsIgmp(sa) /\ sa.filter = s1.filter /\ DOMAIN sa.groups = DOMAIN s1.groups
        /\ sa.groups[k] = ga
        /\ \A j \in DOMAIN s1.groups : j # k => sa.groups[j] = s1.groups[j]
    <3> HIDE DEF ga, sa
    <3> QED
      BY <2>1, <2>4, <2>5, SetGroupIs
  <2> HIDE DEF sa
  <2>7. /\ IsIgmp(sb) /\ sb.filter = sa.filter /\ DOMAIN sb.groups = DOMAIN sa.groups
        /\ sb.groups[k].state = "IDLE_MEMBER" /\ sb.groups[k].timer = 0
        /\ sb.groups[k].use = 1
        /\ \A j \in DOMAIN sa.groups : j # k => sb.groups[j] = sa.groups[j]
    <3>1. k \in DOMAIN sa.groups
      BY <2>1, <2>6
    <3> HIDE DEF ga
    <3> QED
      BY <2>4, <2>6, <3>1, UseMore
  <2> HIDE DEF sb
  <2>8. IsIgmp(r) /\ r.groups = sb.groups /\ r.filter = sb.filter \cup {k}
    BY <2>3, <2>7 DEF IsIgmp
  <2>9. /\ DOMAIN r.groups = DOMAIN s.groups \cup {k} /\ r.filter = s.filter \cup {k}
        /\ \A j \in DOMAIN s.groups : j # k => r.groups[j] = s.groups[j]
    BY <2>1, <2>6, <2>7, <2>8
  <2>10. InUse(r.groups[k])
    BY <2>7, <2>8 DEF InUse
  <2>11. k \notin DOMAIN s.groups
    BY DEF k
  <2>12. IgmpKept(r)
    BY <1>0, <2>8, <2>9, <2>10, <2>11 DEF IgmpKept
  <2>13. NoneLater(s, r)
    BY <1>0, <2>9, <2>11 DEF NoneLater, Group
  <2> QED
    BY <2>12, <2>13 DEF r
<1> QED
  BY <1>1, <1>2

LEMMA StopKeeps ==
  ASSUME NEW s, IgmpKept(s), NEW n
  PROVE  IgmpKept(igmp_stop(s, n)) /\ NoneLater(s, igmp_stop(s, n))
<1> DEFINE K == OnNetif(s, n)
           G == Without(s.groups, K)
           r == igmp_stop(s, n)
<1>0. /\ IsIgmp(s) /\ s.filter = DOMAIN s.groups
      /\ \A j \in DOMAIN s.groups : InUse(s.groups[j]) /\ s.groups[j] \in Group
  BY DEF IgmpKept, IsIgmp
<1>1. r = [[s EXCEPT !.groups = G] EXCEPT !.filter = s.filter \ K]
  BY <1>0 DEF igmp_stop, IsIgmp
<1>2. /\ DOMAIN G = DOMAIN s.groups \ K /\ \A j \in DOMAIN G : G[j] = s.groups[j]
      /\ G = [j \in DOMAIN G |-> G[j]]
  BY DEF Without
<1> HIDE DEF G, K, r
<1>3. /\ r.groups = G /\ r.filter = s.filter \ K
      /\ r = [groups |-> r.groups, filter |-> r.filter, out |-> r.out, mem |-> r.mem,
              calls |-> r.calls]
  BY <1>0, <1>1 DEF IsIgmp
<1>4. G \in [DOMAIN G -> Group]
  BY <1>0, <1>2
<1>5. IsIgmp(r)
  BY <1>3, <1>4 DEF IsIgmp
<1>6. IgmpKept(r)
  BY <1>0, <1>2, <1>3, <1>5 DEF IgmpKept
<1>7. NoneLater(s, r)
  BY <1>0, <1>2, <1>3 DEF NoneLater, Group
<1> QED
  BY <1>6, <1>7 DEF r

(* igmp_joingroup on several interfaces: each changes its own group. *)
LEMMA JoinAllKeeps ==
  ASSUME NEW s, IgmpKept(s), NEW N, N # {}, NEW a, NEW mem,
         NEW t \in [N -> TimerValues(JoinTimer)]
  PROVE  IgmpKept(JoinAll(s, N, a, mem, t)) /\ NoneLater(s, JoinAll(s, N, a, mem, t))
<1> DEFINE sm(n) == [s EXCEPT !.mem = mem[n]]
           one(n) == JoinOn(sm(n), <<n, a>>, t[n])
           D == UNION {DOMAIN one(n).groups : n \in N}
           G == [k \in D |-> IF k \in N \X {a} THEN one(k[1]).groups[k] ELSE s.groups[k]]
           F == UNION {one(n).filter : n \in N}
           O == UNION {one(n).out : n \in N}
           r == JoinAll(s, N, a, mem, t)
<1>0. /\ IsIgmp(s) /\ s.filter = DOMAIN s.groups
      /\ \A j \in DOMAIN s.groups : InUse(s.groups[j]) /\ s.groups[j] \in Group
  BY DEF IgmpKept, IsIgmp
<1>1. r = [[[s EXCEPT !.groups = G] EXCEPT !.filter = F] EXCEPT !.out = O]
  <2>1. r = [s EXCEPT !.groups = G, !.filter = F, !.out = O]
    BY DEF JoinAll
  <2>2. [s EXCEPT !.groups = G, !.filter = F, !.out = O]
          = [[[s EXCEPT !.groups = G] EXCEPT !.filter = F] EXCEPT !.out = O]
    OBVIOUS
  <2> QED
    BY <2>1, <2>2
<1>2. ASSUME NEW n \in N
      PROVE  /\ IgmpKept(one(n)) /\ DOMAIN s.groups \subseteq DOMAIN one(n).groups
             /\ DOMAIN one(n).groups \subseteq DOMAIN s.groups \cup {<<n, a>>}
             /\ <<n, a>> \in DOMAIN s.groups =>
                  one(n).groups[<<n, a>>].timer = s.groups[<<n, a>>].timer
  <2>1. IgmpKept(sm(n)) /\ sm(n).groups = s.groups
    BY <1>0 DEF IgmpKept, IsIgmp
  <2>2. t[n] \in TimerValues(JoinTimer)
    OBVIOUS
  <2> DEFINE k == <<n, a>>
  <2> HIDE DEF k, sm
  <2>3. LET q == JoinOn(sm(n), k, t[n])
        IN  /\ IgmpKept(q) /\ DOMAIN sm(n).groups \subseteq DOMAIN q.groups
            /\ DOMAIN q.groups \subseteq DOMAIN sm(n).groups \cup {k}
            /\ k \in DOMAIN sm(n).groups => q.groups[k].timer = sm(n).groups[k].timer
    BY <2>1, <2>2, JoinOnKeeps
  <2> QED
    BY <2>1, <2>3 DEF k
<1> HIDE DEF one
<1>3. ASSUME NEW n \in N
      PROVE  /\ one(n).filter = DOMAIN one(n).groups
             /\ \A k \in DOMAIN one(n).groups : InUse(one(n).groups[k]) /\ one(n).groups[k] \in Group
  BY <1>2 DEF IgmpKept, IsIgmp
<1>4. F = D
  <2>1. \A n \in N : one(n).filter = DOMAIN one(n).groups
    BY <1>3
  <2>2. \A x : x \in F <=> \E n \in N : x \in one(n).filter
    OBVIOUS
  <2>3. \A x : x \in D <=> \E n \in N : x \in DOMAIN one(n).groups
    OBVIOUS
  <2> HIDE DEF F, D
  <2> QED
    BY <2>1, <2>2, <2>3
<1>5. DOMAIN s.groups \subseteq D
  <2>1. PICK n \in N : TRUE
    OBVIOUS
  <2>2. DOMAIN one(n).groups \subseteq D
    OBVIOUS
  <2> QED
    BY <1>2, <2>1, <2>2
<1>6. ASSUME NEW k \in D
      PROVE  /\ InUse(G[k]) /\ G[k] \in Group
             /\ k \in DOMAIN s.groups /\ s.groups[k].timer > 0 => G[k].timer <= s.groups[k].timer
  <2>1. PICK n \in N : k \in DOMAIN one(n).groups
    OBVIOUS
  <2>2. CASE k \in N \X {a}
    <3>0. k[1] \in N /\ k = <<k[1], a>>
      BY <2>2
    <3>1. G[k] = one(k[1]).groups[k]
      BY <2>2
    <3>2. k \in DOMAIN one(k[1]).groups
      <4>1. CASE k \in DOMAIN s.groups
        BY <1>2, <3>0, <4>1
      <4>2. CASE k \notin DOMAIN s.groups
        <5>1. k = <<n, a>>
          BY <1>2, <2>1, <4>2
        <5>2. k[1] = n
          BY <5>1
        <5> QED
          BY <2>1, <5>2
      <4> QED
        BY <4>1, <4>2
    <3>3. InUse(G[k]) /\ G[k] \in Group
      BY <1>3, <3>0, <3>1, <3>2
    <3>4. ASSUME k \in DOMAIN s.groups, s.groups[k].timer > 0
          PROVE  G[k].timer <= s.groups[k].timer
      <4>1. s.groups[k].timer \in Nat
        BY <1>0, <3>4 DEF Group
      <4>2. G[k].timer = s.groups[k].timer
        <5> DEFINE n1 == k[1]
        <5>1. n1 \in N /\ k = <<n1, a>> /\ G[k] = one(n1).groups[k]
          BY <3>0, <3>1
        <5> HIDE DEF n1, G
        <5> QED
          BY <1>2, <3>4, <5>1
      <4> QED
        BY <4>1, <4>2
    <3> QED
      BY <3>3, <3>4
  <2>3. CASE k \notin N \X {a}
    <3>1. k # <<n, a>>
      BY <2>3
    <3>2. k \in DOMAIN s.groups
      BY <1>2, <2>1, <3>1
    <3>3. G[k] = s.groups[k]
      BY <2>3
    <3> QED
      BY <1>0, <3>2, <3>3 DEF Group
  <2> QED
    BY <2>2, <2>3
<1>7. DOMAIN G = D /\ G = [k \in D |-> G[k]]
  OBVIOUS
<1> HIDE DEF G, F, O, D, r
<1>8. /\ r.groups = G /\ r.filter = F
      /\ r = [groups |-> r.groups, filter |-> r.filter, out |-> r.out, mem |-> r.mem,
              calls |-> r.calls]
  BY <1>0, <1>1 DEF IsIgmp
<1>9. IsIgmp(r)
  BY <1>6, <1>7, <1>8 DEF IsIgmp
<1>10. IgmpKept(r)
  BY <1>4, <1>6, <1>7, <1>8, <1>9 DEF IgmpKept
<1>11. NoneLater(s, r)
  BY <1>5, <1>6, <1>7, <1>8 DEF NoneLater
<1> QED
  BY <1>10, <1>11 DEF r

(* A report of another host. *)
LEMMA OtherReportKeeps ==
  ASSUME NEW s, IgmpKept(s), NEW k \in DOMAIN s.groups,
         s.groups[k].state = "DELAYING_MEMBER"
  PROVE  LET r == [s EXCEPT !.groups[k] = [@ EXCEPT !.timer = 0, !.state = "IDLE_MEMBER",
                                                    !.last = FALSE]]
         IN  IgmpKept(r) /\ NoneLater(s, r)
<1> DEFINE h == s.groups[k]
           g == [h EXCEPT !.timer = 0, !.state = "IDLE_MEMBER", !.last = FALSE]
           r == [s EXCEPT !.groups[k] = [@ EXCEPT !.timer = 0, !.state = "IDLE_MEMBER",
                                                  !.last = FALSE]]
<1>0. /\ IsIgmp(s) /\ s.filter = DOMAIN s.groups
      /\ \A j \in DOMAIN s.groups : InUse(s.groups[j]) /\ s.groups[j] \in Group
  BY DEF IgmpKept, IsIgmp
<1>1. r = SetGroup(s, k, g)
  BY <1>0 DEF SetGroup, IsIgmp
<1>2. g \in Group /\ g.timer = 0 /\ g.state = "IDLE_MEMBER" /\ g.use = h.use
  <2>1. h \in Group
    BY <1>0
  <2>2. g = [[[h EXCEPT !.timer = 0] EXCEPT !.state = "IDLE_MEMBER"] EXCEPT !.last = FALSE]
    OBVIOUS
  <2> HIDE DEF h, g
  <2> DEFINE h1 == [h EXCEPT !.timer = 0]
             h2 == [h1 EXCEPT !.state = "IDLE_MEMBER"]
  <2>3. h1 \in Group /\ h1.timer = 0 /\ h1.use = h.use
    BY <2>1 DEF Group
  <2> HIDE DEF h1
  <2>4. h2 \in Group /\ h2.timer = 0 /\ h2.use = h.use /\ h2.state = "IDLE_MEMBER"
    BY <2>3 DEF Group
  <2>5. g = [h2 EXCEPT !.last = FALSE]
    BY <2>2 DEF h1
  <2> HIDE DEF h2
  <2> QED
    BY <2>4, <2>5 DEF Group
<1> HIDE DEF g, r
<1>3. /\ IsIgmp(r) /\ r.filter = s.filter /\ DOMAIN r.groups = DOMAIN s.groups
      /\ r.groups[k] = g
      /\ \A j \in DOMAIN s.groups : j # k => r.groups[j] = s.groups[j]
  BY <1>0, <1>1, <1>2, SetGroupIs
<1>4. InUse(g)
  BY <1>0, <1>2 DEF InUse
<1>5. IgmpKept(r)
  BY <1>0, <1>3, <1>4 DEF IgmpKept
<1>6. NoneLater(s, r)
  BY <1>0, <1>2, <1>3 DEF NoneLater, Group
<1> QED
  BY <1>5, <1>6 DEF r

(* What a step starts from and what it leaves differ from igmp and from    *)
(* what the operation returns in out, mem and calls only.                  *)
LEMMA ReadyKept ==
  ASSUME IgmpKept(igmp), NEW m
  PROVE  /\ IgmpKept(IgmpReady(m)) /\ IgmpReady(m).groups = igmp.groups
<1> DEFINE r == IgmpReady(m)
<1>1. r = [[[igmp EXCEPT !.out = {}] EXCEPT !.mem = m] EXCEPT !.calls = igmp.calls - 1]
  BY DEF IgmpReady, IgmpKept, IsIgmp
<1>2. /\ r.groups = igmp.groups /\ r.filter = igmp.filter
      /\ r = [groups |-> r.groups, filter |-> r.filter, out |-> r.out, mem |-> r.mem,
              calls |-> r.calls]
  BY <1>1 DEF IgmpKept, IsIgmp
<1> HIDE DEF r
<1>3. IgmpKept(r)
  BY <1>2 DEF IgmpKept, IsIgmp
<1> QED
  BY <1>2, <1>3 DEF r

LEMMA StepKept ==
  ASSUME IgmpKept(igmp), NEW s, s.groups = igmp.groups, NEW r,
         IgmpKept(r), NoneLater(s, r), igmp' = [r EXCEPT !.mem = "ok"]
  PROVE  IgmpKept(igmp') /\ NoneLater(igmp, igmp')
<1>1. igmp'.groups = r.groups /\ IgmpKept(igmp')
  BY DEF IgmpKept, IsIgmp
<1> QED
  BY <1>1 DEF NoneLater

LEMMA IgmpNextKeeps ==
  ASSUME IgmpKept(igmp), IgmpNext
  PROVE  IgmpKept(igmp') /\ NoneLater(igmp, igmp')
<1> DEFINE s0 == IgmpReady("ok")
<1>0. IgmpKept(s0) /\ s0.groups = igmp.groups
  BY ReadyKept
<1>1. JoinTimer \in Nat /\ \A m \in MaxResps : m \in Nat
  BY IgmpTimes
<1> HIDE DEF s0
<1>2. ASSUME NEW mem \in {"ok", "pbuf"}, IgmpTick(mem)
      PROVE  IgmpKept(igmp') /\ NoneLater(igmp, igmp')
  <2> DEFINE s == [igmp EXCEPT !.out = {}, !.mem = mem]
  <2>1. s = [[igmp EXCEPT !.out = {}] EXCEPT !.mem = mem]
    OBVIOUS
  <2>2. IgmpKept(s) /\ s.groups = igmp.groups
    <3> DEFINE sa == [igmp EXCEPT !.out = {}]
    <3>0. /\ sa.groups = igmp.groups /\ sa.filter = igmp.filter
          /\ sa = [groups |-> sa.groups, filter |-> sa.filter, out |-> sa.out, mem |-> sa.mem,
                   calls |-> sa.calls]
      BY DEF IgmpKept, IsIgmp
    <3> HIDE DEF sa
    <3>1. /\ s.groups = igmp.groups /\ s.filter = igmp.filter
          /\ s = [groups |-> s.groups, filter |-> s.filter, out |-> s.out, mem |-> s.mem,
                  calls |-> s.calls]
      <4>1. s = [sa EXCEPT !.mem = mem]
        BY <2>1 DEF sa
      <4> HIDE DEF s
      <4> QED
        BY <3>0, <4>1
    <3> HIDE DEF s
    <3> QED
      BY <3>1 DEF IgmpKept, IsIgmp
  <2>3. igmp' = [igmp_tmr(s) EXCEPT !.mem = "ok"]
    BY <1>2 DEF IgmpTick
  <2> HIDE DEF s
  <2> QED
    BY <2>2, <2>3, TmrKeeps, StepKept
<1>3. ASSUME NEW n, NEW mem, IgmpStart(n, mem)
      PROVE  IgmpKept(igmp') /\ NoneLater(igmp, igmp')
  <2> DEFINE s == IgmpReady(mem)
  <2>1. IgmpKept(s) /\ s.groups = igmp.groups
    BY ReadyKept
  <2>2. /\ <<n, allsystems>> \notin DOMAIN igmp.groups
        /\ igmp' = [igmp_start(s, n) EXCEPT !.mem = "ok"]
    BY <1>3 DEF IgmpStart, IgmpBecomes
  <2> HIDE DEF s
  <2> QED
    BY <2>1, <2>2, StartKeeps, StepKept
<1>4. ASSUME NEW n, IgmpStop(n)
      PROVE  IgmpKept(igmp') /\ NoneLater(igmp, igmp')
  <2>1. igmp' = [igmp_stop(s0, n) EXCEPT !.mem = "ok"]
    BY <1>4 DEF IgmpStop, IgmpBecomes, s0
  <2> QED
    BY <1>0, <2>1, StopKeeps, StepKept
<1>5. ASSUME NEW n, igmp_report_groups(n)
      PROVE  IgmpKept(igmp') /\ NoneLater(igmp, igmp')
  <2> DEFINE K == OnNetif(igmp, n)
  <2>1. PICK t \in [K -> TimerValues(JoinTimer)] :
          igmp' = [DelayAll(s0, K, JoinTimer, t) EXCEPT !.mem = "ok"]
    BY <1>5 DEF igmp_report_groups, IgmpBecomes, s0
  <2>2. K \in SUBSET DOMAIN s0.groups
    BY <1>0 DEF OnNetif
  <2> HIDE DEF K
  <2>3. /\ IgmpKept(DelayAll(s0, K, JoinTimer, t))
        /\ NoneLater(s0, DelayAll(s0, K, JoinTimer, t))
    BY <1>0, <1>1, <2>1, <2>2, DelayAllKeeps
  <2> QED
    BY <1>0, <2>1, <2>3, StepKept
<1>6. ASSUME NEW n, NEW m \in MaxResps, GeneralQuery(n, m)
      PROVE  IgmpKept(igmp') /\ NoneLater(igmp, igmp')
  <2> DEFINE K == OnNetif(igmp, n) \ {<<n, allsystems>>}
  <2>1. PICK t \in [K -> TimerValues(m)] :
          igmp' = [DelayAll(s0, K, m, t) EXCEPT !.mem = "ok"]
    BY <1>6 DEF GeneralQuery, IgmpBecomes, s0
  <2>2. K \in SUBSET DOMAIN s0.groups
    BY <1>0 DEF OnNetif
  <2> HIDE DEF K
  <2>3. /\ IgmpKept(DelayAll(s0, K, m, t)) /\ NoneLater(s0, DelayAll(s0, K, m, t))
    BY <1>0, <1>1, <2>1, <2>2, DelayAllKeeps
  <2> QED
    BY <1>0, <2>1, <2>3, StepKept
<1>7. ASSUME NEW n, NEW a, NEW m \in MaxResps, GroupQuery(n, a, m)
      PROVE  IgmpKept(igmp') /\ NoneLater(igmp, igmp')
  <2> DEFINE k == <<n, a>>
  <2>1. PICK t \in TimerValues(m) :
          igmp' = [igmp_delaying_member(s0, k, m, t) EXCEPT !.mem = "ok"]
    BY <1>7 DEF GroupQuery, IgmpBecomes, s0
  <2>2. k \in DOMAIN s0.groups
    BY <1>0, <1>7 DEF GroupQuery
  <2> HIDE DEF k
  <2> DEFINE r == igmp_delaying_member(s0, k, m, t)
  <2>3. /\ r = [groups |-> r.groups, filter |-> s0.filter, out |-> s0.out, mem |-> s0.mem,
                calls |-> s0.calls]
        /\ r.groups = [j \in DOMAIN s0.groups |-> r.groups[j]]
        /\ \A j \in DOMAIN s0.groups : j # k => r.groups[j] = s0.groups[j]
        /\ r.groups[k] \in Group /\ InUse(r.groups[k])
        /\ s0.groups[k].timer > 0 => r.groups[k].timer <= s0.groups[k].timer
    BY <1>0, <1>1, <2>1, <2>2, DelayingMember
  <2> HIDE DEF r
  <2>4. \A j \in DOMAIN s0.groups : InUse(s0.groups[j]) /\ s0.groups[j] \in Group
    BY <1>0 DEF IgmpKept, IsIgmp
  <2>5. ASSUME NEW j \in DOMAIN s0.groups
        PROVE  /\ r.groups[j] \in Group /\ InUse(r.groups[j])
               /\ s0.groups[j].timer > 0 => r.groups[j].timer <= s0.groups[j].timer
    <3>1. CASE j = k
      BY <2>3, <3>1
    <3>2. CASE j # k
      <4>1. r.groups[j] = s0.groups[j] /\ s0.groups[j] \in Group /\ InUse(s0.groups[j])
        BY <2>3, <2>4, <3>2
      <4> QED
        BY <4>1 DEF Group
    <3> QED
      BY <3>1, <3>2
  <2>6. r = [groups |-> r.groups, filter |-> s0.filter, out |-> r.out, mem |-> r.mem,
             calls |-> r.calls]
    BY <2>3
  <2>7. IgmpKept(r) /\ NoneLater(s0, r)
    BY <1>0, <2>3, <2>5, <2>6, NewRecords
  <2> QED
    BY <1>0, <2>1, <2>7, StepKept DEF r
<1>8. ASSUME NEW n, NEW a, OtherReport(n, a)
      PROVE  IgmpKept(igmp') /\ NoneLater(igmp, igmp')
  <2> DEFINE k == <<n, a>>
             r == [s0 EXCEPT !.groups[k] = [@ EXCEPT !.timer = 0, !.state = "IDLE_MEMBER",
                                                     !.last = FALSE]]
  <2>1. igmp' = [(IF s0.groups[k].state = "DELAYING_MEMBER" THEN r ELSE s0) EXCEPT !.mem = "ok"]
    BY <1>8 DEF OtherReport, IgmpBecomes, s0
  <2>2. k \in DOMAIN s0.groups
    BY <1>0, <1>8 DEF OtherReport
  <2> HIDE DEF k
  <2>3. CASE s0.groups[k].state = "DELAYING_MEMBER"
    <3>1. IgmpKept(r) /\ NoneLater(s0, r)
      BY <1>0, <2>2, <2>3, OtherReportKeeps
    <3> HIDE DEF r
    <3> QED
      BY <1>0, <2>1, <2>3, <3>1, StepKept
  <2>4. CASE s0.groups[k].state # "DELAYING_MEMBER"
    <3>1. NoneLater(s0, s0)
      BY <1>0 DEF NoneLater, IgmpKept, IsIgmp, Group
    <3> HIDE DEF r
    <3> QED
      BY <1>0, <2>1, <2>4, <3>1, StepKept
  <2> QED
    BY <2>3, <2>4
<1>9. ASSUME NEW n, NEW a, NEW mem, igmp_leavegroup(n, a, mem)
      PROVE  IgmpKept(igmp') /\ NoneLater(igmp, igmp')
  <2> DEFINE s == IgmpReady(mem)
             k == <<n, a>>
  <2>1. IgmpKept(s) /\ s.groups = igmp.groups
    BY ReadyKept
  <2>2. k \in DOMAIN s.groups /\ igmp' = [LeaveOn(s, k) EXCEPT !.mem = "ok"]
    BY <1>9, <2>1 DEF igmp_leavegroup, IgmpBecomes
  <2> HIDE DEF s, k
  <2> QED
    BY <2>1, <2>2, LeaveOnKeeps, StepKept
<1>10. ASSUME NEW N, N # {}, NEW a, NEW mem, igmp_joingroup(N, a, mem)
       PROVE  IgmpKept(igmp') /\ NoneLater(igmp, igmp')
  <2>1. PICK t \in [N -> TimerValues(JoinTimer)] :
          igmp' = [JoinAll(s0, N, a, mem, t) EXCEPT !.mem = "ok"]
    BY <1>10 DEF igmp_joingroup, IgmpBecomes, s0
  <2>2. /\ IgmpKept(JoinAll(s0, N, a, mem, t)) /\ NoneLater(s0, JoinAll(s0, N, a, mem, t))
    BY <1>0, <1>10, <2>1, JoinAllKeeps
  <2> QED
    BY <1>0, <2>1, <2>2, StepKept
<1>11. CASE \E mem \in {"ok", "pbuf"} : IgmpTick(mem)
  BY <1>2, <1>11
<1>12. CASE \E n \in IgmpNetifs : \E mem \in {"ok", "group"} : IgmpStart(n, mem)
  BY <1>3, <1>12
<1>13. CASE \E n \in IgmpNetifs : IgmpStop(n) \/ igmp_report_groups(n)
  BY <1>4, <1>5, <1>13
<1>14. CASE \E n \in IgmpNetifs : \E m \in MaxResps :
              GeneralQuery(n, m) \/ \E a \in Groups : GroupQuery(n, a, m)
  BY <1>6, <1>7, <1>14
<1>15. CASE \E n \in IgmpNetifs : \E a \in Groups :
              OtherReport(n, a) \/ \E mem \in {"ok", "pbuf"} : igmp_leavegroup(n, a, mem)
  BY <1>8, <1>9, <1>15
<1>16. CASE \E N \in (SUBSET IgmpNetifs) \ {{}}, a \in Groups :
              \E mem \in JoinResults(N) : igmp_joingroup(N, a, mem)
  <2>1. PICK N \in (SUBSET IgmpNetifs) \ {{}}, a \in Groups :
          \E mem \in JoinResults(N) : igmp_joingroup(N, a, mem)
    BY <1>16
  <2>2. PICK mem \in JoinResults(N) : igmp_joingroup(N, a, mem)
    BY <2>1
  <2>3. N # {}
    BY <2>1
  <2> QED
    BY <1>10, <2>2, <2>3
<1> QED
  BY <1>11, <1>12, <1>13, <1>14, <1>15, <1>16, Zenon DEF IgmpNext

(* The inductive invariant of IGMP. *)
IgmpInv == IgmpKept(igmp)

LEMMA IgmpInductive ==
  /\ IgmpInit => IgmpInv
  /\ IgmpInv /\ [IgmpNext]_igmp => IgmpInv'
<1>1. ASSUME IgmpInit PROVE IgmpInv
  <2> DEFINE G == [k \in {} |-> NewGroup]
  <2>1. igmp = [groups |-> G, filter |-> {}, out |-> {}, mem |-> "ok", calls |-> IgmpCalls]
    BY <1>1 DEF IgmpInit, igmp_init
  <2>2. DOMAIN G = {} /\ G \in [{} -> Group]
    OBVIOUS
  <2> HIDE DEF G
  <2> QED
    BY <2>1, <2>2 DEF IgmpInv, IgmpKept, IsIgmp
<1>2. ASSUME IgmpInv, UNCHANGED igmp PROVE IgmpInv'
  BY <1>2 DEF IgmpInv
<1>3. ASSUME IgmpInv, IgmpNext PROVE IgmpInv'
  BY <1>3, IgmpNextKeeps DEF IgmpInv
<1> QED
  BY <1>1, <1>2, <1>3

(* IgmpSound: after any joins, also ones that fail half way, leaves,       *)
(* queries, reports of others and stops, the driver's filter is the group  *)
(* list, every group in it is in use, and a timer runs only for a group    *)
(* that owes a report.                                                     *)
THEOREM GroupsAndFiltersAgree == IgmpSpec => []IgmpSound
<1>1. IgmpInv => IgmpSound
  BY DEF IgmpInv, IgmpKept, IgmpSound, FilterMatchesGroups, IgmpOK, InUse
<1> QED
  BY <1>1, IgmpInductive, PTL DEF IgmpSpec

(* TimerOnlyShortens: no query, join or start puts off a report that is    *)
(* due.                                                                    *)
THEOREM ReportsNotPutOff == IgmpSpec => TimerOnlyShortens
<1> DEFINE A == \A k \in DOMAIN igmp.groups \cap DOMAIN igmp'.groups :
                  igmp.groups[k].timer > 0 => igmp'.groups[k].timer <= igmp.groups[k].timer
<1>1. IgmpInv /\ [IgmpNext]_igmp => [A]_igmp
  BY IgmpNextKeeps DEF IgmpInv, NoneLater
<1>2. IgmpSpec => [][A]_igmp
  BY <1>1, IgmpInductive, PTL DEF IgmpSpec
<1> QED
  BY <1>2 DEF TimerOnlyShortens
-----------------------------------------------------------------------------
(***************************************************************************)
(* DNS.  Values s of dns again.                                            *)
(***************************************************************************)
EntryFields == {"state", "numdns", "tmr", "retries", "seqno", "ttl", "name", "found"}
IsEntry(e) == e = [f \in EntryFields |-> e[f]]

(* A table of entries for n requests. *)
IsTable(T, n) ==
  /\ T = [i \in Slots |-> T[i]]
  /\ \A i \in Slots : IsEntry(T[i]) /\ T[i].found \in 0..n

DnsFields == {"table", "seqno", "servers", "peer", "sent", "asked", "open", "result", "twice", "nomem"}
IsDns(s) ==
  /\ s = [f \in DnsFields |-> s[f]]
  /\ IsTable(s.table, Len(s.asked))
  /\ s.asked \in Seq(Names) /\ s.open \subseteq 1..Len(s.asked)
  /\ s.result \in Seq({NoResult, Failed} \cup Names) /\ Len(s.result) = Len(s.asked)
  /\ s.twice = FALSE
  /\ \A q \in s.sent : q.id \in Slots /\ q.name \in Names

(* Entry i waits for an answer; x is an entry whose callback has just been *)
(* called and that is about to be cleared, or DNS_TABLE_SIZE.              *)
Waits(T, x, i) == i # x /\ T[i].state = "ASKING"

(* The callbacks due are those of the entries that wait, one each. *)
OneEach(T, O, x) ==
  /\ \A i \in Slots : Waits(T, x, i) <=> T[i].found \in O
  /\ \A i, j \in Slots : T[i].found \in O /\ T[i].found = T[j].found => i = j
  /\ \A id \in O : \E i \in Slots : T[i].found = id

(* An entry that waits holds the name its caller asked for. *)
OwnNames(T, O, a) == \A i \in Slots : T[i].found \in O => T[i].name = a[T[i].found]

OwnResults(a, r) == \A k \in 1..Len(a) : r[k] \in {NoResult, Failed, a[k]}

DnsKept(s, x) ==
  /\ IsDns(s) /\ OneEach(s.table, s.open, x)
  /\ OwnNames(s.table, s.open, s.asked) /\ OwnResults(s.asked, s.result)

NoSlot == DNS_TABLE_SIZE

LEMMA NoSlotIs == NoSlot \notin Slots /\ \A i \in Slots : i # NoSlot
BY DnsSizes DEF NoSlot, Slots

(* An entry gets a new record. *)
SetEntry(s, i, e) == [s EXCEPT !.table = [s.table EXCEPT ![i] = e]]

LEMMA SetEntryIs ==
  ASSUME NEW s, IsDns(s), NEW i \in Slots, NEW e, IsEntry(e), e.found \in 0..Len(s.asked)
  PROVE  LET r == SetEntry(s, i, e)
         IN  /\ IsDns(r)
             /\ r.asked = s.asked /\ r.open = s.open /\ r.result = s.result /\ r.sent = s.sent
             /\ r.table[i] = e /\ \A j \in Slots : j # i => r.table[j] = s.table[j]
<1> DEFINE T == [s.table EXCEPT ![i] = e]
           r == [s EXCEPT !.table = T]
<1>1. /\ T = [j \in Slots |-> T[j]]
      /\ \A j \in Slots : IsEntry(T[j]) /\ T[j].found \in 0..Len(s.asked)
      /\ T[i] = e /\ \A j \in Slots : j # i => T[j] = s.table[j]
  <2>1. IsTable(s.table, Len(s.asked))
    BY DEF IsDns
  <2> QED
    BY <2>1 DEF IsTable
<1> HIDE DEF T
<1>2. /\ r = [f \in DnsFields |-> r[f]] /\ r.table = T /\ r.asked = s.asked /\ r.open = s.open
      /\ r.result = s.result /\ r.sent = s.sent /\ r.twice = s.twice
  BY DEF IsDns, DnsFields
<1> HIDE DEF r
<1>3. IsDns(r)
  BY <1>1, <1>2 DEF IsDns, IsTable
<1> QED
  BY <1>1, <1>2, <1>3 DEF T, r, SetEntry

(* A wait that goes on, and the life of an answer. *)
LEMMA EntryKeeps ==
  ASSUME NEW s, NEW x, DnsKept(s, x), NEW i \in Slots, NEW e, IsEntry(e),
         e.state = s.table[i].state, e.found = s.table[i].found, e.name = s.table[i].name
  PROVE  DnsKept(SetEntry(s, i, e), x) /\ SetEntry(s, i, e).table[i] = e
<1> DEFINE T == s.table
           r == SetEntry(s, i, e)
           U == r.table
<1>1. /\ IsDns(s) /\ OneEach(T, s.open, x) /\ OwnNames(T, s.open, s.asked)
      /\ e.found \in 0..Len(s.asked)
  BY DEF DnsKept, IsDns, IsTable
<1>2. /\ IsDns(r) /\ r.asked = s.asked /\ r.open = s.open /\ r.result = s.result
      /\ U[i] = e /\ \A j \in Slots : j # i => U[j] = T[j]
  BY <1>1, SetEntryIs
<1> HIDE DEF T, U, r
<1>3. \A j \in Slots : U[j].state = T[j].state /\ U[j].found = T[j].found /\ U[j].name = T[j].name
  BY <1>2 DEF T
<1>5. OneEach(U, s.open, x) /\ OwnNames(U, s.open, s.asked)
  BY <1>1, <1>3 DEF OneEach, OwnNames, Waits
<1> QED
  BY <1>2, <1>5 DEF DnsKept, r, U

(* A query is sent for a name that is asked for. *)
LEMMA SendKeepsDns ==
  ASSUME NEW s, NEW x, DnsKept(s, x), NEW i \in Slots, s.table[i].name \in Names
  PROVE  DnsKept(dns_send(s, i), x) /\ dns_send(s, i).table = s.table
<1> DEFINE e == s.table[i]
           q == [id |-> i, name |-> e.name, server |-> e.numdns]
           Q == s.sent \cup {q}
           r == [s EXCEPT !.peer = e.numdns, !.sent = Q]
<1>1. CASE s.nomem
  BY <1>1 DEF dns_send
<1>2. CASE ~s.nomem
  <2>1. dns_send(s, i) = r
    BY <1>2 DEF dns_send
  <2>2. \A z \in Q : z.id \in Slots /\ z.name \in Names
    BY DEF DnsKept, IsDns
  <2> HIDE DEF q, Q
  <2>3. /\ r = [f \in DnsFields |-> r[f]] /\ r.table = s.table /\ r.asked = s.asked
        /\ r.open = s.open /\ r.result = s.result /\ r.sent = Q /\ r.twice = s.twice
    BY DEF DnsKept, IsDns, DnsFields
  <2> HIDE DEF r
  <2>4. DnsKept(r, x) /\ r.table = s.table
    BY <2>2, <2>3 DEF DnsKept, IsDns
  <2> QED
    BY <2>1, <2>4
<1> QED
  BY <1>1, <1>2

(* The callback of entry i is called, with what its caller may be told: it *)
(* is no longer due.                                                       *)
CalledBack(s, i, result) ==
  LET id == s.table[i].found
  IN  [s EXCEPT !.open = @ \ {id}, !.twice = @ \/ id \notin s.open, !.result[id] = result]

LEMMA CalledBackKeeps ==
  ASSUME NEW s, DnsKept(s, NoSlot), NEW i \in Slots, s.table[i].state = "ASKING",
         NEW e, IsEntry(e), e.found = s.table[i].found,
         NEW result, result \in {Failed, s.table[i].name}
  PROVE  LET r == CalledBack(SetEntry(s, i, e), i, result)
         IN  DnsKept(r, i) /\ r.table[i] = e
<1> DEFINE s1 == SetEntry(s, i, e)
           id == s.table[i].found
           O == s.open \ {id}
           R == [s.result EXCEPT ![id] = result]
           r == [s1 EXCEPT !.open = O, !.twice = FALSE, !.result = R]
           T == s.table
           U == s1.table
<1>1. IsDns(s) /\ OneEach(T, s.open, NoSlot) /\ OwnNames(T, s.open, s.asked) /\ OwnResults(s.asked, s.result)
  BY DEF DnsKept
<1>2. /\ IsDns(s1) /\ s1.asked = s.asked /\ s1.open = s.open /\ s1.result = s.result /\ s1.sent = s.sent
      /\ U[i] = e /\ \A j \in Slots : j # i => U[j] = T[j]
  <2>1. e.found \in 0..Len(s.asked)
    BY <1>1 DEF IsDns, IsTable
  <2> QED
    BY <1>1, <2>1, SetEntryIs
<1>3. id \in s.open /\ T[i].name = s.asked[id] /\ id \in 1..Len(s.asked) /\ s.asked[id] \in Names
  <2>1. id \in s.open
    BY <1>1, NoSlotIs DEF OneEach, Waits
  <2>2. T[i].name = s.asked[id] /\ id \in 1..Len(s.asked)
    BY <1>1, <2>1 DEF OwnNames, IsDns
  <2>3. s.asked \in Seq(Names)
    BY <1>1 DEF IsDns
  <2> HIDE DEF id, T
  <2>4. s.asked[id] \in Names
    BY <2>2, <2>3, ElementOfSeq
  <2> QED
    BY <2>1, <2>2, <2>4
<1>4. CalledBack(s1, i, result) = r
  <2>1. s1.table[i].found = id /\ (s1.twice \/ id \notin s1.open) = FALSE
    BY <1>2, <1>3 DEF IsDns
  <2> HIDE DEF s1
  <2> QED
    BY <1>2, <2>1 DEF CalledBack
<1>5. /\ R \in Seq({NoResult, Failed} \cup Names) /\ Len(R) = Len(s.asked)
      /\ OwnResults(s.asked, R)
  <2>1. s.result \in Seq({NoResult, Failed} \cup Names) /\ Len(s.result) = Len(s.asked)
    BY <1>1 DEF IsDns
  <2>2. OwnResults(s.asked, s.result)
    BY <1>1
  <2>3. result \in {Failed, s.asked[id]}
    BY <1>3
  <2> HIDE DEF id
  <2> QED
    BY <1>3, <2>1, <2>2, <2>3 DEF OwnResults
<1>6. OneEach(U, O, i) /\ OwnNames(U, O, s.asked) /\ O \subseteq 1..Len(s.asked)
  <2>1. U[i].found = id /\ \A j \in Slots : U[j].found = T[j].found
    BY <1>2
  <2>2. \A j \in Slots : Waits(U, i, j) <=> j # i /\ Waits(T, NoSlot, j)
    BY <1>2, NoSlotIs DEF Waits
  <2>3. \A j \in Slots : T[j].found \in O <=> j # i /\ T[j].found \in s.open
    BY <1>1, <1>3 DEF OneEach
  <2>4. \A j \in Slots : j # i => U[j].name = T[j].name
    BY <1>2
  <2> HIDE DEF U, T, O, id, s1
  <2>5. O \subseteq s.open
    BY DEF O
  <2>6. OneEach(U, O, i)
    BY <1>1, <2>1, <2>2, <2>3, <2>5 DEF OneEach
  <2>7. OwnNames(U, O, s.asked)
    BY <1>1, <2>1, <2>3, <2>4 DEF OwnNames
  <2> QED
    BY <1>1, <2>5, <2>6, <2>7 DEF IsDns
<1> HIDE DEF s1, O, R
<1>7. /\ r = [f \in DnsFields |-> r[f]] /\ r.table = s1.table /\ r.asked = s1.asked
      /\ r.open = O /\ r.result = R /\ r.sent = s1.sent /\ r.twice = FALSE
  BY <1>2 DEF IsDns, DnsFields
<1> HIDE DEF r
<1> QED
  BY <1>2, <1>4, <1>5, <1>6, <1>7 DEF DnsKept, IsDns, s1

(* An entry that is cleared. *)
LEMMA UnusedKeeps ==
  ASSUME NEW s, NEW i \in Slots, DnsKept(s, i)
  PROVE  DnsKept(Unused(s, i), NoSlot)
<1> DEFINE T == s.table
           e == [T[i] EXCEPT !.state = "UNUSED", !.found = 0]
           r == SetEntry(s, i, e)
           U == r.table
<1>1. IsDns(s) /\ OneEach(T, s.open, i) /\ OwnNames(T, s.open, s.asked) /\ OwnResults(s.asked, s.result)
  BY DEF DnsKept
<1>2. IsEntry(e) /\ e.state = "UNUSED" /\ e.found = 0
  <2>1. IsEntry(T[i])
    BY <1>1 DEF IsDns, IsTable
  <2> HIDE DEF T
  <2> QED
    BY <2>1 DEF IsEntry, EntryFields
<1>3. Unused(s, i) = r
  BY DEF Unused, SetEntry
<1> HIDE DEF e
<1>4. /\ IsDns(r) /\ r.asked = s.asked /\ r.open = s.open /\ r.result = s.result
      /\ U[i] = e /\ \A j \in Slots : j # i => U[j] = T[j]
  <2>1. e.found \in 0..Len(s.asked)
    BY <1>1, <1>2 DEF IsDns, IsTable
  <2> QED
    BY <1>1, <1>2, <2>1, SetEntryIs
<1>5. 0 \notin s.open /\ T[i].found \notin s.open
  <2>1. s.open \subseteq 1..Len(s.asked)
    BY <1>1 DEF IsDns
  <2>2. T[i].found \notin s.open
    BY <1>1 DEF OneEach, Waits
  <2> QED
    BY <2>1, <2>2
<1> HIDE DEF T, U, r
<1>6. /\ U[i].found \notin s.open /\ ~Waits(U, NoSlot, i)
      /\ \A j \in Slots : j # i => /\ U[j].found = T[j].found /\ U[j].name = T[j].name
                                   /\ Waits(U, NoSlot, j) <=> Waits(T, i, j)
  BY <1>2, <1>4, <1>5, NoSlotIs DEF Waits
<1>7. OneEach(U, s.open, NoSlot) /\ OwnNames(U, s.open, s.asked)
  BY <1>1, <1>5, <1>6 DEF OneEach, OwnNames
<1> QED
  BY <1>1, <1>3, <1>4, <1>7 DEF DnsKept, U

(* A place for a request is an entry that nobody waits for. *)
LEMMA PlacedFree ==
  ASSUME NEW s, NEW j \in Placed(s)
  PROVE  j \in Slots /\ s.table[j].state # "ASKING"
<1>1. CASE Free(s) # {}
  <2>1. Free(s) \in SUBSET Nat
    BY DnsSizes DEF Free, Slots
  <2>2. \E m \in Free(s) : \A y \in Free(s) : m <= y
    BY <1>1, <2>1, LeastNat
  <2>3. Min(Free(s)) \in Free(s)
    BY <2>2 DEF Min
  <2>4. j = Min(Free(s))
    BY <1>1 DEF Placed
  <2> QED
    BY <2>3, <2>4 DEF Free
<1>2. CASE Free(s) = {}
  BY <1>2 DEF Placed
<1> QED
  BY <1>1, <1>2

(* A request finds a place, or is refused and its caller told at once. *)
LEMMA EnqueueKeeps ==
  ASSUME NEW s, NEW x, DnsKept(s, x), NEW name \in Names,
         x \in Slots => s.table[x].state = "ASKING"
  PROVE  DnsKept(dns_enqueue(s, name), x)
<1> DEFINE id == Len(s.asked) + 1
           a == Append(s.asked, name)
           R == Append(s.result, NoResult)
           s1 == [s EXCEPT !.asked = a, !.result = R]
           T == s.table
<1>1. IsDns(s) /\ OneEach(T, s.open, x) /\ OwnNames(T, s.open, s.asked) /\ OwnResults(s.asked, s.result)
  BY DEF DnsKept
<1>2. /\ a \in Seq(Names) /\ Len(a) = id /\ id \in Nat \ {0} /\ a[id] = name
      /\ \A k \in 1..Len(s.asked) : a[k] = s.asked[k] /\ k \in 1..id
      /\ R \in Seq({NoResult, Failed} \cup Names) /\ Len(R) = id /\ R[id] = NoResult
      /\ \A k \in 1..Len(s.asked) : R[k] = s.result[k]
  BY <1>1 DEF IsDns
<1>3. OwnResults(a, R)
  BY <1>1, <1>2 DEF OwnResults
<1>4. id \notin s.open /\ s.open \subseteq 1..id
  <2>1. s.open \subseteq 1..Len(s.asked)
    BY <1>1 DEF IsDns
  <2>2. Len(s.asked) \in Nat
    BY <1>1 DEF IsDns
  <2> QED
    BY <2>1, <2>2
<1>5. OwnNames(T, s.open, a)
  BY <1>1, <1>2 DEF OwnNames, IsDns
<1> HIDE DEF a, R
<1>6. /\ s1 = [f \in DnsFields |-> s1[f]] /\ s1.table = T /\ s1.asked = a /\ s1.open = s.open
      /\ s1.result = R /\ s1.sent = s.sent /\ s1.twice = s.twice /\ s1.seqno = s.seqno
  BY <1>1 DEF IsDns, DnsFields
<1> HIDE DEF s1
<1>7. DnsKept(s1, x)
  <2>1. IsTable(T, Len(s.asked)) /\ Len(s.asked) \in Nat
    BY <1>1 DEF IsDns
  <2>2. IsTable(T, id)
    BY <2>1 DEF IsTable
  <2> QED
    BY <1>1, <1>2, <1>3, <1>4, <1>5, <1>6, <2>2 DEF DnsKept, IsDns
<1>8. CASE Placed(s) = {}
  BY <1>7, <1>8 DEF dns_enqueue, s1, a, R
<1>9. CASE Placed(s) # {}
  <2> DEFINE i == CHOOSE j \in Placed(s) : TRUE
             e1 == [T[i] EXCEPT !.state = "NEW", !.seqno = s.seqno, !.name = name, !.found = id]
             n == (s1.seqno + 1) % SeqnoMod
             O == s.open \cup {id}
             s2 == [s1 EXCEPT !.table[i] = e1, !.seqno = n, !.open = O]
             e2 == [e1 EXCEPT !.state = "ASKING", !.numdns = 0, !.tmr = 1, !.retries = 0]
             s3 == SetEntry(s2, i, e2)
  <2>1. i \in Placed(s)
    BY <1>9
  <2>2. i \in Slots /\ T[i].state # "ASKING" /\ i # x
    BY <2>1, PlacedFree
  <2> HIDE DEF i
  <2>3. IsEntry(e1) /\ IsEntry(e2) /\ e2.state = "ASKING" /\ e2.name = name /\ e2.found = id /\ e1.found = id
    <3>1. IsEntry(T[i])
      BY <1>1, <2>2 DEF IsDns, IsTable
    <3> HIDE DEF T
    <3>2. IsEntry(e1) /\ e1.name = name /\ e1.found = id
      BY <3>1 DEF IsEntry, EntryFields
    <3> HIDE DEF e1
    <3> QED
      BY <3>2 DEF IsEntry, EntryFields
  <2>4. dns_enqueue(s, name) = FirstAsk(s2, i)
    <3>1. s2 = [s1 EXCEPT !.table[i] = e1, !.seqno = (@ + 1) % SeqnoMod, !.open = @ \cup {id}]
      BY <1>6
    <3> QED
      BY <1>9, <3>1 DEF dns_enqueue, s1, a, R, i
  <2>5. IsDns(s2) /\ s2.open = O /\ s2.asked = a /\ s2.result = R /\ s2.table = [T EXCEPT ![i] = e1]
    <3> DEFINE W == [T EXCEPT ![i] = e1]
    <3>a. IsTable(T, Len(s.asked)) /\ Len(s.asked) \in Nat
      BY <1>1 DEF IsDns
    <3>1. IsTable(W, id)
      <4> HIDE DEF T, e1
      <4>1. W = [j \in Slots |-> W[j]]
        BY <3>a DEF IsTable
      <4>2. \A j \in Slots : W[j] = IF j = i THEN e1 ELSE T[j]
        BY <3>a DEF IsTable
      <4> HIDE DEF W
      <4> QED
        BY <2>3, <3>a, <4>1, <4>2, SMTT(30) DEF IsTable
    <3>2. O \subseteq 1..id
      BY <1>2, <1>4
    <3> HIDE DEF e1, n, O
    <3>3. s2 = [s1 EXCEPT !.table = W, !.seqno = n, !.open = O]
      BY <1>6
    <3> HIDE DEF W, s2
    <3>4. /\ s2 = [f \in DnsFields |-> s2[f]] /\ s2.table = W /\ s2.asked = a /\ s2.open = O
          /\ s2.result = R /\ s2.sent = s1.sent /\ s2.twice = s1.twice
      BY <1>6, <3>3 DEF DnsFields
    <3>5. IsDns(s2)
      BY <1>1, <1>2, <1>6, <3>1, <3>2, <3>4 DEF IsDns
    <3> QED
      BY <3>4, <3>5 DEF W
  <2>6. FirstAsk(s2, i) = dns_send(s3, i)
    <3>1. s2.table[i] = e1
      BY <1>1, <2>2, <2>5 DEF IsDns, IsTable
    <3> HIDE DEF s2, e1
    <3> QED
      BY <3>1 DEF FirstAsk, SetEntry
  <2>7. /\ IsDns(s3) /\ s3.open = O /\ s3.asked = a /\ s3.result = R
        /\ s3.table[i] = e2 /\ \A j \in Slots : j # i => s3.table[j] = T[j]
    <3>1. \A j \in Slots : j # i => s2.table[j] = T[j]
      BY <1>1, <2>2, <2>5 DEF IsDns, IsTable
    <3>2. e2.found \in 0..Len(s2.asked)
      BY <1>2, <2>3, <2>5
    <3> HIDE DEF s2, e1, e2, O, n, T
    <3>3. /\ IsDns(s3) /\ s3.open = s2.open /\ s3.asked = s2.asked /\ s3.result = s2.result
          /\ s3.table[i] = e2 /\ \A j \in Slots : j # i => s3.table[j] = s2.table[j]
      <4>1. IsDns(s2) /\ i \in Slots /\ IsEntry(e2)
        BY <2>2, <2>3, <2>5
      <4> QED
        BY <3>2, <4>1, SetEntryIs
    <3> QED
      BY <2>5, <3>1, <3>3
  <2> DEFINE U == s3.table
  <2> HIDE DEF s2, s3, e1, e2, T, U
  <2>8. OneEach(U, O, x) /\ OwnNames(U, O, a)
    <3>1. /\ Waits(U, x, i) /\ U[i].found = id /\ U[i].name = name
          /\ \A j \in Slots : j # i => /\ U[j].found = T[j].found /\ U[j].name = T[j].name
                                       /\ Waits(U, x, j) <=> Waits(T, x, j)
      BY <2>2, <2>3, <2>7 DEF Waits, U
    <3>2. T[i].found \notin s.open /\ ~Waits(T, x, i)
      BY <1>1, <2>2 DEF OneEach, Waits
    <3>3. \A j \in Slots : T[j].found # id
      BY <1>1 DEF IsDns, IsTable, T
    <3>4. id \in O /\ \A k : k # id => (k \in O <=> k \in s.open)
      OBVIOUS
    <3>5. a[id] = name /\ \A k \in s.open : a[k] = s.asked[k]
      BY <1>1, <1>2 DEF IsDns
    <3> HIDE DEF O, id
    <3>6. OneEach(U, O, x)
      BY <1>1, <2>2, <3>1, <3>2, <3>3, <3>4 DEF OneEach
    <3>7. OwnNames(U, O, a)
      BY <1>1, <2>2, <3>1, <3>3, <3>4, <3>5 DEF OwnNames
    <3> QED
      BY <3>6, <3>7
  <2>9. DnsKept(s3, x)
    BY <1>3, <2>7, <2>8 DEF DnsKept, U
  <2> QED
    BY <2>2, <2>3, <2>4, <2>6, <2>7, <2>9, SendKeepsDns
<1> QED
  BY <1>8, <1>9

LEMMA AskKeeps ==
  ASSUME NEW s, NEW x, DnsKept(s, x), NEW name \in Names \cup {NoName},
         x \in Slots => s.table[x].state = "ASKING"
  PROVE  DnsKept(dns_gethostbyname(s, name), x)
<1>1. CASE name = NoName \/ Len(s.asked) = DnsCalls
  BY <1>1 DEF dns_gethostbyname
<1>2. CASE ~(name = NoName \/ Len(s.asked) = DnsCalls)
  <2>1. name \in Names
    BY <1>2
  <2>2. dns_gethostbyname(s, name) = dns_enqueue(s, name)
    BY <1>2 DEF dns_gethostbyname
  <2> QED
    BY <2>1, <2>2, EnqueueKeeps
<1> QED
  BY <1>1, <1>2

(* For an entry that is done nothing is pending. *)
LEMMA DoneIsKept ==
  ASSUME NEW s, NEW i \in Slots, s.table[i].state # "ASKING"
  PROVE  DnsKept(s, i) <=> DnsKept(s, NoSlot)
<1>1. \A j \in Slots : Waits(s.table, i, j) <=> Waits(s.table, NoSlot, j)
  BY NoSlotIs DEF Waits
<1>2. OneEach(s.table, s.open, i) <=> OneEach(s.table, s.open, NoSlot)
  BY <1>1 DEF OneEach
<1> QED
  BY <1>2 DEF DnsKept

(* found() is called for an entry that waited: its record e is what it is  *)
(* just then.                                                              *)
LEMMA FoundKeeps ==
  ASSUME NEW s, DnsKept(s, NoSlot), NEW i \in Slots, s.table[i].state = "ASKING",
         NEW e, IsEntry(e), e.found = s.table[i].found,
         NEW result, result \in {Failed, s.table[i].name},
         NEW why, NEW again \in Names \cup {NoName}
  PROVE  LET r == Found(SetEntry(s, i, e), i, result, why, again)
         IN  /\ e.state = "ASKING" => DnsKept(r, i)
             /\ e.state # "ASKING" => DnsKept(r, NoSlot)
             /\ e.state # "ASKING" /\ why \notin AskAgainOn => DnsKept(r, i)
<1> DEFINE s0 == SetEntry(s, i, e)
           s1 == CalledBack(s0, i, result)
           r == Found(s0, i, result, why, again)
<1>1. DnsKept(s1, i) /\ s1.table[i] = e
  BY CalledBackKeeps
<1>2. s0.table[i].found # 0
  <2>1. IsDns(s) /\ s.table[i].found \in s.open /\ s.open \subseteq 1..Len(s.asked)
    BY NoSlotIs DEF DnsKept, OneEach, Waits, IsDns
  <2>2. s.table[i].found # 0 /\ e.found \in 0..Len(s.asked)
    <3>1. IsTable(s.table, Len(s.asked))
      BY <2>1 DEF IsDns
    <3> QED
      BY <2>1, <3>1 DEF IsTable
  <2>3. s0.table[i] = e
    BY <2>1, <2>2, SetEntryIs
  <2> QED
    BY <2>2, <2>3
<1>3. r = IF why \in AskAgainOn THEN dns_gethostbyname(s1, again) ELSE s1
  <2> HIDE DEF s0
  <2> QED
    BY <1>2 DEF Found, CalledBack
<1> HIDE DEF s0, s1, r
<1>4. ASSUME e.state = "ASKING" PROVE DnsKept(r, i)
  BY <1>1, <1>3, <1>4, AskKeeps
<1>5. ASSUME e.state # "ASKING" PROVE DnsKept(r, NoSlot)
  <2>1. DnsKept(s1, NoSlot)
    BY <1>1, <1>5, DoneIsKept
  <2> QED
    BY <1>3, <2>1, AskKeeps, NoSlotIs
<1>6. ASSUME e.state # "ASKING", why \notin AskAgainOn PROVE DnsKept(r, i)
  BY <1>1, <1>3, <1>6
<1> QED
  BY <1>4, <1>5, <1>6 DEF r, s0

(* The name of an entry that waits is one of Names. *)
LEMMA NameOf ==
  ASSUME NEW s, DnsKept(s, NoSlot), NEW i \in Slots, s.table[i].state = "ASKING"
  PROVE  s.table[i].name \in Names
<1>1. s.table[i].found \in s.open
  BY NoSlotIs DEF DnsKept, OneEach, Waits
<1>2. s.table[i].name = s.asked[s.table[i].found]
  BY <1>1 DEF DnsKept, OwnNames
<1>3. s.asked \in Seq(Names) /\ s.open \subseteq 1..Len(s.asked)
  BY DEF DnsKept, IsDns
<1> QED
  BY <1>1, <1>2, <1>3

LEMMA EntryOf ==
  ASSUME NEW s, DnsKept(s, NoSlot), NEW i \in Slots
  PROVE  IsEntry(s.table[i])
BY DEF DnsKept, IsDns, IsTable

(* The timer at one entry. *)
LEMMA RetryKeeps ==
  ASSUME NEW s, DnsKept(s, NoSlot), NEW i \in Slots, s.table[i].state = "ASKING",
         NEW again \in Names \cup {NoName}
  PROVE  DnsKept(Retry(s, i, again), NoSlot)
<1> DEFINE e == s.table[i]
           r == e.retries + 1
           e1 == [e EXCEPT !.retries = r, !.tmr = r]
           e2 == [e EXCEPT !.numdns = e.numdns + 1, !.tmr = 1, !.retries = 0]
           e3 == [e EXCEPT !.retries = r, !.tmr = 0]
<1>1. /\ IsEntry(e1) /\ e1.state = e.state /\ e1.found = e.found /\ e1.name = e.name
      /\ IsEntry(e2) /\ e2.state = e.state /\ e2.found = e.found /\ e2.name = e.name
      /\ IsEntry(e3) /\ e3.state = e.state /\ e3.found = e.found
  <2>1. IsEntry(e)
    BY EntryOf
  <2> HIDE DEF e, r
  <2> QED
    BY <2>1 DEF IsEntry, EntryFields
<1>2. e.name \in Names
  BY NameOf
<1> HIDE DEF e1, e2, e3
<1>3. CASE r # DNS_MAX_RETRIES
  <2> DEFINE s1 == SetEntry(s, i, e1)
  <2>1. DnsKept(s1, NoSlot) /\ s1.table[i] = e1
    BY <1>1, EntryKeeps
  <2>2. Retry(s, i, again) = dns_send(s1, i)
    BY <1>3 DEF Retry, SetEntry, e1
  <2> HIDE DEF s1
  <2> QED
    BY <1>1, <1>2, <2>1, <2>2, SendKeepsDns
<1>4. CASE r = DNS_MAX_RETRIES /\ NextServer(s, e)
  <2>1. Retry(s, i, again) = SetEntry(s, i, e2)
    BY <1>4 DEF Retry, SetEntry, e2
  <2> QED
    BY <1>1, <2>1, EntryKeeps
<1>5. CASE r = DNS_MAX_RETRIES /\ ~NextServer(s, e)
  <2> DEFINE f == Found(SetEntry(s, i, e3), i, Failed, "timeout", again)
  <2>1. DnsKept(f, i)
    BY <1>1, FoundKeeps
  <2>2. Retry(s, i, again) = Unused(f, i)
    BY <1>5 DEF Retry, SetEntry, e3
  <2> HIDE DEF f
  <2> QED
    BY <2>1, <2>2, UnusedKeeps
<1> QED
  BY <1>3, <1>4, <1>5

LEMMA CheckEntryKeeps ==
  ASSUME NEW s, DnsKept(s, NoSlot), NEW i \in Slots, NEW again \in Names \cup {NoName}
  PROVE  DnsKept(dns_check_entry(s, i, again), NoSlot)
<1> DEFINE e == s.table[i]
           t == (e.ttl - 1) % TtlMod
           e1 == [e EXCEPT !.tmr = e.tmr - 1]
           e2 == [e EXCEPT !.ttl = t]
<1>1. /\ IsEntry(e1) /\ e1.state = e.state /\ e1.found = e.found /\ e1.name = e.name
      /\ IsEntry(e2) /\ e2.state = e.state /\ e2.found = e.found /\ e2.name = e.name
  <2>1. IsEntry(e)
    BY EntryOf
  <2> HIDE DEF e, t
  <2> QED
    BY <2>1 DEF IsEntry, EntryFields
<1>2. CASE e.state = "ASKING" /\ e.tmr = 1
  BY <1>2, RetryKeeps DEF dns_check_entry
<1>3. CASE e.state = "ASKING" /\ e.tmr # 1
  <2>1. dns_check_entry(s, i, again) = SetEntry(s, i, e1)
    BY <1>3 DEF dns_check_entry, SetEntry
  <2> HIDE DEF e1
  <2> QED
    BY <1>1, <2>1, EntryKeeps
<1>4. CASE e.state = "DONE" /\ t = 0
  <2>1. dns_check_entry(s, i, again) = Unused(s, i)
    BY <1>4 DEF dns_check_entry
  <2> QED
    BY <1>4, <2>1, DoneIsKept, UnusedKeeps
<1>5. CASE e.state = "DONE" /\ t # 0
  <2>1. dns_check_entry(s, i, again) = SetEntry(s, i, e2)
    BY <1>5 DEF dns_check_entry, SetEntry
  <2> HIDE DEF e2
  <2> QED
    BY <1>1, <2>1, EntryKeeps
<1>6. CASE e.state \notin {"ASKING", "DONE"}
  BY <1>6 DEF dns_check_entry
<1> QED
  BY <1>2, <1>3, <1>4, <1>5, <1>6

(* Checked as the equation it was written as. *)
LEMMA CheckedUnfold ==
  ASSUME NEW s, NEW again
  PROVE  Checked(s, again) =
           [i \in 0..DNS_TABLE_SIZE |->
              IF i = 0 THEN s ELSE dns_check_entry(Checked(s, again)[i - 1], i - 1, again)]
<1> DEFINE Solves(g, z) ==
             g = [i \in 0..z |-> IF i = 0 THEN s ELSE dns_check_entry(g[i - 1], i - 1, again)]
           S == {z \in Nat : \E g : Solves(g, z)}
<1>1. 0 \in S
  <2> DEFINE g == [i \in 0..0 |-> s]
  <2>1. g = [i \in 0..0 |-> IF i = 0 THEN s ELSE dns_check_entry(g[i - 1], i - 1, again)]
    OBVIOUS
  <2> QED
    BY <2>1
<1>2. ASSUME NEW z \in Nat, z \in S PROVE z + 1 \in S
  <2>1. PICK g : Solves(g, z)
    BY <1>2
  <2> DEFINE h == [i \in 0..(z + 1) |->
                     IF i = z + 1 THEN dns_check_entry(g[z], z, again) ELSE g[i]]
  <2>2. \A i \in 0..z : g[i] = IF i = 0 THEN s ELSE dns_check_entry(g[i - 1], i - 1, again)
    BY <2>1
  <2>3. ASSUME NEW i \in 0..(z + 1)
        PROVE  h[i] = IF i = 0 THEN s ELSE dns_check_entry(h[i - 1], i - 1, again)
    <3>1. CASE i = 0
      BY <2>2, <3>1
    <3>2. CASE i = z + 1
      <4>1. h[i] = dns_check_entry(g[z], z, again) /\ h[i - 1] = g[z] /\ i - 1 = z /\ i # 0
        BY <3>2
      <4> QED
        BY <4>1
    <3>3. CASE i \in 1..z
      <4>1. h[i] = g[i] /\ h[i - 1] = g[i - 1] /\ i # 0
        BY <3>3
      <4> QED
        BY <2>2, <3>3, <4>1
    <3> QED
      BY <3>1, <3>2, <3>3
  <2>4. h = [i \in 0..(z + 1) |-> h[i]]
    OBVIOUS
  <2> HIDE DEF h
  <2>5. Solves(h, z + 1)
    BY <2>3, <2>4
  <2> QED
    BY <2>5
<1>3. Nat \subseteq S
  <2> HIDE DEF S
  <2> QED
    BY <1>1, <1>2, NatInd
<1>4. \E g : Solves(g, DNS_TABLE_SIZE)
  BY <1>3, DnsSizes
<1> QED
  BY <1>4 DEF Checked

LEMMA CheckKeeps ==
  ASSUME NEW s, DnsKept(s, NoSlot), NEW again \in Names \cup {NoName}
  PROVE  DnsKept(dns_check_entries(s, again), NoSlot)
<1> DEFINE C == Checked(s, again)
           N == DNS_TABLE_SIZE
           S == {z \in Nat : z <= N => DnsKept(C[z], NoSlot)}
<1>1. C = [i \in 0..N |-> IF i = 0 THEN s ELSE dns_check_entry(C[i - 1], i - 1, again)]
  BY CheckedUnfold
<1>2. N \in Nat
  BY DnsSizes
<1> HIDE DEF C, N
<1>3. 0 \in S
  <2>1. C[0] = s
    BY <1>1, <1>2
  <2> QED
    BY <2>1
<1>4. ASSUME NEW z \in Nat, z \in S PROVE z + 1 \in S
  <2>1. SUFFICES ASSUME z + 1 <= N PROVE DnsKept(C[z + 1], NoSlot)
    OBVIOUS
  <2>2. z + 1 \in 0..N /\ z + 1 # 0 /\ (z + 1) - 1 = z /\ z \in Slots
    BY <1>2, <2>1 DEF Slots, N
  <2>3. C[z + 1] = dns_check_entry(C[z], z, again)
    BY <1>1, <2>2
  <2>4. DnsKept(C[z], NoSlot)
    BY <1>2, <1>4, <2>1
  <2> QED
    BY <2>2, <2>3, <2>4, CheckEntryKeeps
<1>5. Nat \subseteq S
  <2> HIDE DEF S
  <2> QED
    BY <1>3, <1>4, NatInd
<1>6. DnsKept(C[N], NoSlot)
  BY <1>2, <1>5
<1> QED
  BY <1>6 DEF dns_check_entries, C, N

(***************************************************************************)
(* What the resolver needs of its callers.  dns_compare_name compares the  *)
(* labels of the answer, so that an answer for a name is taken for one of  *)
(* a longer name that begins with it; and the entry of a request that      *)
(* failed is cleared after its callback, also when the callback has just   *)
(* got it for a request of its own.                                        *)
(***************************************************************************)
NamesApart == \A m, n \in Names : IsPrefix(m, n) => m = n
NoAskOnError == "error" \notin AskAgainOn

(* An answer, in time, late or repeated. *)
LEMMA RecvKeeps ==
  ASSUME NamesApart, NoAskOnError,
         NEW s, DnsKept(s, NoSlot), NEW q \in s.sent, NEW kind, NEW ttl,
         NEW again \in Names \cup {NoName}
  PROVE  DnsKept(dns_recv(s, q, kind, ttl, again), NoSlot)
<1> DEFINE i == q.id
           w == s.table[i]
           e == [w EXCEPT !.state = "DONE"]
           e1 == [e EXCEPT !.ttl = IF ttl > DNS_MAX_TTL THEN DNS_MAX_TTL ELSE ttl]
           ok == kind = "address" /\ dns_compare_name(w.name, q.name)
<1>1. i \in Slots /\ q.name \in Names
  BY DEF DnsKept, IsDns
<1>2. /\ IsEntry(e) /\ e.state = "DONE" /\ e.found = w.found
      /\ IsEntry(e1) /\ e1.state = "DONE" /\ e1.found = w.found
  <2>1. IsEntry(w)
    BY <1>1, EntryOf
  <2> HIDE DEF w
  <2>2. IsEntry(e) /\ e.state = "DONE" /\ e.found = w.found
    BY <2>1 DEF IsEntry, EntryFields
  <2> HIDE DEF e
  <2> QED
    BY <2>2 DEF IsEntry, EntryFields
<1> HIDE DEF e, e1
<1>3. CASE w.state # "ASKING"
  BY <1>3 DEF dns_recv
<1>4. CASE w.state = "ASKING" /\ ok
  <2>1. q.name = w.name
    <3>1. w.name \in Names
      BY <1>1, <1>4, NameOf
    <3>2. IsPrefix(q.name, w.name)
      BY <1>4 DEF dns_compare_name
    <3> QED
      BY <1>1, <3>1, <3>2 DEF NamesApart
  <2>2. dns_recv(s, q, kind, ttl, again) = Found(SetEntry(s, i, e1), i, q.name, "answer", again)
    BY <1>4 DEF dns_recv, SetEntry, e, e1
  <2> QED
    BY <1>1, <1>2, <1>4, <2>1, <2>2, FoundKeeps
<1>5. CASE w.state = "ASKING" /\ ~ok
  <2> DEFINE f == Found(SetEntry(s, i, e), i, Failed, "error", again)
  <2>1. DnsKept(f, i)
    BY <1>1, <1>2, <1>5, FoundKeeps DEF NoAskOnError
  <2>2. dns_recv(s, q, kind, ttl, again) = Unused(f, i)
    BY <1>5 DEF dns_recv, SetEntry, e
  <2> HIDE DEF f
  <2> QED
    BY <1>1, <2>1, <2>2, UnusedKeeps
<1> QED
  BY <1>3, <1>4, <1>5

(* The memory for queries and the list of servers take no part. *)
LEMMA NomemKeeps ==
  ASSUME NEW s, DnsKept(s, NoSlot), NEW m, NEW V
  PROVE  DnsKept([s EXCEPT !.nomem = m], NoSlot) /\ DnsKept([s EXCEPT !.servers = V], NoSlot)
<1> DEFINE r == [s EXCEPT !.nomem = m]
           t == [s EXCEPT !.servers = V]
<1>1. /\ r = [f \in DnsFields |-> r[f]] /\ r.table = s.table /\ r.asked = s.asked
      /\ r.open = s.open /\ r.result = s.result /\ r.sent = s.sent /\ r.twice = s.twice
      /\ t = [f \in DnsFields |-> t[f]] /\ t.table = s.table /\ t.asked = s.asked
      /\ t.open = s.open /\ t.result = s.result /\ t.sent = s.sent /\ t.twice = s.twice
  BY DEF DnsKept, IsDns, DnsFields
<1> HIDE DEF r, t
<1>2. DnsKept(r, NoSlot)
  BY <1>1 DEF DnsKept, IsDns
<1>3. DnsKept(t, NoSlot)
  BY <1>1 DEF DnsKept, IsDns
<1> QED
  BY <1>2, <1>3 DEF r, t

(* The inductive invariant of the resolver. *)
DnsInv == DnsKept(dns, NoSlot)

LEMMA DnsInitKept == DnsInit => DnsInv
<1> SUFFICES ASSUME DnsInit PROVE DnsInv
  OBVIOUS
<1>1. /\ dns = [f \in DnsFields |-> dns[f]] /\ dns.table = [i \in Slots |-> DnsUnused]
      /\ dns.sent = {} /\ dns.asked = <<>> /\ dns.open = {} /\ dns.result = <<>> /\ dns.twice = FALSE
  BY DEF DnsInit, dns_init, DnsFields
<1>2. IsEntry(DnsUnused) /\ DnsUnused.found = 0 /\ DnsUnused.state = "UNUSED"
  BY DEF DnsUnused, IsEntry, EntryFields
<1> HIDE DEF DnsUnused
<1>3. IsTable(dns.table, Len(dns.asked))
  BY <1>1, <1>2 DEF IsTable
<1>4. IsDns(dns)
  <2>1. /\ dns.asked \in Seq(Names) /\ dns.open \subseteq 1..Len(dns.asked)
        /\ dns.result \in Seq({NoResult, Failed} \cup Names) /\ Len(dns.result) = Len(dns.asked)
    <3>1. dns.asked = <<>> /\ dns.open = {} /\ dns.result = <<>>
      BY <1>1
    <3>2. \A X : <<>> \in Seq(X)
      OBVIOUS
    <3> QED
      BY <3>1, <3>2
  <2>2. \A q \in dns.sent : q.id \in Slots /\ q.name \in Names
    BY <1>1
  <2>3. dns = [f \in DnsFields |-> dns[f]] /\ dns.twice = FALSE
    BY <1>1
  <2> HIDE DEF DnsFields
  <2> QED
    BY <1>3, <2>1, <2>2, <2>3, Zenon DEF IsDns
<1>5. OneEach(dns.table, dns.open, NoSlot)
  BY <1>1, <1>2 DEF OneEach, Waits
<1>6. OwnNames(dns.table, dns.open, dns.asked) /\ OwnResults(dns.asked, dns.result)
  BY <1>1 DEF OwnNames, OwnResults
<1> QED
  BY <1>4, <1>5, <1>6 DEF DnsInv, DnsKept

LEMMA DnsNextKeeps ==
  ASSUME NamesApart, NoAskOnError, DnsInv, [DnsNext]_dns
  PROVE  DnsInv'
<1>1. CASE UNCHANGED dns
  BY <1>1 DEF DnsInv
<1>2. ASSUME NEW s, DnsKept(s, NoSlot), DnsBecomes(s) PROVE DnsInv'
  BY <1>2, NomemKeeps DEF DnsBecomes, DnsInv
<1>3. ASSUME NEW n, DnsSetServer(n) PROVE DnsInv'
  <2>1. CASE n < DNS_MAX_SERVERS
    <3> DEFINE V == dns.servers \cup {n}
    <3>1. dns' = [dns EXCEPT !.servers = V]
      BY <1>3, <2>1 DEF DnsSetServer, dns_setserver
    <3> HIDE DEF V
    <3> QED
      BY <3>1, NomemKeeps DEF DnsInv
  <2>2. CASE ~(n < DNS_MAX_SERVERS)
    BY <1>3, <2>2 DEF DnsSetServer, dns_setserver, DnsInv
  <2> QED
    BY <2>1, <2>2
<1>4. ASSUME NEW name \in Names, DnsAsk(name) PROVE DnsInv'
  <2>1. DnsKept(dns_gethostbyname(dns, name), NoSlot)
    BY AskKeeps, NoSlotIs DEF DnsInv
  <2> QED
    BY <1>2, <1>4, <2>1 DEF DnsAsk
<1>5. ASSUME NEW nomem \in BOOLEAN, NEW again \in DnsAgain, DnsTick(nomem, again) PROVE DnsInv'
  <2> DEFINE s == [dns EXCEPT !.nomem = nomem]
  <2>1. DnsKept(s, NoSlot)
    BY NomemKeeps DEF DnsInv
  <2>2. again \in Names \cup {NoName}
    BY DEF DnsAgain
  <2>3. DnsBecomes(dns_check_entries(s, again))
    BY <1>5 DEF DnsTick
  <2> HIDE DEF s
  <2>4. DnsKept(dns_check_entries(s, again), NoSlot)
    BY <2>1, <2>2, CheckKeeps
  <2> QED
    BY <1>2, <2>3, <2>4
<1>6. ASSUME NEW q \in dns.sent, NEW again \in DnsAgain, NEW kind, NEW ttl,
             DnsAnswer(q, kind, ttl, again)
      PROVE  DnsInv'
  <2>1. again \in Names \cup {NoName}
    BY DEF DnsAgain
  <2>2. DnsKept(dns_recv(dns, q, kind, ttl, again), NoSlot)
    BY <2>1, RecvKeeps DEF DnsInv
  <2> QED
    BY <1>2, <1>6, <2>2 DEF DnsAnswer
<1>7. CASE \E q \in dns.sent, again \in DnsAgain :
            \/ \E ttl \in Ttls : DnsAnswer(q, "address", ttl, again)
            \/ DnsAnswer(q, "error", 0, again)
  BY <1>6, <1>7
<1>8. CASE \E nomem \in BOOLEAN, again \in DnsAgain : DnsTick(nomem, again)
  BY <1>5, <1>8
<1>9. CASE DnsNext
  BY <1>3, <1>4, <1>7, <1>8, <1>9, Zenon DEF DnsNext
<1> QED
  BY <1>1, <1>9

(* DnsSound: every callback that is due belongs to exactly one entry that  *)
(* waits, none is called twice, and an answer that reaches a caller is one *)
(* for the name it asked for: through answers that come late, twice or     *)
(* never, entries that are taken over, and callbacks that ask again.       *)
THEOREM CallersHearOnce ==
  ASSUME NamesApart, NoAskOnError
  PROVE  DnsSpec => []DnsSound
<1>1. DnsInv => DnsSound
  <2> SUFFICES ASSUME DnsInv PROVE DnsSound
    OBVIOUS
  <2>1. ~dns.twice
    BY DEF DnsInv, DnsKept, IsDns
  <2>2. ASSUME NEW id \in dns.open
        PROVE  \E i \in Slots : /\ dns.table[i].found = id /\ dns.table[i].state = "ASKING"
                                /\ \A j \in Slots \ {i} : dns.table[j].found # id
    BY <2>2 DEF DnsInv, DnsKept, OneEach, Waits
  <2>3. AnswersOwnName
    BY DEF DnsInv, DnsKept, OwnResults, AnswersOwnName
  <2> QED
    BY <2>1, <2>2, <2>3 DEF DnsSound, CallbackOnce
<1>2. DnsInv /\ [DnsNext]_dns => DnsInv'
  BY DnsNextKeeps
<1> QED
  BY <1>1, <1>2, DnsInitKept, PTL DEF DnsSpec

-----------------------------------------------------------------------------
(* The timeouts.                                                           *)
PingTimers == {"ping_timeout", "ping_coarse_tmr"}
Timeout == [h : Cyclic \cup {"tcpip"} \cup PingTimers, arg : Nat, time : Nat, due : Nat]

(* Each record has the time from the one before; none is there twice, and  *)
(* a ping times out before the next one is sent.                           *)
Delta(L) == \A i \in DOMAIN L : L[i].due = L[i].time + (IF i = 1 THEN 0 ELSE L[i - 1].due)
Sorted(L) == \A i, j \in DOMAIN L : i <= j => L[i].due <= L[j].due
Single(L) == \A i, j \in DOMAIN L : L[i].h = L[j].h /\ L[i].arg = L[j].arg => i = j
PingFirst(L) == \A i, j \in DOMAIN L :
    L[i].h = "ping_timeout" /\ L[j].h = "ping_coarse_tmr" /\ L[i].arg = L[j].arg => i < j
Lined(L) == L \in Seq(Timeout) /\ Delta(L) /\ Sorted(L) /\ Single(L) /\ PingFirst(L)

(* What the callers know of the list: who is called, and when.             *)
Entry(r) == [h |-> r.h, arg |-> r.arg, due |-> r.due]
Entries(L) == {Entry(L[i]) : i \in DOMAIN L}

(* The rest of the state, and what it owes those who wait: E is what the   *)
(* list has for them, and while a handler runs the record that was taken   *)
(* off is still in E, due now.  A cyclic timer does not run ahead of the   *)
(* clock.                                                                  *)
TmrFields == {"list", "elapsed", "diff", "now", "pcbs", "active", "fires", "tcp_tmr", "seq", "seqno", "echo", "ping"}
PingRecord == [state : {"none", "live", "freed"}, sent : Nat, left : Int, answered : Nat, timeouts : Nat]
Typed(s) ==
  /\ s = [f \in TmrFields |-> s[f]]
  /\ s.elapsed \in Nat /\ s.now \in Nat /\ s.diff \in Nat \cup {Idle}
  /\ s.fires \in [Cyclic -> Nat] /\ s.ping \in [Pings -> PingRecord]
Callers(s, E) == \A e \in E :
    /\ e.due \in Nat
    /\ \/ e.h \in Cyclic \cup {"tcpip"} /\ e.arg = NoArg
       \/ e.h \in PingTimers /\ e.arg \in Pings /\ s.ping[e.arg].state = "live"
Present(E) == \A h \in Cyclic : \E e \in E : e.h = h
TcpArmed(s, E) == (s.active = TRUE <=> \E e \in E : e.h = "tcpip") /\ (s.pcbs = TRUE => s.active = TRUE)
                  /\ s.pcbs \in BOOLEAN /\ s.active \in BOOLEAN
Ran(s, h, due) == (s.fires[h] * Interval[h] + (Interval[h] - due)) * TicksPerMs
Pace(s, h, due) == /\ due <= Interval[h] /\ Ran(s, h, due) + s.elapsed <= s.now
                   /\ s.diff # Idle => Ran(s, h, due) + s.diff * TicksPerMs <= s.now
Paced(s, E) == \A e \in E : e.h \in Cyclic => Pace(s, e.h, e.due)
Pending(E, p) == IF \E e \in E : e.h = "ping_timeout" /\ e.arg = p THEN 1 ELSE 0
Reported(s, E) == \A p \in Pings : s.ping[p].sent <= s.ping[p].answered + s.ping[p].timeouts + Pending(E, p)
Served(s, E) == Callers(s, E) /\ Present(E) /\ TcpArmed(s, E) /\ Paced(s, E) /\ Reported(s, E)
TmrKept(s) == Typed(s) /\ Lined(s.list) /\ Served(s, Entries(s.list))
TmrInv == TmrKept(tmr)

LEMMA TimerConstants ==
  /\ IsFiniteSet(Cyclic) /\ Cyclic # {} /\ "tcpip" \notin Cyclic /\ "ping_timeout" \notin Cyclic /\ "ping_coarse_tmr" \notin Cyclic
  /\ \A h \in Cyclic : Interval[h] \in Nat /\ 0 < Interval[h]
  /\ TCP_TMR_INTERVAL \in Nat /\ TicksPerMs \in Nat /\ 0 < TicksPerMs
  /\ PING_TIMEOUT_MS \in Nat /\ PingEvery \in Nat /\ PING_TIMEOUT_MS <= PingEvery
  /\ PingCount \in Nat /\ \A p \in Pings : p \in Nat /\ p # 0
BY TimerTimes

LEMMA FunctionIsSeq ==
  ASSUME NEW S, NEW n \in Nat, NEW f \in [1..n -> S]
  PROVE  f \in Seq(S) /\ Len(f) = n
OBVIOUS

LEMMA ListIs ==
  ASSUME NEW L \in Seq(Timeout)
  PROVE  /\ Len(L) \in Nat /\ DOMAIN L = 1..Len(L) /\ L = [i \in 1..Len(L) |-> L[i]]
         /\ \A i \in 1..Len(L) : /\ L[i] \in Timeout /\ L[i].due \in Nat /\ L[i].time \in Nat /\ L[i].arg \in Nat
                                 /\ L[i].h \in Cyclic \cup {"tcpip"} \cup PingTimers
<1>1. Len(L) \in Nat /\ DOMAIN L = 1..Len(L) /\ L \in [1..Len(L) -> Timeout]
  BY LenProperties
<1>2. \A i \in 1..Len(L) : L[i] \in Timeout
  BY <1>1
<1> QED
  BY <1>1, <1>2 DEF Timeout

(* Where a record goes: behind all that are due no later. *)
LEMMA BeforeIs ==
  ASSUME NEW L \in Seq(Timeout), Sorted(L), NEW ms \in Nat
  PROVE  /\ Before(L, ms) \in 0..Len(L)
         /\ \A i \in DOMAIN L : L[i].due <= ms <=> i <= Before(L, ms)
<1> DEFINE S == {i \in DOMAIN L : L[i].due <= ms}
           n == Len(L)
           U == {i \in 1..n : ms < L[i].due} \cup {n + 1}
<1>0. n \in Nat /\ DOMAIN L = 1..n /\ \A i \in 1..n : L[i].due \in Nat
  BY ListIs
<1>1. U \in SUBSET Nat /\ U # {}
  BY <1>0
<1>2. PICK u \in U : \A y \in U : u <= y
  <2> HIDE DEF U
  <2> QED
    BY <1>1, LeastNat
<1>3. u \in Nat /\ 1 <= u /\ u <= n + 1
  BY <1>0, <1>2
<1>4. ASSUME NEW i \in 1..n PROVE L[i].due <= ms <=> i <= u - 1
  <2>1. CASE i <= u - 1
    <3>1. i \notin U
      BY <1>2, <1>3, <2>1
    <3> QED
      BY <1>0, <2>1, <3>1
  <2>2. CASE u <= i
    <3>1. u \in 1..n /\ ms < L[u].due
      BY <1>0, <1>2, <1>3, <2>2
    <3>2. L[u].due <= L[i].due
      BY <1>0, <2>2, <3>1 DEF Sorted
    <3> QED
      BY <1>0, <1>3, <2>2, <3>1, <3>2
  <2> QED
    BY <1>3, <2>1, <2>2
<1>5. S = 1..(u - 1)
  BY <1>0, <1>3, <1>4
<1>6. Cardinality(1..(u - 1)) = u - 1
  BY <1>3, FS_Interval
<1>7. Before(L, ms) = u - 1
  BY <1>5, <1>6 DEF Before
<1> QED
  BY <1>0, <1>3, <1>4, <1>7

LEMMA MovedIs ==
  ASSUME NEW r \in Timeout, NEW by \in Int, 0 <= r.time + by
  PROVE  /\ Moved(r, by) \in Timeout /\ Moved(r, by).h = r.h /\ Moved(r, by).arg = r.arg
         /\ Moved(r, by).due = r.due /\ Moved(r, by).time = r.time + by
<1>1. r.time \in Nat /\ r.time + by \in Nat
  BY DEF Timeout
<1>2. r = [f \in {"h", "arg", "time", "due"} |-> r[f]] /\ r.h \in Cyclic \cup {"tcpip"} \cup PingTimers /\ r.arg \in Nat /\ r.due \in Nat
  BY DEF Timeout
<1> QED
  BY <1>1, <1>2 DEF Moved, Timeout

(* The list with a record r behind the first k. *)
Insertion(L, k, r) ==
  [i \in 1..(Len(L) + 1) |->
      IF i <= k THEN L[i] ELSE IF i = k + 1 THEN r ELSE IF i = k + 2 THEN Moved(L[i - 1], -r.time) ELSE L[i - 1]]
(* What such a list M holds: r makes the record behind it due that much sooner. *)
IsInsertion(L, k, r, M) ==
  /\ M \in Seq(Timeout) /\ Len(M) = Len(L) + 1 /\ M[k + 1] = r
  /\ \A i \in 1..k : M[i] = L[i]
  /\ \A i \in (k + 2)..(Len(L) + 1) :
        /\ M[i].h = L[i - 1].h /\ M[i].arg = L[i - 1].arg /\ M[i].due = L[i - 1].due
        /\ M[i].time = IF i = k + 2 THEN L[i - 1].time - r.time ELSE L[i - 1].time
LEMMA InsertShape ==
  ASSUME NEW L \in Seq(Timeout), NEW k \in 0..Len(L), NEW r \in Timeout,
         k < Len(L) => r.time <= L[k + 1].time
  PROVE  IsInsertion(L, k, r, Insertion(L, k, r))
<1> DEFINE n == Len(L)
           M == Insertion(L, k, r)
           x == Moved(L[k + 1], -r.time)
<1>0. n \in Nat /\ k \in Nat /\ k <= n /\ (\A i \in 1..n : L[i] \in Timeout /\ L[i].time \in Nat) /\ r.time \in Nat
  <2>1. r.time \in Nat
    BY DEF Timeout
  <2> QED
    BY <2>1, ListIs
<1>1. k < n => /\ x \in Timeout /\ x.h = L[k + 1].h /\ x.arg = L[k + 1].arg
               /\ x.due = L[k + 1].due /\ x.time = L[k + 1].time - r.time
  <2> SUFFICES ASSUME k < n
               PROVE  /\ x \in Timeout /\ x.h = L[k + 1].h /\ x.arg = L[k + 1].arg
                      /\ x.due = L[k + 1].due /\ x.time = L[k + 1].time - r.time
    OBVIOUS
  <2> DEFINE by == -r.time
             y == L[k + 1]
  <2>1. y \in Timeout /\ y.time \in Nat
    BY <1>0
  <2>2. by \in Int /\ 0 <= y.time + by /\ y.time + by = y.time - r.time
    BY <1>0, <2>1
  <2> HIDE DEF by, y
  <2>3. /\ Moved(y, by) \in Timeout /\ Moved(y, by).h = y.h /\ Moved(y, by).arg = y.arg
        /\ Moved(y, by).due = y.due /\ Moved(y, by).time = y.time + by
    BY <2>1, <2>2, MovedIs
  <2>4. x = Moved(y, by)
    BY DEF y, by
  <2> HIDE DEF x
  <2> QED
    BY <2>2, <2>3, <2>4 DEF y
<1>2. M = [i \in 1..(n + 1) |-> IF i <= k THEN L[i] ELSE IF i = k + 1 THEN r ELSE IF i = k + 2 THEN x ELSE L[i - 1]]
  BY <1>0 DEF Insertion
<1> HIDE DEF x, M, n
<1>3. M \in [1..(n + 1) -> Timeout]
  <2>1. ASSUME NEW i \in 1..(n + 1) PROVE (IF i <= k THEN L[i] ELSE IF i = k + 1 THEN r ELSE IF i = k + 2 THEN x ELSE L[i - 1]) \in Timeout
    BY <1>0, <1>1
  <2> QED
    BY <1>2, <2>1
<1>4. M \in Seq(Timeout) /\ Len(M) = n + 1
  <2>1. n + 1 \in Nat
    BY <1>0
  <2> QED
    BY <1>3, <2>1, FunctionIsSeq
<1>5. M[k + 1] = r /\ \A i \in 1..k : M[i] = L[i]
  <2>1. k + 1 \in 1..(n + 1) /\ ~(k + 1 <= k)
    BY <1>0
  <2>2. M[k + 1] = r
    BY <1>2, <2>1
  <2>3. ASSUME NEW i \in 1..k PROVE M[i] = L[i]
    <3>1. i \in 1..(n + 1) /\ i <= k
      BY <1>0
    <3> QED
      BY <1>2, <3>1
  <2> QED
    BY <2>2, <2>3
<1>6. ASSUME NEW i \in (k + 2)..(n + 1)
      PROVE  /\ M[i].h = L[i - 1].h /\ M[i].arg = L[i - 1].arg /\ M[i].due = L[i - 1].due
             /\ M[i].time = IF i = k + 2 THEN L[i - 1].time - r.time ELSE L[i - 1].time
  <2>1. M[i] = IF i = k + 2 THEN x ELSE L[i - 1]
    BY <1>0, <1>2
  <2>2. CASE i = k + 2
    <3>1. k < n /\ i - 1 = k + 1
      BY <1>0, <2>2
    <3> QED
      BY <1>1, <2>1, <2>2, <3>1
  <2> QED
    BY <2>1, <2>2
<1>7. \A i \in (k + 2)..(n + 1) :
         /\ M[i].h = L[i - 1].h /\ M[i].arg = L[i - 1].arg /\ M[i].due = L[i - 1].due
         /\ M[i].time = IF i = k + 2 THEN L[i - 1].time - r.time ELSE L[i - 1].time
  BY <1>6
<1>8. IsInsertion(L, k, r, M)
  BY <1>4, <1>5, <1>7 DEF IsInsertion, n
<1> QED
  BY <1>8 DEF M

Keyed(h, arg, ms) == [h |-> h, arg |-> arg, due |-> ms]
Record(L, ms, h, arg) ==
  LET k == Before(L, ms)
  IN  [h |-> h, arg |-> arg, time |-> ms - (IF k = 0 THEN 0 ELSE L[k].due), due |-> ms]
Scheduled(L, ms, h, arg) == Insertion(L, Before(L, ms), Record(L, ms, h, arg))

(* Where the record at i of the longer list was. *)
Origin(k, i) == IF i <= k THEN i ELSE i - 1
LEMMA InsertLines ==
  ASSUME NEW L, Lined(L), NEW ms \in Nat, NEW h \in Cyclic \cup {"tcpip"} \cup PingTimers, NEW arg \in Nat,
         \A i \in DOMAIN L : ~(L[i].h = h /\ L[i].arg = arg),
         h = "ping_timeout" => \A i \in DOMAIN L : ~(L[i].h = "ping_coarse_tmr" /\ L[i].arg = arg),
         h = "ping_coarse_tmr" => \A i \in DOMAIN L : L[i].h = "ping_timeout" /\ L[i].arg = arg => L[i].due <= ms
  PROVE  /\ Lined(Scheduled(L, ms, h, arg))
         /\ Entries(Scheduled(L, ms, h, arg)) = Entries(L) \cup {Keyed(h, arg, ms)}
<1> DEFINE n == Len(L)
           k == Before(L, ms)
           p == IF k = 0 THEN 0 ELSE L[k].due
           r == Record(L, ms, h, arg)
           M == Scheduled(L, ms, h, arg)
<1>0. /\ L \in Seq(Timeout) /\ Delta(L) /\ Sorted(L) /\ Single(L) /\ PingFirst(L) /\ n \in Nat /\ DOMAIN L = 1..n
      /\ \A i \in 1..n : L[i].due \in Nat /\ L[i].time \in Nat /\ L[i].arg \in Nat
  BY ListIs DEF Lined
<1>1. k \in Nat /\ k <= n /\ \A i \in 1..n : L[i].due <= ms <=> i <= k
  <2>1. k \in 0..n /\ \A i \in DOMAIN L : L[i].due <= ms <=> i <= k
    BY <1>0, BeforeIs
  <2>2. n \in Nat /\ DOMAIN L = 1..n
    BY <1>0
  <2> HIDE DEF k, n
  <2>3. \A i \in 1..n : L[i].due <= ms <=> i <= k
    BY <2>1, <2>2
  <2>4. k \in Nat /\ k <= n
    BY <2>1, <2>2
  <2> QED
    BY <2>3, <2>4
<1>2. p \in Nat /\ p <= ms
  <2>1. CASE k = 0
    BY <2>1
  <2>2. CASE k # 0
    <3>1. k \in 1..n /\ k <= k
      BY <1>0, <1>1, <2>2
    <3> HIDE DEF k
    <3> QED
      BY <1>0, <1>1, <2>2, <3>1
  <2> QED
    BY <2>1, <2>2
<1>3. r = [h |-> h, arg |-> arg, time |-> ms - p, due |-> ms] /\ M = Insertion(L, k, r)
  BY DEF Record, Scheduled
<1> HIDE DEF r, M, p, k, n
<1>4. r \in Timeout /\ r.h = h /\ r.arg = arg /\ r.time = ms - p /\ r.due = ms
  <2>1. ms - p \in Nat
    BY <1>2
  <2> HIDE DEF r
  <2> QED
    BY <1>3, <2>1 DEF Timeout
<1>5. k < n => L[k + 1].due = L[k + 1].time + p /\ ms < L[k + 1].due
  <2> SUFFICES ASSUME k < n PROVE L[k + 1].due = L[k + 1].time + p /\ ms < L[k + 1].due
    OBVIOUS
  <2>1. k + 1 \in 1..n /\ ~(k + 1 <= k) /\ k + 1 - 1 = k /\ (k + 1 = 1 <=> k = 0)
    BY <1>0, <1>1
  <2> DEFINE m == k + 1
  <2>2. L[m].due = L[m].time + (IF m = 1 THEN 0 ELSE L[m - 1].due)
    <3> HIDE DEF m
    <3>1. m \in DOMAIN L
      BY <1>0, <2>1 DEF m
    <3> QED
      BY <1>0, <3>1 DEF Delta
  <2>3. ms < L[k + 1].due
    BY <1>0, <1>1, <2>1
  <2>4. (IF m = 1 THEN 0 ELSE L[m - 1].due) = p
    <3>1. m - 1 = k /\ (m = 1 <=> k = 0)
      BY <1>1, <2>1
    <3> HIDE DEF m
    <3> QED
      BY <3>1 DEF p
  <2> QED
    BY <2>2, <2>3, <2>4
<1>6. k < n => r.time <= L[k + 1].time
  <2> SUFFICES ASSUME k < n PROVE r.time <= L[k + 1].time
    OBVIOUS
  <2>1. k + 1 \in 1..n
    BY <1>0, <1>1
  <2> QED
    BY <1>0, <1>2, <1>4, <1>5, <2>1
<1>7. /\ M \in Seq(Timeout) /\ Len(M) = n + 1 /\ M[k + 1] = r
      /\ \A i \in 1..k : M[i] = L[i]
      /\ \A i \in (k + 2)..(n + 1) :
            /\ M[i].h = L[i - 1].h /\ M[i].arg = L[i - 1].arg /\ M[i].due = L[i - 1].due
            /\ M[i].time = IF i = k + 2 THEN L[i - 1].time - r.time ELSE L[i - 1].time
  <2>1. k \in 0..Len(L)
    BY <1>0, <1>1 DEF n
  <2>2. k < Len(L) => r.time <= L[k + 1].time
    BY <1>6 DEF n
  <2>3. IsInsertion(L, k, r, Insertion(L, k, r))
    BY <1>0, <1>4, <2>1, <2>2, InsertShape
  <2>4. IsInsertion(L, k, r, M)
    BY <1>3, <2>3
  <2> QED
    BY <2>4 DEF IsInsertion, n
<1>8. DOMAIN M = 1..(n + 1)
  BY <1>7, LenProperties
<1>9. ASSUME NEW i \in 1..(n + 1), i # k + 1
      PROVE  /\ Origin(k, i) \in 1..n /\ M[i].h = L[Origin(k, i)].h /\ M[i].arg = L[Origin(k, i)].arg /\ M[i].due = L[Origin(k, i)].due
             /\ Origin(k, i) <= k <=> i <= k
  <2>1. CASE i <= k
    <3>1. i \in 1..k /\ Origin(k, i) = i /\ i \in 1..n
      BY <1>0, <1>1, <2>1 DEF Origin
    <3> QED
      BY <1>7, <2>1, <3>1
  <2>2. CASE ~(i <= k)
    <3>1. i \in (k + 2)..(n + 1) /\ Origin(k, i) = i - 1 /\ i - 1 \in 1..n /\ ~(i - 1 <= k)
      BY <1>0, <1>1, <1>9, <2>2 DEF Origin
    <3> QED
      BY <1>7, <2>2, <3>1
  <2> QED
    BY <2>1, <2>2
<1>10. Delta(M)
  <2>1. ASSUME NEW i \in 1..(n + 1)
        PROVE  M[i].due = M[i].time + (IF i = 1 THEN 0 ELSE M[i - 1].due)
    <3>1. CASE i <= k
      <4>1. i \in 1..k /\ i \in DOMAIN L /\ (i # 1 => i - 1 \in 1..k)
        BY <1>0, <1>1, <3>1
      <4>2. L[i].due = L[i].time + (IF i = 1 THEN 0 ELSE L[i - 1].due)
        BY <1>0, <4>1 DEF Delta
      <4> QED
        BY <1>7, <4>1, <4>2
    <3>2. CASE i = k + 1
      <4>1. (i = 1 <=> k = 0) /\ i - 1 = k /\ (k # 0 => k \in 1..k)
        BY <1>1, <3>2
      <4>2. (IF i = 1 THEN 0 ELSE M[i - 1].due) = p
        BY <1>7, <4>1 DEF p
      <4>3. ms = (ms - p) + p
        BY <1>2
      <4> QED
        BY <1>4, <1>7, <3>2, <4>2, <4>3
    <3>3. CASE i = k + 2
      <4>1. k < n /\ i \in (k + 2)..(n + 1) /\ i - 1 = k + 1 /\ i # 1 /\ k + 1 \in 1..n
        BY <1>0, <1>1, <3>3
      <4>2. M[i].due = L[k + 1].due /\ M[i].time = L[k + 1].time - (ms - p) /\ M[i - 1].due = ms
        BY <1>4, <1>7, <3>3, <4>1
      <4>3. L[k + 1].due \in Nat /\ L[k + 1].time \in Nat
        BY <1>0, <4>1
      <4> QED
        BY <1>2, <1>5, <4>1, <4>2, <4>3
    <3>4. CASE k + 2 < i
      <4>1. /\ i \in (k + 2)..(n + 1) /\ i - 1 \in (k + 2)..(n + 1) /\ i # 1 /\ i # k + 2
            /\ i - 1 \in 1..n /\ i - 1 # 1
        BY <1>0, <1>1, <3>4
      <4>2. L[i - 1].due = L[i - 1].time + L[i - 1 - 1].due
        BY <1>0, <4>1 DEF Delta
      <4>3. M[i].due = L[i - 1].due /\ M[i].time = L[i - 1].time /\ M[i - 1].due = L[i - 1 - 1].due
        BY <1>7, <4>1
      <4> QED
        BY <4>1, <4>2, <4>3
    <3> QED
      BY <1>0, <1>1, <3>1, <3>2, <3>3, <3>4
  <2> QED
    BY <1>8, <2>1 DEF Delta
<1>11. Sorted(M)
  <2>1. ASSUME NEW i \in 1..(n + 1), NEW j \in 1..(n + 1), i <= j PROVE M[i].due <= M[j].due
    <3>1. CASE i # k + 1 /\ j # k + 1
      <4>1. Origin(k, i) <= Origin(k, j)
        BY <1>0, <1>1, <2>1 DEF Origin
      <4>2. L[Origin(k, i)].due <= L[Origin(k, j)].due
        BY <1>0, <1>9, <3>1, <4>1 DEF Sorted
      <4> QED
        BY <1>9, <3>1, <4>2
    <3>2. CASE i = k + 1 /\ j # k + 1
      <4>1. ~(j <= k)
        BY <1>1, <2>1, <3>2
      <4>2. Origin(k, j) \in 1..n /\ ~(Origin(k, j) <= k) /\ M[j].due = L[Origin(k, j)].due
        BY <1>9, <3>2, <4>1
      <4> QED
        BY <1>0, <1>1, <1>4, <1>7, <3>2, <4>2
    <3>3. CASE i # k + 1 /\ j = k + 1
      <4>1. i <= k
        BY <1>1, <2>1, <3>3
      <4>2. Origin(k, i) \in 1..n /\ Origin(k, i) <= k /\ M[i].due = L[Origin(k, i)].due
        BY <1>9, <3>3, <4>1
      <4> QED
        BY <1>0, <1>1, <1>4, <1>7, <3>3, <4>2
    <3>4. CASE i = k + 1 /\ j = k + 1
      BY <1>4, <1>7, <3>4
    <3> QED
      BY <3>1, <3>2, <3>3, <3>4
  <2> QED
    BY <1>8, <2>1 DEF Sorted
<1>12. Single(M)
  <2>1. ASSUME NEW i \in 1..(n + 1), NEW j \in 1..(n + 1), M[i].h = M[j].h, M[i].arg = M[j].arg PROVE i = j
    <3>1. CASE i # k + 1 /\ j # k + 1
      <4> DEFINE u == Origin(k, i)
                 v == Origin(k, j)
      <4>0. u \in DOMAIN L /\ v \in DOMAIN L /\ L[u].h = L[v].h /\ L[u].arg = L[v].arg
        BY <1>0, <1>9, <2>1, <3>1
      <4> HIDE DEF u, v
      <4>a. u = v
        BY <1>0, <4>0 DEF Single
      <4>1. Origin(k, i) = Origin(k, j)
        BY <4>a DEF u, v
      <4> QED
        BY <1>1, <3>1, <4>1 DEF Origin
    <3>2. CASE i = k + 1 /\ j # k + 1
      <4>1. M[i] = r /\ Origin(k, j) \in DOMAIN L /\ M[j].h = L[Origin(k, j)].h /\ M[j].arg = L[Origin(k, j)].arg
        BY <1>0, <1>7, <1>9, <3>2
      <4> QED
        BY <1>4, <2>1, <4>1
    <3>3. CASE i # k + 1 /\ j = k + 1
      <4>1. M[j] = r /\ Origin(k, i) \in DOMAIN L /\ M[i].h = L[Origin(k, i)].h /\ M[i].arg = L[Origin(k, i)].arg
        BY <1>0, <1>7, <1>9, <3>3
      <4> QED
        BY <1>4, <2>1, <4>1
    <3> QED
      BY <3>1, <3>2, <3>3
  <2> QED
    BY <1>8, <2>1 DEF Single
<1>13. PingFirst(M)
  <2>1. ASSUME NEW i \in 1..(n + 1), NEW j \in 1..(n + 1),
               M[i].h = "ping_timeout", M[j].h = "ping_coarse_tmr", M[i].arg = M[j].arg
        PROVE  i < j
    <3>1. CASE i # k + 1 /\ j # k + 1
      <4> DEFINE u == Origin(k, i)
                 v == Origin(k, j)
      <4>0. /\ u \in DOMAIN L /\ v \in DOMAIN L
            /\ L[u].h = "ping_timeout" /\ L[v].h = "ping_coarse_tmr" /\ L[u].arg = L[v].arg
        BY <1>0, <1>9, <2>1, <3>1
      <4> HIDE DEF u, v
      <4>a. u < v
        BY <1>0, <4>0 DEF PingFirst
      <4>1. Origin(k, i) < Origin(k, j)
        BY <4>a DEF u, v
      <4> QED
        BY <1>1, <3>1, <4>1 DEF Origin
    <3>2. CASE i = k + 1 /\ j # k + 1
      <4>1. M[i] = r /\ Origin(k, j) \in DOMAIN L /\ M[j].h = L[Origin(k, j)].h /\ M[j].arg = L[Origin(k, j)].arg
        BY <1>0, <1>7, <1>9, <3>2
      <4> QED
        BY <1>4, <2>1, <4>1
    <3>3. CASE i # k + 1 /\ j = k + 1
      <4>1. h = "ping_coarse_tmr" /\ L[Origin(k, i)].h = "ping_timeout" /\ L[Origin(k, i)].arg = arg
        BY <1>4, <1>7, <1>9, <2>1, <3>3
      <4>2. Origin(k, i) \in 1..n /\ L[Origin(k, i)].due <= ms
        BY <1>0, <1>9, <3>3, <4>1
      <4>3. Origin(k, i) <= k
        BY <1>1, <4>2
      <4>4. i <= k
        BY <1>9, <3>3, <4>3
      <4> QED
        BY <1>1, <3>3, <4>4
    <3>4. CASE i = k + 1 /\ j = k + 1
      BY <2>1, <3>4
    <3> QED
      BY <3>1, <3>2, <3>3, <3>4
  <2> QED
    BY <1>8, <2>1 DEF PingFirst
<1>14. Entries(M) = Entries(L) \cup {Keyed(h, arg, ms)}
  <2>1. ASSUME NEW i \in 1..(n + 1) PROVE Entry(M[i]) \in Entries(L) \cup {Keyed(h, arg, ms)}
    <3>1. CASE i = k + 1
      BY <1>4, <1>7, <3>1 DEF Entry, Keyed
    <3>2. CASE i # k + 1
      <4>1. Origin(k, i) \in DOMAIN L /\ Entry(M[i]) = Entry(L[Origin(k, i)])
        BY <1>0, <1>9, <3>2 DEF Entry
      <4> QED
        BY <4>1 DEF Entries
    <3> QED
      BY <3>1, <3>2
  <2>2. Keyed(h, arg, ms) \in Entries(M)
    <3>1. k + 1 \in DOMAIN M /\ Entry(M[k + 1]) = Keyed(h, arg, ms)
      BY <1>0, <1>1, <1>4, <1>7, <1>8 DEF Entry, Keyed
    <3> QED
      BY <3>1 DEF Entries
  <2>3. ASSUME NEW j \in 1..n PROVE Entry(L[j]) \in Entries(M)
    <3> DEFINE i == IF j <= k THEN j ELSE j + 1
    <3>1. i \in 1..(n + 1) /\ i # k + 1 /\ Origin(k, i) = j
      BY <1>0, <1>1 DEF Origin
    <3> HIDE DEF i
    <3>2. i \in DOMAIN M /\ Entry(M[i]) = Entry(L[j])
      BY <1>8, <1>9, <3>1 DEF Entry
    <3> QED
      BY <3>2 DEF Entries
  <2> QED
    BY <1>0, <1>8, <2>1, <2>2, <2>3 DEF Entries
<1> QED
  BY <1>7, <1>10, <1>11, <1>12, <1>13, <1>14 DEF Lined, M

(* The list without record k, whose time goes to the one behind it. *)
Removal(L, k) ==
  [i \in 1..(Len(L) - 1) |-> IF i < k THEN L[i] ELSE IF i = k THEN Moved(L[i + 1], L[k].time) ELSE L[i + 1]]
(* Where the record at i of the shorter list was. *)
Source(k, i) == IF i < k THEN i ELSE i + 1

LEMMA RemoveLines ==
  ASSUME NEW L, Lined(L), NEW k \in DOMAIN L
  PROVE  Lined(Removal(L, k)) /\ Entries(Removal(L, k)) = Entries(L) \ {Entry(L[k])}
<1> DEFINE n == Len(L)
           M == Removal(L, k)
           x == Moved(L[k + 1], L[k].time)
<1>0. /\ L \in Seq(Timeout) /\ Delta(L) /\ Sorted(L) /\ Single(L) /\ PingFirst(L) /\ n \in Nat /\ DOMAIN L = 1..n
      /\ \A i \in 1..n : L[i] \in Timeout /\ L[i].due \in Nat /\ L[i].time \in Nat /\ L[i].arg \in Nat
  BY ListIs DEF Lined
<1>1. k \in Nat /\ 1 <= k /\ k <= n /\ n - 1 \in Nat
  BY <1>0
<1>2. k < n => /\ x \in Timeout /\ x.h = L[k + 1].h /\ x.arg = L[k + 1].arg
               /\ x.due = L[k + 1].due /\ x.time = L[k + 1].time + L[k].time
  <2> SUFFICES ASSUME k < n
               PROVE  /\ x \in Timeout /\ x.h = L[k + 1].h /\ x.arg = L[k + 1].arg
                      /\ x.due = L[k + 1].due /\ x.time = L[k + 1].time + L[k].time
    OBVIOUS
  <2> DEFINE by == L[k].time
             y == L[k + 1]
  <2>1. k + 1 \in 1..n /\ k \in 1..n
    BY <1>0, <1>1
  <2>2. y \in Timeout /\ y.time \in Nat /\ by \in Nat
    BY <1>0, <2>1
  <2>3. x = Moved(y, by)
    OBVIOUS
  <2> HIDE DEF by, y, x
  <2>4. by \in Int /\ 0 <= y.time + by
    BY <2>2
  <2> QED
    BY <2>2, <2>3, <2>4, MovedIs DEF by, y
<1>3. M = [i \in 1..(n - 1) |-> IF i < k THEN L[i] ELSE IF i = k THEN x ELSE L[i + 1]]
  BY DEF Removal
<1> HIDE DEF x, M, n
<1>4. ASSUME NEW i \in 1..(n - 1) PROVE (IF i < k THEN L[i] ELSE IF i = k THEN x ELSE L[i + 1]) \in Timeout
  BY <1>0, <1>1, <1>2
<1>5. M \in [1..(n - 1) -> Timeout]
  BY <1>3, <1>4
<1>6. M \in Seq(Timeout) /\ Len(M) = n - 1 /\ DOMAIN M = 1..(n - 1)
  BY <1>1, <1>5, FunctionIsSeq
<1>7. ASSUME NEW i \in 1..(n - 1)
      PROVE  /\ Source(k, i) \in 1..n /\ Source(k, i) # k
             /\ M[i].h = L[Source(k, i)].h /\ M[i].arg = L[Source(k, i)].arg /\ M[i].due = L[Source(k, i)].due
             /\ M[i].time = IF i = k THEN L[k + 1].time + L[k].time ELSE L[Source(k, i)].time
  <2>1. M[i] = IF i < k THEN L[i] ELSE IF i = k THEN x ELSE L[i + 1]
    BY <1>3
  <2>2. Source(k, i) \in 1..n /\ Source(k, i) # k
    BY <1>0, <1>1 DEF Source
  <2>3. CASE i < k
    <3>1. M[i] = L[i] /\ Source(k, i) = i /\ i # k
      BY <1>1, <2>1, <2>3 DEF Source
    <3> QED
      BY <2>2, <3>1
  <2>4. CASE i = k
    <3>1. k < n /\ Source(k, i) = k + 1 /\ M[i] = x
      BY <1>0, <1>1, <2>1, <2>4 DEF Source
    <3> QED
      BY <1>2, <2>2, <2>4, <3>1
  <2>5. CASE k < i
    <3>1. M[i] = L[i + 1] /\ Source(k, i) = i + 1 /\ i # k
      BY <1>1, <2>1, <2>5 DEF Source
    <3> QED
      BY <2>2, <3>1
  <2> QED
    BY <1>1, <2>3, <2>4, <2>5
<1>8. Delta(M)
  <2>1. ASSUME NEW i \in 1..(n - 1)
        PROVE  M[i].due = M[i].time + (IF i = 1 THEN 0 ELSE M[i - 1].due)
    <3> DEFINE j == Source(k, i)
    <3>1. j \in 1..n /\ M[i].due = L[j].due
      BY <1>7
    <3>2. L[j].due = L[j].time + (IF j = 1 THEN 0 ELSE L[j - 1].due)
      <4> HIDE DEF j
      <4> QED
        BY <1>0, <3>1 DEF Delta
    <3>3. CASE i # k
      <4>1. M[i].time = L[j].time
        BY <1>7, <3>3
      <4>2. CASE i = 1
        <5>1. j = 1
          BY <1>1, <3>3, <4>2 DEF Source
        <5> QED
          BY <3>1, <3>2, <4>1, <4>2, <5>1
      <4>3. CASE i # 1
        <5>1. i - 1 \in 1..(n - 1) /\ j # 1 /\ Source(k, i - 1) = j - 1
          BY <1>1, <3>3, <4>3 DEF Source
        <5>2. M[i - 1].due = L[j - 1].due
          BY <1>7, <5>1
        <5> QED
          BY <3>1, <3>2, <4>1, <4>3, <5>1, <5>2
      <4> QED
        BY <4>2, <4>3
    <3>4. CASE i = k
      <4>1. j = k + 1 /\ j # 1 /\ j - 1 = k /\ k \in 1..n /\ k + 1 \in 1..n
        BY <1>0, <1>1, <3>1, <3>4 DEF Source
      <4>2. L[k].due = L[k].time + (IF k = 1 THEN 0 ELSE L[k - 1].due)
        BY <1>0 DEF Delta
      <4>3. M[i].time = L[k + 1].time + L[k].time
        BY <1>7, <3>4
      <4>4. (IF i = 1 THEN 0 ELSE M[i - 1].due) = IF k = 1 THEN 0 ELSE L[k - 1].due
        <5>1. CASE k # 1
          <6>1. k - 1 \in 1..(n - 1) /\ Source(k, k - 1) = k - 1
            BY <1>0, <1>1, <5>1 DEF Source
          <6>2. M[k - 1].due = L[k - 1].due
            BY <1>7, <6>1
          <6>3. (IF i = 1 THEN 0 ELSE M[i - 1].due) = M[k - 1].due /\ (IF k = 1 THEN 0 ELSE L[k - 1].due) = L[k - 1].due
            BY <3>4, <5>1
          <6> QED
            BY <6>2, <6>3
        <5>2. CASE k = 1
          BY <3>4, <5>2
        <5> QED
          BY <5>1, <5>2
      <4> DEFINE pd == IF k = 1 THEN 0 ELSE L[k - 1].due
      <4>5. pd \in Nat
        <5>1. CASE k = 1
          BY <5>1
        <5>2. CASE k # 1
          <6>1. k - 1 \in 1..n
            BY <1>0, <1>1, <5>2
          <6>2. L[k - 1].due \in Nat
            BY <1>0, <6>1
          <6> QED
            BY <5>2, <6>2
        <5> QED
          BY <5>1, <5>2
      <4>6. L[k].time \in Nat /\ L[k + 1].time \in Nat
        BY <1>0, <4>1
      <4>7. L[k + 1].due = L[k + 1].time + L[k].due /\ L[k].due = L[k].time + pd /\ M[i].due = L[k + 1].due
        BY <3>1, <3>2, <4>1, <4>2
      <4> HIDE DEF pd, j
      <4>8. M[i].due = M[i].time + pd
        BY <4>3, <4>5, <4>6, <4>7
      <4> QED
        BY <4>4, <4>8 DEF pd
    <3> QED
      BY <3>3, <3>4
  <2> QED
    BY <1>6, <2>1 DEF Delta
<1>9. Sorted(M) /\ Single(M) /\ PingFirst(M)
  <2>1. ASSUME NEW i \in 1..(n - 1), NEW j \in 1..(n - 1)
        PROVE  (i <= j <=> Source(k, i) <= Source(k, j)) /\ (i < j <=> Source(k, i) < Source(k, j))
    BY <1>1 DEF Source
  <2>2. Sorted(M)
    <3>1. ASSUME NEW i \in 1..(n - 1), NEW j \in 1..(n - 1), i <= j PROVE M[i].due <= M[j].due
      <4>1. L[Source(k, i)].due <= L[Source(k, j)].due
        BY <1>0, <1>7, <2>1, <3>1 DEF Sorted
      <4> QED
        BY <1>7, <4>1
    <3> QED
      BY <1>6, <3>1 DEF Sorted
  <2>3. Single(M)
    <3>1. ASSUME NEW i \in 1..(n - 1), NEW j \in 1..(n - 1), M[i].h = M[j].h, M[i].arg = M[j].arg PROVE i = j
      <4> DEFINE u == Source(k, i)
                 v == Source(k, j)
      <4>0. u \in DOMAIN L /\ v \in DOMAIN L /\ L[u].h = L[v].h /\ L[u].arg = L[v].arg
        BY <1>0, <1>7, <3>1
      <4> HIDE DEF u, v
      <4>a. u = v
        BY <1>0, <4>0 DEF Single
      <4>1. Source(k, i) = Source(k, j)
        BY <4>a DEF u, v
      <4> QED
        BY <1>1, <4>1 DEF Source
    <3> QED
      BY <1>6, <3>1 DEF Single
  <2>4. PingFirst(M)
    <3>1. ASSUME NEW i \in 1..(n - 1), NEW j \in 1..(n - 1),
                 M[i].h = "ping_timeout", M[j].h = "ping_coarse_tmr", M[i].arg = M[j].arg
          PROVE  i < j
      <4> DEFINE u == Source(k, i)
                 v == Source(k, j)
      <4>0. /\ u \in DOMAIN L /\ v \in DOMAIN L
            /\ L[u].h = "ping_timeout" /\ L[v].h = "ping_coarse_tmr" /\ L[u].arg = L[v].arg
        BY <1>0, <1>7, <3>1
      <4> HIDE DEF u, v
      <4>a. u < v
        BY <1>0, <4>0 DEF PingFirst
      <4>1. Source(k, i) < Source(k, j)
        BY <4>a DEF u, v
      <4> QED
        BY <2>1, <4>1
    <3> QED
      BY <1>6, <3>1 DEF PingFirst
  <2> QED
    BY <2>2, <2>3, <2>4
<1>10. Entries(M) = Entries(L) \ {Entry(L[k])}
  <2>1. ASSUME NEW j \in 1..n, j # k PROVE Entry(L[j]) # Entry(L[k])
    <3>1. ~(L[j].h = L[k].h /\ L[j].arg = L[k].arg)
      BY <1>0, <2>1 DEF Single
    <3> QED
      BY <3>1 DEF Entry
  <2>2. ASSUME NEW i \in 1..(n - 1) PROVE Entry(M[i]) \in Entries(L) \ {Entry(L[k])}
    <3>1. Source(k, i) \in DOMAIN L /\ Source(k, i) # k /\ Entry(M[i]) = Entry(L[Source(k, i)])
      BY <1>0, <1>7 DEF Entry
    <3> QED
      BY <1>0, <2>1, <3>1 DEF Entries
  <2>3. ASSUME NEW j \in 1..n, j # k PROVE Entry(L[j]) \in Entries(M)
    <3> DEFINE i == IF j < k THEN j ELSE j - 1
    <3>1. i \in 1..(n - 1) /\ Source(k, i) = j
      BY <1>0, <1>1, <2>3 DEF Source
    <3> HIDE DEF i
    <3>2. i \in DOMAIN M /\ Entry(M[i]) = Entry(L[j])
      BY <1>6, <1>7, <3>1 DEF Entry
    <3> QED
      BY <3>2 DEF Entries
  <2>4. ASSUME NEW e \in Entries(L) \ {Entry(L[k])} PROVE e \in Entries(M)
    <3>1. PICK j \in 1..n : e = Entry(L[j])
      BY <1>0 DEF Entries
    <3> QED
      BY <2>3, <3>1
  <2>5. ASSUME NEW e \in Entries(M) PROVE e \in Entries(L) \ {Entry(L[k])}
    <3>1. PICK i \in 1..(n - 1) : e = Entry(M[i])
      BY <1>6 DEF Entries
    <3> QED
      BY <2>2, <3>1
  <2> QED
    BY <2>4, <2>5
<1> QED
  BY <1>6, <1>8, <1>9, <1>10 DEF Lined, M

(* The list behind its first record, seen from when that one was due. *)
Behind(L) == [i \in 1..(Len(L) - 1) |-> [L[i + 1] EXCEPT !.due = @ - L[1].due]]
LEMMA BehindLines ==
  ASSUME NEW L, Lined(L), L # << >>
  PROVE  /\ Lined(Behind(L)) /\ L[1] \in Timeout /\ L[1].due = L[1].time
         /\ \A e \in Entries(Behind(L)) : \E d \in Nat :
               /\ Keyed(e.h, e.arg, d) \in Entries(L) /\ e.due = d - L[1].due /\ e.due \in Nat
               /\ ~(e.h = L[1].h /\ e.arg = L[1].arg)
         /\ \A e \in Entries(L) : (e.h = L[1].h /\ e.arg = L[1].arg) \/ Keyed(e.h, e.arg, e.due - L[1].due) \in Entries(Behind(L))
         /\ L[1].h = "ping_coarse_tmr" => \A e \in Entries(L) : ~(e.h = "ping_timeout" /\ e.arg = L[1].arg)
<1> DEFINE n == Len(L)
           M == Behind(L)
           d == L[1].due
<1>0. /\ L \in Seq(Timeout) /\ Delta(L) /\ Sorted(L) /\ Single(L) /\ PingFirst(L) /\ n \in Nat /\ DOMAIN L = 1..n
      /\ \A i \in 1..n : L[i] \in Timeout /\ L[i].due \in Nat /\ L[i].time \in Nat /\ L[i].arg \in Nat
  BY ListIs DEF Lined
<1>1. n # 0
  BY <1>0, EmptySeq
<1>2. 1 \in 1..n /\ n - 1 \in Nat /\ 1 \in DOMAIN L /\ d \in Nat
  BY <1>0, <1>1
<1>3. L[1].due = L[1].time
  <2>1. L[1].due = L[1].time + 0
    BY <1>0, <1>2 DEF Delta
  <2> QED
    BY <1>0, <1>2, <2>1
<1>4. M = [i \in 1..(n - 1) |-> [L[i + 1] EXCEPT !.due = L[i + 1].due - d]]
  BY DEF Behind
<1> HIDE DEF M, n, d
<1>5. ASSUME NEW i \in 1..(n - 1)
      PROVE  /\ M[i] \in Timeout /\ M[i].h = L[i + 1].h /\ M[i].arg = L[i + 1].arg /\ M[i].time = L[i + 1].time
             /\ M[i].due = L[i + 1].due - d /\ i + 1 \in 1..n /\ i + 1 # 1
  <2>1. i + 1 \in 1..n /\ i + 1 # 1 /\ 1 <= i + 1
    BY <1>0
  <2>2. L[i + 1].due - d \in Nat
    <3>1. d <= L[i + 1].due
      BY <1>0, <1>2, <2>1 DEF Sorted, d
    <3> QED
      BY <1>0, <1>2, <2>1, <3>1
  <2>3. M[i] = [L[i + 1] EXCEPT !.due = L[i + 1].due - d]
    BY <1>4
  <2> DEFINE y == L[i + 1]
             z == L[i + 1].due - d
  <2>4. y \in Timeout /\ z \in Nat
    BY <1>0, <2>1, <2>2
  <2>5. y = [f \in {"h", "arg", "time", "due"} |-> y[f]] /\ y.h \in Cyclic \cup {"tcpip"} \cup PingTimers /\ y.arg \in Nat /\ y.time \in Nat
    <3> HIDE DEF y, z
    <3> QED
      BY <2>4 DEF Timeout
  <2>6. M[i] = [y EXCEPT !.due = z]
    BY <2>3
  <2> HIDE DEF y, z
  <2>7. M[i] \in Timeout /\ M[i].h = y.h /\ M[i].arg = y.arg /\ M[i].time = y.time /\ M[i].due = z
    BY <2>4, <2>5, <2>6 DEF Timeout
  <2> QED
    BY <2>1, <2>7 DEF y, z
<1>6. M \in [1..(n - 1) -> Timeout]
  BY <1>4, <1>5
<1>7. M \in Seq(Timeout) /\ DOMAIN M = 1..(n - 1)
  BY <1>2, <1>6, FunctionIsSeq
<1>8. Delta(M)
  <2>1. ASSUME NEW i \in 1..(n - 1)
        PROVE  M[i].due = M[i].time + (IF i = 1 THEN 0 ELSE M[i - 1].due)
    <3>1. i \in Nat /\ i + 1 \in 1..n /\ i + 1 # 1 /\ i + 1 - 1 = i /\ i \in 1..n
      BY <1>0
    <3> DEFINE j == i + 1
    <3>2. L[j].due = L[j].time + L[j - 1].due
      <4>1. j \in DOMAIN L /\ j # 1
        BY <1>0, <3>1
      <4> HIDE DEF j
      <4> QED
        BY <1>0, <4>1 DEF Delta
    <3>3. L[i + 1].due = L[i + 1].time + L[i].due
      BY <3>1, <3>2
    <3>4. L[i].due \in Nat /\ L[i + 1].time \in Nat /\ L[i + 1].due \in Nat
      BY <1>0, <3>1
    <3>5. CASE i = 1
      <4>1. L[i].due = d
        BY <3>5 DEF d
      <4> QED
        BY <1>2, <1>5, <3>3, <3>4, <3>5, <4>1
    <3>6. CASE i # 1
      <4> DEFINE m == i - 1
      <4>1. m \in 1..(n - 1) /\ m + 1 = i
        BY <1>0, <3>1, <3>6
      <4> HIDE DEF m
      <4>2. M[m].due = L[i].due - d
        BY <1>5, <4>1
      <4> QED
        <5>1. M[i].due = L[i + 1].due - d /\ M[i].time = L[i + 1].time
          BY <1>5
        <5>2. M[i].due = M[i].time + M[m].due
          BY <1>2, <3>3, <3>4, <4>2, <5>1
        <5> QED
          BY <3>6, <5>2 DEF m
    <3> QED
      BY <3>5, <3>6
  <2> QED
    BY <1>7, <2>1 DEF Delta
<1>9. Sorted(M) /\ Single(M) /\ PingFirst(M)
  <2>1. Sorted(M)
    <3>1. ASSUME NEW i \in 1..(n - 1), NEW j \in 1..(n - 1), i <= j PROVE M[i].due <= M[j].due
      <4>1. i + 1 \in 1..n /\ j + 1 \in 1..n /\ i + 1 <= j + 1
        BY <1>0, <3>1
      <4>2. L[i + 1].due <= L[j + 1].due
        BY <1>0, <4>1 DEF Sorted
      <4>3. L[i + 1].due \in Nat /\ L[j + 1].due \in Nat /\ M[i].due = L[i + 1].due - d /\ M[j].due = L[j + 1].due - d
        BY <1>0, <1>5, <4>1
      <4> QED
        BY <1>2, <4>2, <4>3
    <3> QED
      BY <1>7, <3>1 DEF Sorted
  <2>2. Single(M)
    <3>1. ASSUME NEW i \in 1..(n - 1), NEW j \in 1..(n - 1), M[i].h = M[j].h, M[i].arg = M[j].arg PROVE i = j
      <4>0. /\ i + 1 \in DOMAIN L /\ j + 1 \in DOMAIN L
            /\ L[i + 1].h = L[j + 1].h /\ L[i + 1].arg = L[j + 1].arg
        BY <1>0, <1>5, <3>1
      <4>1. i + 1 = j + 1
        BY <1>0, <4>0 DEF Single
      <4> QED
        BY <4>1
    <3> QED
      BY <1>7, <3>1 DEF Single
  <2>3. PingFirst(M)
    <3>1. ASSUME NEW i \in 1..(n - 1), NEW j \in 1..(n - 1),
                 M[i].h = "ping_timeout", M[j].h = "ping_coarse_tmr", M[i].arg = M[j].arg
          PROVE  i < j
      <4>0. /\ i + 1 \in DOMAIN L /\ j + 1 \in DOMAIN L
            /\ L[i + 1].h = "ping_timeout" /\ L[j + 1].h = "ping_coarse_tmr" /\ L[i + 1].arg = L[j + 1].arg
        BY <1>0, <1>5, <3>1
      <4>1. i + 1 < j + 1
        BY <1>0, <4>0 DEF PingFirst
      <4> QED
        BY <4>1
    <3> QED
      BY <1>7, <3>1 DEF PingFirst
  <2> QED
    BY <2>1, <2>2, <2>3
<1>10. ASSUME NEW e \in Entries(M)
       PROVE  \E c \in Nat : /\ Keyed(e.h, e.arg, c) \in Entries(L) /\ e.due = c - d /\ e.due \in Nat
                             /\ ~(e.h = L[1].h /\ e.arg = L[1].arg)
  <2>1. PICK i \in 1..(n - 1) : e = Entry(M[i])
    BY <1>7 DEF Entries
  <2>2. e.h = M[i].h /\ e.arg = M[i].arg /\ e.due = M[i].due
    BY <2>1 DEF Entry
  <2> DEFINE j == i + 1
  <2>3. /\ j \in 1..n /\ j # 1 /\ e.h = L[j].h /\ e.arg = L[j].arg /\ e.due = L[j].due - d
        /\ L[j].due \in Nat /\ M[i] \in Timeout
    BY <1>0, <1>5, <2>2
  <2> HIDE DEF j
  <2>4. Keyed(e.h, e.arg, L[j].due) = Entry(L[j]) /\ Entry(L[j]) \in Entries(L)
    BY <1>0, <2>3 DEF Keyed, Entry, Entries
  <2>5. ~(e.h = L[1].h /\ e.arg = L[1].arg)
    BY <1>0, <1>2, <2>3 DEF Single
  <2>6. e.due \in Nat
    BY <2>2, <2>3 DEF Timeout
  <2> QED
    BY <2>3, <2>4, <2>5, <2>6
<1>11. ASSUME NEW e \in Entries(L), ~(e.h = L[1].h /\ e.arg = L[1].arg)
       PROVE  Keyed(e.h, e.arg, e.due - d) \in Entries(M)
  <2>1. PICK j \in 1..n : e = Entry(L[j])
    BY <1>0 DEF Entries
  <2>2. e.h = L[j].h /\ e.arg = L[j].arg /\ e.due = L[j].due /\ j # 1
    <3>1. e.h = L[j].h /\ e.arg = L[j].arg /\ e.due = L[j].due
      BY <2>1 DEF Entry
    <3> QED
      BY <1>11, <3>1
  <2> DEFINE i == j - 1
  <2>3. i \in 1..(n - 1) /\ i + 1 = j
    BY <1>0, <2>2
  <2> HIDE DEF i
  <2>4. Keyed(e.h, e.arg, e.due - d) = Entry(M[i]) /\ i \in DOMAIN M
    BY <1>5, <1>7, <2>2, <2>3 DEF Entry, Keyed
  <2> QED
    BY <2>4 DEF Entries
<1>12. ASSUME L[1].h = "ping_coarse_tmr", NEW e \in Entries(L) PROVE ~(e.h = "ping_timeout" /\ e.arg = L[1].arg)
  <2>1. PICK j \in 1..n : e = Entry(L[j])
    BY <1>0 DEF Entries
  <2>2. e.h = L[j].h /\ e.arg = L[j].arg
    BY <2>1 DEF Entry
  <2> QED
    BY <1>0, <1>2, <1>12, <2>2 DEF PingFirst
<1> QED
  BY <1>0, <1>2, <1>3, <1>7, <1>8, <1>9, <1>10, <1>11, <1>12 DEF Lined, M, d

-----------------------------------------------------------------------------
(* The calls, on the whole state. *)
LEMMA TimeoutIs ==
  ASSUME NEW s, NEW ms, NEW h, NEW arg
  PROVE  sys_timeout(s, ms, h, arg) = [s EXCEPT !.list = Scheduled(s.list, ms, h, arg)]
<1> DEFINE r == Record(s.list, ms, h, arg)
           t == ms - (IF Before(s.list, ms) = 0 THEN 0 ELSE s.list[Before(s.list, ms)].due)
<1>1. r.time = t
  BY DEF Record
<1>2. r = [h |-> h, arg |-> arg, time |-> t, due |-> ms]
  BY DEF Record
<1> QED
  BY <1>1, <1>2 DEF sys_timeout, Scheduled, Insertion

LEMMA EntryIs ==
  ASSUME NEW L, NEW e \in Entries(L)
  PROVE  \E i \in DOMAIN L : e.h = L[i].h /\ e.arg = L[i].arg /\ e.due = L[i].due /\ e = Keyed(e.h, e.arg, e.due)
BY DEF Entries, Entry, Keyed

LEMMA RecordEntry ==
  ASSUME NEW L, NEW i \in DOMAIN L
  PROVE  Entry(L[i]) \in Entries(L) /\ Entry(L[i]).h = L[i].h /\ Entry(L[i]).arg = L[i].arg /\ Entry(L[i]).due = L[i].due
BY DEF Entries, Entry

LEMMA KeyedIs ==
  ASSUME NEW h, NEW arg, NEW d
  PROVE  Keyed(h, arg, d).h = h /\ Keyed(h, arg, d).arg = arg /\ Keyed(h, arg, d).due = d
BY DEF Keyed

(* A record is put on the list: t is s with it. *)
TimeoutAdded(t, s, ms, h, arg) ==
  /\ Typed(t) /\ Lined(t.list) /\ Entries(t.list) = Entries(s.list) \cup {Keyed(h, arg, ms)}
  /\ \A f \in TmrFields \ {"list"} : t[f] = s[f]
LEMMA TimeoutAdds ==
  ASSUME NEW s, Typed(s), Lined(s.list), NEW ms \in Nat, NEW arg \in Nat,
         NEW h \in Cyclic \cup {"tcpip"} \cup PingTimers,
         \A e \in Entries(s.list) : ~(e.h = h /\ e.arg = arg),
         h = "ping_timeout" => \A e \in Entries(s.list) : ~(e.h = "ping_coarse_tmr" /\ e.arg = arg),
         h = "ping_coarse_tmr" => \A e \in Entries(s.list) : e.h = "ping_timeout" /\ e.arg = arg => e.due <= ms
  PROVE  TimeoutAdded(sys_timeout(s, ms, h, arg), s, ms, h, arg)
<1> DEFINE L == s.list
           M == Scheduled(L, ms, h, arg)
           t == sys_timeout(s, ms, h, arg)
<1>1. \A i \in DOMAIN L : Entry(L[i]) \in Entries(L) /\ Entry(L[i]).h = L[i].h /\ Entry(L[i]).arg = L[i].arg /\ Entry(L[i]).due = L[i].due
  BY RecordEntry
<1>2. /\ \A i \in DOMAIN L : ~(L[i].h = h /\ L[i].arg = arg)
      /\ h = "ping_timeout" => \A i \in DOMAIN L : ~(L[i].h = "ping_coarse_tmr" /\ L[i].arg = arg)
      /\ h = "ping_coarse_tmr" => \A i \in DOMAIN L : L[i].h = "ping_timeout" /\ L[i].arg = arg => L[i].due <= ms
  BY <1>1
<1>3. Lined(M) /\ Entries(M) = Entries(L) \cup {Keyed(h, arg, ms)}
  <2> HIDE DEF L
  <2> QED
    BY <1>2, InsertLines DEF L
<1>4. t = [s EXCEPT !.list = M]
  BY TimeoutIs
<1> HIDE DEF M, t
<1>5. t = [f \in TmrFields |-> t[f]] /\ t.list = M /\ \A f \in TmrFields \ {"list"} : t[f] = s[f]
  BY <1>4 DEF Typed, TmrFields
<1>6. Typed(t)
  BY <1>5 DEF Typed, TmrFields
<1>7. TimeoutAdded(t, s, ms, h, arg)
  BY <1>3, <1>5, <1>6 DEF TimeoutAdded
<1> QED
  BY <1>7 DEF t

(* The cyclic timers and the TCP timer are nobody's in particular. *)
LEMMA TimeoutPlain ==
  ASSUME NEW s, Typed(s), Lined(s.list), NEW ms \in Nat, NEW h \in Cyclic \cup {"tcpip"},
         \A e \in Entries(s.list) : ~(e.h = h /\ e.arg = NoArg)
  PROVE  TimeoutAdded(sys_timeout(s, ms, h, NoArg), s, ms, h, NoArg)
<1>1. NoArg \in Nat /\ h \in Cyclic \cup {"tcpip"} \cup PingTimers
  BY DEF NoArg
<1>2. h # "ping_timeout" /\ h # "ping_coarse_tmr"
  BY TimerConstants
<1> DEFINE a == NoArg
<1>3. a \in Nat /\ \A e \in Entries(s.list) : ~(e.h = h /\ e.arg = a)
  BY <1>1
<1> HIDE DEF a
<1>4. TimeoutAdded(sys_timeout(s, ms, h, a), s, ms, h, a)
  BY <1>1, <1>2, <1>3, TimeoutAdds
<1> QED
  BY <1>4 DEF a

LEMMA TimeoutPing ==
  ASSUME NEW s, Typed(s), Lined(s.list), NEW ms \in Nat, NEW p \in Nat,
         \A e \in Entries(s.list) : ~(e.h = "ping_timeout" /\ e.arg = p) /\ ~(e.h = "ping_coarse_tmr" /\ e.arg = p)
  PROVE  TimeoutAdded(sys_timeout(s, ms, "ping_timeout", p), s, ms, "ping_timeout", p)
<1>1. "ping_timeout" \in Cyclic \cup {"tcpip"} \cup PingTimers /\ "ping_timeout" # "ping_coarse_tmr"
  BY DEF PingTimers
<1> QED
  BY <1>1, TimeoutAdds

LEMMA TimeoutNext ==
  ASSUME NEW s, Typed(s), Lined(s.list), NEW ms \in Nat, NEW p \in Nat,
         \A e \in Entries(s.list) : /\ ~(e.h = "ping_coarse_tmr" /\ e.arg = p)
                                    /\ e.h = "ping_timeout" /\ e.arg = p => e.due <= ms
  PROVE  TimeoutAdded(sys_timeout(s, ms, "ping_coarse_tmr", p), s, ms, "ping_coarse_tmr", p)
<1> DEFINE h == "ping_coarse_tmr"
<1>1. h \in Cyclic \cup {"tcpip"} \cup PingTimers /\ h # "ping_timeout"
  BY DEF PingTimers
<1>2. \A e \in Entries(s.list) : ~(e.h = h /\ e.arg = p)
  OBVIOUS
<1>3. \A e \in Entries(s.list) : e.h = "ping_timeout" /\ e.arg = p => e.due <= ms
  OBVIOUS
<1> HIDE DEF h
<1>4. TimeoutAdded(sys_timeout(s, ms, h, p), s, ms, h, p)
  BY <1>1, <1>2, <1>3, TimeoutAdds
<1> QED
  BY <1>4 DEF h

(* A record is taken off the list, if it is there. *)
LEMMA UntimeoutDrops ==
  ASSUME NEW s, Typed(s), Lined(s.list), NEW h, NEW arg
  PROVE  LET t == sys_untimeout(s, h, arg)
             D == Entries(s.list)
         IN  /\ Typed(t) /\ Lined(t.list)
             /\ \A f \in TmrFields \ {"list"} : t[f] = s[f]
             /\ Entries(t.list) = {e \in D : ~(e.h = h /\ e.arg = arg)}
<1> DEFINE L == s.list
           K == {i \in DOMAIN L : L[i].h = h /\ L[i].arg = arg}
           k == Min(K)
           t == sys_untimeout(s, h, arg)
           D == Entries(L)
<1>0. L \in Seq(Timeout) /\ Single(L) /\ DOMAIN L = 1..Len(L) /\ Len(L) \in Nat
  BY ListIs DEF Lined
<1>1. CASE K = {}
  <2>1. t = s
    BY <1>1 DEF sys_untimeout
  <2>2. D = {e \in D : ~(e.h = h /\ e.arg = arg)}
    <3>1. ASSUME NEW e \in D PROVE ~(e.h = h /\ e.arg = arg)
      BY <1>1, EntryIs
    <3> QED
      BY <3>1
  <2> QED
    BY <2>1, <2>2
<1>2. CASE K # {}
  <2>1. k \in K
    <3>1. K \in SUBSET Nat
      BY <1>0
    <3> HIDE DEF K
    <3> QED
      BY <1>2, <3>1, LeastNat DEF Min
  <2> DEFINE M == Removal(L, k)
  <2>2. t = [s EXCEPT !.list = M]
    BY <1>2 DEF sys_untimeout, Removal
  <2> HIDE DEF k
  <2>3. k \in DOMAIN L /\ L[k].h = h /\ L[k].arg = arg
    BY <2>1
  <2>4. Lined(M) /\ Entries(M) = D \ {Entry(L[k])}
    BY <2>3, RemoveLines
  <2>5. D \ {Entry(L[k])} = {e \in D : ~(e.h = h /\ e.arg = arg)}
    <3>1. ASSUME NEW e \in D, e.h = h, e.arg = arg PROVE e = Entry(L[k])
      <4>1. PICK i \in DOMAIN L : e.h = L[i].h /\ e.arg = L[i].arg /\ e.due = L[i].due /\ e = Keyed(e.h, e.arg, e.due)
        BY EntryIs
      <4>2. i = k
        BY <1>0, <2>3, <3>1, <4>1 DEF Single
      <4> QED
        BY <4>1, <4>2 DEF Keyed, Entry
    <3>2. Entry(L[k]).h = h /\ Entry(L[k]).arg = arg
      BY <2>3, RecordEntry
    <3> QED
      BY <3>1, <3>2
  <2> HIDE DEF M, t
  <2>6. t = [f \in TmrFields |-> t[f]] /\ t.list = M /\ \A f \in TmrFields \ {"list"} : t[f] = s[f]
    BY <2>2 DEF Typed, TmrFields
  <2>7. Typed(t)
    BY <2>6 DEF Typed, TmrFields
  <2> QED
    BY <2>4, <2>5, <2>6, <2>7 DEF t
<1> QED
  BY <1>1, <1>2

-----------------------------------------------------------------------------
(* Time: products of the numbers of calls, intervals and ticks. *)
LEMMA Distributes == \A a, b, c \in Int : (a + b) * c = a * c + b * c /\ a * c \in Int
OBVIOUS

LEMMA ProductNat == \A a, b \in Nat : a * b \in Nat
OBVIOUS

LEMMA WholeMs ==
  ASSUME NEW x \in Nat, NEW T \in Nat, 0 < T
  PROVE  x \div T \in Nat /\ (x \div T) * T <= x
OBVIOUS

LEMMA RanIs ==
  ASSUME NEW s, Typed(s), NEW h \in Cyclic, NEW d \in Nat, d <= Interval[h]
  PROVE  /\ s.fires[h] \in Nat /\ s.fires[h] * Interval[h] \in Nat /\ Ran(s, h, d) \in Nat
         /\ s.fires[h] * Interval[h] * TicksPerMs <= Ran(s, h, d)
<1> DEFINE a == s.fires[h] * Interval[h]
           b == Interval[h] - d
<1>1. s.fires[h] \in Nat /\ Interval[h] \in Nat /\ TicksPerMs \in Nat
  BY TimerConstants DEF Typed
<1>2. a \in Nat /\ b \in Nat
  BY <1>1, ProductNat
<1>3. Ran(s, h, d) = (a + b) * TicksPerMs
  BY DEF Ran
<1> HIDE DEF a, b
<1>4. (a + b) * TicksPerMs = a * TicksPerMs + b * TicksPerMs /\ a * TicksPerMs \in Nat /\ b * TicksPerMs \in Nat
  BY <1>1, <1>2, Distributes, ProductNat
<1> QED
  BY <1>1, <1>2, <1>3, <1>4 DEF a

(* When c of the time that has passed is used up, all are due c earlier. *)
LEMMA RanOn ==
  ASSUME NEW s, NEW t, Typed(s), Typed(t), NEW h \in Cyclic, NEW d \in Nat, NEW c \in Nat, c <= d,
         s.diff \in Nat, c <= s.diff, Pace(s, h, d),
         t.fires = s.fires, t.now = s.now, t.elapsed = 0, t.diff = s.diff - c
  PROVE  Pace(t, h, d - c)
<1> DEFINE T == TicksPerMs
           q == s.diff - c
           a == s.fires[h] * Interval[h] + (Interval[h] - d)
<1>1. s.fires[h] \in Nat /\ s.fires[h] * Interval[h] \in Nat /\ Interval[h] \in Nat /\ T \in Nat /\ d <= Interval[h] /\ s.now \in Nat
  BY RanIs, TimerConstants DEF Pace, Typed
<1>2. a \in Nat /\ q \in Nat /\ s.diff # Idle
  BY <1>1 DEF Idle
<1>3. Ran(s, h, d) = a * T /\ a * T + s.diff * T <= s.now
  BY <1>2 DEF Pace, Ran
<1>4. Ran(t, h, d - c) = (a + c) * T
  <2>1. s.fires[h] * Interval[h] + (Interval[h] - (d - c)) = a + c
    BY <1>1
  <2> HIDE DEF a
  <2> QED
    BY <2>1 DEF Ran
<1>5. s.diff = q + c
  BY <1>1
<1> HIDE DEF a, q, T
<1>6. (a + c) * T = a * T + c * T /\ (q + c) * T = q * T + c * T /\ a * T \in Nat /\ c * T \in Nat /\ q * T \in Nat
  BY <1>1, <1>2, Distributes, ProductNat
<1>7. (a + c) * T + q * T <= s.now
  BY <1>1, <1>3, <1>5, <1>6
<1>8. (a + c) * T + 0 <= s.now
  BY <1>1, <1>6, <1>7
<1>9. d - c <= Interval[h]
  BY <1>1
<1> QED
  BY <1>4, <1>7, <1>8, <1>9 DEF Pace, q, T

(* A call that was due counts as much as the interval it starts. *)
LEMMA RanAgain ==
  ASSUME NEW s, NEW t, Typed(s), NEW h \in Cyclic, Pace(s, h, 0),
         t.fires[h] = s.fires[h] + 1, t.now = s.now, t.elapsed = s.elapsed, t.diff = s.diff
  PROVE  Pace(t, h, Interval[h])
<1> DEFINE n == s.fires[h]
           I == Interval[h]
<1>1. n \in Nat /\ I \in Nat
  BY TimerConstants DEF Typed
<1>2. (n + 1) * I = n * I + 1 * I /\ n * I \in Int /\ 1 * I = I
  <2>1. n \in Int /\ 1 \in Int /\ I \in Int
    BY <1>1
  <2>2. 1 * I = I
    BY <2>1
  <2> HIDE DEF n, I
  <2> QED
    BY <2>1, <2>2, Distributes, Zenon
<1>3. (n + 1) * I + (I - I) = n * I + (I - 0)
  <2> DEFINE a == n * I
             b == (n + 1) * I
  <2>1. b = a + I /\ a \in Int
    BY <1>2
  <2> HIDE DEF a, b
  <2>2. b + (I - I) = a + (I - 0)
    BY <1>1, <2>1
  <2> QED
    BY <2>2 DEF a, b
<1>4. Ran(t, h, I) = Ran(s, h, 0)
  BY <1>3 DEF Ran
<1> QED
  BY <1>1, <1>4 DEF Pace

-----------------------------------------------------------------------------
(* The handlers.  t has taken the record of h and arg off the list. *)
Owes(t, h, arg) ==
  /\ Typed(t) /\ Lined(t.list)
  /\ \A e \in Entries(t.list) : ~(e.h = h /\ e.arg = arg)
  /\ Served(t, Entries(t.list) \cup {Keyed(h, arg, 0)})

LEMMA PaceSame ==
  ASSUME NEW s, NEW t, NEW h, NEW d, Pace(s, h, d),
         t.fires[h] = s.fires[h], t.now = s.now, t.elapsed = s.elapsed, t.diff = s.diff
  PROVE  Pace(t, h, d)
<1>1. Ran(t, h, d) = Ran(s, h, d)
  BY DEF Ran
<1> QED
  BY <1>1 DEF Pace

LEMMA CyclicAgain ==
  ASSUME NEW t, NEW h \in Cyclic, Owes(t, h, NoArg)
  PROVE  TmrKept(CyclicTimer(t, h))
<1> DEFINE u == [t EXCEPT !.fires[h] = @ + 1, !.tcp_tmr = IF h = "tcp" THEN @ + 1 ELSE @]
           F == [t.fires EXCEPT ![h] = t.fires[h] + 1]
           v == CyclicTimer(t, h)
           D == Entries(t.list)
           x == Keyed(h, NoArg, 0)
           y == Keyed(h, NoArg, Interval[h])
<1>0. Typed(t) /\ Lined(t.list) /\ Served(t, D \cup {x}) /\ \A e \in D : ~(e.h = h /\ e.arg = NoArg)
  BY DEF Owes
<1>1. F \in [Cyclic -> Nat] /\ F[h] = t.fires[h] + 1 /\ \A g \in Cyclic \ {h} : F[g] = t.fires[g]
  BY <1>0 DEF Typed
<1>2. /\ u = [f \in TmrFields |-> u[f]] /\ u.fires = F
      /\ \A f \in TmrFields \ {"fires", "tcp_tmr"} : u[f] = t[f]
  BY <1>0 DEF Typed, TmrFields
<1>3. v = sys_timeout(u, Interval[h], h, NoArg)
  BY DEF CyclicTimer
<1> HIDE DEF u, F, v
<1>4. Typed(u)
  BY <1>0, <1>1, <1>2 DEF Typed, TmrFields
<1>5. u.list = t.list
  BY <1>2 DEF TmrFields
<1>6. /\ Typed(v) /\ Lined(v.list) /\ Entries(v.list) = D \cup {y}
      /\ \A f \in TmrFields \ {"list"} : v[f] = u[f]
  <2>1. Interval[h] \in Nat /\ NoArg \in Nat /\ h \in Cyclic \cup {"tcpip"} \cup PingTimers
    BY TimerConstants DEF NoArg
  <2>2. h # "ping_timeout" /\ h # "ping_coarse_tmr"
    BY TimerConstants
  <2>3. Lined(u.list) /\ \A e \in Entries(u.list) : ~(e.h = h /\ e.arg = NoArg)
    BY <1>0, <1>5
  <2> DEFINE ms == Interval[h]
             w == sys_timeout(u, ms, h, NoArg)
  <2>4. ms \in Nat
    BY <2>1
  <2> HIDE DEF ms
  <2>5. /\ Typed(w) /\ Lined(w.list) /\ Entries(w.list) = Entries(u.list) \cup {Keyed(h, NoArg, ms)}
        /\ \A f \in TmrFields \ {"list"} : w[f] = u[f]
    <3>1. TimeoutAdded(w, u, ms, h, NoArg)
      BY <1>4, <2>3, <2>4, TimeoutPlain
    <3> HIDE DEF w
    <3> QED
      BY <3>1 DEF TimeoutAdded
  <2>6. v = w
    BY <1>3 DEF ms
  <2> HIDE DEF w
  <2> QED
    BY <1>5, <2>5, <2>6 DEF ms
<1>7. /\ v.fires = F /\ v.ping = t.ping /\ v.active = t.active /\ v.pcbs = t.pcbs
      /\ v.now = t.now /\ v.elapsed = t.elapsed /\ v.diff = t.diff
  BY <1>2, <1>6 DEF TmrFields
<1>8. x.h = h /\ x.arg = NoArg /\ x.due = 0 /\ y.h = h /\ y.arg = NoArg /\ y.due = Interval[h]
  BY KeyedIs
<1> HIDE DEF x, y, D
<1>9. Callers(t, D \cup {x}) /\ Present(D \cup {x}) /\ TcpArmed(t, D \cup {x}) /\ Paced(t, D \cup {x}) /\ Reported(t, D \cup {x})
  BY <1>0 DEF Served
<1>10. Callers(v, D \cup {y})
  BY <1>7, <1>8, <1>9, TimerConstants DEF Callers
<1>11. Present(D \cup {y})
  BY <1>8, <1>9 DEF Present
<1>12. TcpArmed(v, D \cup {y})
  <2>1. h # "tcpip"
    BY TimerConstants
  <2>2. (\E e \in D \cup {x} : e.h = "tcpip") <=> (\E e \in D \cup {y} : e.h = "tcpip")
    BY <1>8, <2>1
  <2> QED
    BY <1>7, <1>9, <2>2 DEF TcpArmed
<1>13. Paced(v, D \cup {y})
  <2>1. ASSUME NEW e \in D, e.h \in Cyclic PROVE Pace(v, e.h, e.due)
    <3>1. e.arg = NoArg
      BY <1>9, <2>1, TimerConstants DEF Callers, PingTimers
    <3>2. e.h # h
      BY <1>0, <3>1 DEF D
    <3>3. v.fires[e.h] = t.fires[e.h]
      BY <1>1, <1>7, <2>1, <3>2
    <3>4. Pace(t, e.h, e.due)
      BY <1>9, <2>1 DEF Paced
    <3> QED
      BY <1>7, <3>3, <3>4, PaceSame
  <2>2. Pace(v, y.h, y.due)
    <3>1. Pace(t, h, 0)
      BY <1>8, <1>9 DEF Paced
    <3>2. v.fires[h] = t.fires[h] + 1
      BY <1>1, <1>7
    <3>3. Pace(v, h, Interval[h])
      BY <1>0, <1>7, <3>1, <3>2, RanAgain
    <3> QED
      BY <1>8, <3>3
  <2> QED
    BY <2>1, <2>2 DEF Paced
<1>14. Reported(v, D \cup {y})
  <2>1. ASSUME NEW p \in Pings PROVE Pending(D \cup {y}, p) = Pending(D \cup {x}, p)
    <3>1. h # "ping_timeout"
      BY TimerConstants
    <3>2. (\E e \in D \cup {x} : e.h = "ping_timeout" /\ e.arg = p) <=> (\E e \in D \cup {y} : e.h = "ping_timeout" /\ e.arg = p)
      BY <1>8, <3>1
    <3> QED
      BY <3>2 DEF Pending
  <2> QED
    BY <1>7, <1>9, <2>1 DEF Reported
<1> QED
  BY <1>6, <1>10, <1>11, <1>12, <1>13, <1>14 DEF TmrKept, Served, v

(* The TCP timer is put on the list. *)
LEMMA TcpTimerAdds ==
  ASSUME NEW u, NEW E, Typed(u), Lined(u.list), Served(u, E),
         u.active = TRUE,
         \A e \in Entries(u.list) : ~(e.h = "tcpip" /\ e.arg = NoArg),
         E = Entries(u.list) \cup {Keyed("tcpip", NoArg, 0)}
  PROVE  TmrKept(sys_timeout(u, TCP_TMR_INTERVAL, "tcpip", NoArg))
<1> DEFINE v == sys_timeout(u, TCP_TMR_INTERVAL, "tcpip", NoArg)
           D == Entries(u.list)
           x == Keyed("tcpip", NoArg, 0)
           y == Keyed("tcpip", NoArg, TCP_TMR_INTERVAL)
<1>1. /\ Typed(v) /\ Lined(v.list) /\ Entries(v.list) = D \cup {y}
      /\ \A f \in TmrFields \ {"list"} : v[f] = u[f]
  <2>1. TCP_TMR_INTERVAL \in Nat /\ NoArg \in Nat
    BY TimerConstants DEF NoArg
  <2>2. TimeoutAdded(v, u, TCP_TMR_INTERVAL, "tcpip", NoArg)
    BY <2>1, TimeoutPlain
  <2> HIDE DEF v, D, y
  <2> QED
    BY <2>2 DEF TimeoutAdded, D, y
<1> HIDE DEF v
<1>2. /\ v.fires = u.fires /\ v.ping = u.ping /\ v.active = u.active /\ v.pcbs = u.pcbs
      /\ v.now = u.now /\ v.elapsed = u.elapsed /\ v.diff = u.diff
  BY <1>1 DEF TmrFields
<1>3. /\ x.h = "tcpip" /\ x.arg = NoArg /\ y.h = "tcpip" /\ y.arg = NoArg /\ y.due = TCP_TMR_INTERVAL
      /\ TCP_TMR_INTERVAL \in Nat
  BY KeyedIs, TimerConstants
<1> HIDE DEF x, y, D
<1>4. E = D \cup {x}
  BY DEF D, x
<1>5. Callers(u, E) /\ Present(E) /\ TcpArmed(u, E) /\ Paced(u, E) /\ Reported(u, E)
  BY DEF Served
<1>6. Callers(v, D \cup {y})
  BY <1>2, <1>3, <1>4, <1>5 DEF Callers
<1>7. Present(D \cup {y})
  BY <1>3, <1>4, <1>5 DEF Present
<1>8. TcpArmed(v, D \cup {y})
  BY <1>2, <1>3, <1>5 DEF TcpArmed
<1>9. Paced(v, D \cup {y})
  <2>1. ASSUME NEW e \in D \cup {y}, e.h \in Cyclic PROVE Pace(v, e.h, e.due)
    <3>1. e \in E
      BY <1>3, <1>4, <2>1, TimerConstants
    <3>2. Pace(u, e.h, e.due)
      BY <1>5, <2>1, <3>1 DEF Paced
    <3> QED
      BY <1>2, <3>2, PaceSame
  <2> QED
    BY <2>1 DEF Paced
<1>10. Reported(v, D \cup {y})
  <2>1. ASSUME NEW p \in Pings PROVE Pending(D \cup {y}, p) = Pending(E, p)
    BY <1>3, <1>4 DEF Pending
  <2> QED
    BY <1>2, <1>5, <2>1 DEF Reported
<1> QED
  BY <1>1, <1>6, <1>7, <1>8, <1>9, <1>10 DEF TmrKept, Served, v

(* The rest of the state as it was. *)
SameClock(s, v) == v.fires = s.fires /\ v.now = s.now /\ v.elapsed = s.elapsed /\ v.diff = s.diff
SameTcp(s, v) == v.active = s.active /\ v.pcbs = s.pcbs

LEMMA PacedSame ==
  ASSUME NEW s, NEW v, NEW E, NEW D, SameClock(s, v), Paced(s, E),
         \A e \in D : e.h \in Cyclic => e \in E
  PROVE  Paced(v, D)
<1>1. ASSUME NEW e \in D, e.h \in Cyclic PROVE Pace(v, e.h, e.due)
  <2>1. Pace(s, e.h, e.due)
    BY <1>1 DEF Paced
  <2> QED
    BY <2>1, PaceSame DEF SameClock
<1> QED
  BY <1>1 DEF Paced

LEMMA PendingSame ==
  ASSUME NEW E, NEW D, NEW p, \A e : e.h = "ping_timeout" /\ e.arg = p => (e \in D <=> e \in E)
  PROVE  Pending(D, p) = Pending(E, p)
<1>1. (\E e \in D : e.h = "ping_timeout" /\ e.arg = p) <=> (\E e \in E : e.h = "ping_timeout" /\ e.arg = p)
  OBVIOUS
<1> QED
  BY <1>1 DEF Pending

LEMMA PendingIs ==
  ASSUME NEW E, NEW p
  PROVE  Pending(E, p) \in {0, 1}
BY DEF Pending

(* tcpip_tcp_timer: again while there are connections. *)
LEMMA TcpTimerRuns ==
  ASSUME NEW t, Owes(t, "tcpip", NoArg)
  PROVE  TmrKept(tcpip_tcp_timer(t))
<1> DEFINE u == [t EXCEPT !.tcp_tmr = @ + 1]
           D == Entries(t.list)
           x == Keyed("tcpip", NoArg, 0)
           E == D \cup {x}
<1>0. /\ Typed(t) /\ Lined(t.list) /\ (\A e \in D : ~(e.h = "tcpip" /\ e.arg = NoArg))
      /\ Callers(t, E) /\ Present(E) /\ TcpArmed(t, E) /\ Paced(t, E) /\ Reported(t, E)
  BY DEF Owes, Served
<1>1. u = [f \in TmrFields |-> u[f]] /\ \A f \in TmrFields \ {"tcp_tmr"} : u[f] = t[f]
  BY <1>0 DEF Typed, TmrFields
<1>2. tcpip_tcp_timer(t) = IF t.pcbs THEN sys_timeout(u, TCP_TMR_INTERVAL, "tcpip", NoArg) ELSE [u EXCEPT !.active = FALSE]
  BY DEF tcpip_tcp_timer
<1> HIDE DEF u
<1>3. Typed(u) /\ u.list = t.list /\ u.ping = t.ping /\ SameClock(t, u) /\ SameTcp(t, u)
  BY <1>0, <1>1 DEF Typed, TmrFields, SameClock, SameTcp
<1>4. x.h = "tcpip" /\ x.arg = NoArg
  BY KeyedIs
<1>5. CASE t.pcbs = TRUE
  <2>1. t.active = TRUE
    BY <1>0, <1>5 DEF TcpArmed
  <2> HIDE DEF D, x, E
  <2>2. Served(u, E)
    <3>1. Callers(u, E) /\ TcpArmed(u, E) /\ Reported(u, E)
      BY <1>0, <1>3 DEF Callers, TcpArmed, Reported, SameTcp
    <3>2. Paced(u, E)
      BY <1>0, <1>3, PacedSame
    <3> QED
      BY <1>0, <3>1, <3>2 DEF Served
  <2>3. E = Entries(u.list) \cup {Keyed("tcpip", NoArg, 0)} /\ Lined(u.list)
        /\ \A e \in Entries(u.list) : ~(e.h = "tcpip" /\ e.arg = NoArg)
    BY <1>0, <1>3 DEF D, E, x
  <2>4. u.active = TRUE
    BY <1>3, <2>1 DEF SameTcp
  <2>5. TmrKept(sys_timeout(u, TCP_TMR_INTERVAL, "tcpip", NoArg))
    BY <1>3, <2>2, <2>3, <2>4, TcpTimerAdds
  <2> QED
    BY <1>2, <1>5, <2>5
<1>6. CASE t.pcbs = FALSE
  <2> DEFINE v == [u EXCEPT !.active = FALSE]
  <2>1. tcpip_tcp_timer(t) = v
    BY <1>2, <1>6
  <2>2. v = [f \in TmrFields |-> v[f]] /\ v.active = FALSE /\ \A f \in TmrFields \ {"active"} : v[f] = u[f]
    BY <1>1 DEF TmrFields
  <2> HIDE DEF v
  <2>3. Typed(v) /\ v.list = t.list /\ v.ping = t.ping /\ SameClock(t, v) /\ v.pcbs = FALSE
    BY <1>3, <1>6, <2>2 DEF Typed, TmrFields, SameClock, SameTcp
  <2>4. ASSUME NEW e \in D PROVE e.h # "tcpip"
    BY <1>0 DEF Callers, PingTimers
  <2> HIDE DEF D, x
  <2>5. Callers(v, D)
    BY <1>0, <2>3 DEF Callers
  <2>6. Present(D)
    BY <1>0, <1>4, TimerConstants DEF Present
  <2>7. TcpArmed(v, D)
    BY <2>2, <2>3, <2>4 DEF TcpArmed
  <2>8. Paced(v, D)
    BY <1>0, <2>3, PacedSame
  <2>9. Reported(v, D)
    <3>1. ASSUME NEW p \in Pings PROVE Pending(D, p) = Pending(E, p)
      BY <1>4, PendingSame
    <3> QED
      BY <1>0, <2>3, <3>1 DEF Reported
  <2> QED
    BY <1>0, <2>1, <2>3, <2>5, <2>6, <2>7, <2>8, <2>9 DEF TmrKept, Served, D
<1>7. t.pcbs \in BOOLEAN
  BY <1>0 DEF TcpArmed
<1> QED
  BY <1>5, <1>6, <1>7

(* Connections come and go: tcp_timer_needed starts the timer. *)
LEMMA ConnectionsCome ==
  ASSUME NEW s, TmrKept(s)
  PROVE  TmrKept(tcp_timer_needed([s EXCEPT !.pcbs = TRUE])) /\ TmrKept([s EXCEPT !.pcbs = FALSE])
<1> DEFINE t == [s EXCEPT !.pcbs = TRUE]
           o == [s EXCEPT !.pcbs = FALSE]
           D == Entries(s.list)
<1>0. /\ Typed(s) /\ Lined(s.list)
      /\ Callers(s, D) /\ Present(D) /\ TcpArmed(s, D) /\ Paced(s, D) /\ Reported(s, D)
  BY DEF TmrKept, Served
<1>1. t = [f \in TmrFields |-> t[f]] /\ t.pcbs = TRUE /\ \A f \in TmrFields \ {"pcbs"} : t[f] = s[f]
  BY <1>0 DEF Typed, TmrFields
<1>2. o = [f \in TmrFields |-> o[f]] /\ o.pcbs = FALSE /\ \A f \in TmrFields \ {"pcbs"} : o[f] = s[f]
  BY <1>0 DEF Typed, TmrFields
<1> HIDE DEF t, o
<1>3. Typed(t) /\ t.list = s.list /\ t.ping = s.ping /\ SameClock(s, t) /\ t.active = s.active
  BY <1>0, <1>1 DEF Typed, TmrFields, SameClock
<1>4. Typed(o) /\ o.list = s.list /\ o.ping = s.ping /\ SameClock(s, o) /\ o.active = s.active
  BY <1>0, <1>2 DEF Typed, TmrFields, SameClock
<1> HIDE DEF D
<1>5. TmrKept(o)
  <2>1. Callers(o, D) /\ TcpArmed(o, D) /\ Reported(o, D)
    BY <1>0, <1>2, <1>4 DEF Callers, TcpArmed, Reported
  <2>2. Paced(o, D)
    BY <1>0, <1>4, PacedSame
  <2> QED
    BY <1>0, <1>4, <2>1, <2>2 DEF TmrKept, Served, D
<1>6. CASE s.active = TRUE
  <2>1. tcp_timer_needed(t) = t
    BY <1>1, <1>3, <1>6 DEF tcp_timer_needed
  <2>2. Callers(t, D) /\ TcpArmed(t, D) /\ Reported(t, D)
    BY <1>0, <1>1, <1>3, <1>6 DEF Callers, TcpArmed, Reported
  <2>3. Paced(t, D)
    BY <1>0, <1>3, PacedSame
  <2> QED
    BY <1>0, <1>3, <1>5, <2>1, <2>2, <2>3 DEF TmrKept, Served, D, t, o
<1>7. CASE s.active = FALSE
  <2> DEFINE u == [t EXCEPT !.active = TRUE]
             x == Keyed("tcpip", NoArg, 0)
             E == D \cup {x}
  <2>1. tcp_timer_needed(t) = sys_timeout(u, TCP_TMR_INTERVAL, "tcpip", NoArg)
    BY <1>1, <1>3, <1>7 DEF tcp_timer_needed
  <2>2. u = [f \in TmrFields |-> u[f]] /\ u.active = TRUE /\ \A f \in TmrFields \ {"active"} : u[f] = t[f]
    BY <1>1 DEF TmrFields
  <2> HIDE DEF u
  <2>3. Typed(u) /\ u.list = s.list /\ u.ping = s.ping /\ SameClock(s, u) /\ u.pcbs = TRUE
    BY <1>1, <1>3, <2>2 DEF Typed, TmrFields, SameClock
  <2>4. x.h = "tcpip" /\ x.arg = NoArg /\ x.due = 0
    BY KeyedIs
  <2> HIDE DEF x
  <2>5. Callers(u, E)
    BY <1>0, <2>3, <2>4 DEF Callers
  <2>6. Present(E)
    BY <1>0 DEF Present
  <2>7. TcpArmed(u, E)
    BY <2>2, <2>3, <2>4 DEF TcpArmed
  <2>8. Paced(u, E)
    <3>1. \A e \in E : e.h \in Cyclic => e \in D
      BY <2>4, TimerConstants
    <3> QED
      BY <1>0, <2>3, <3>1, PacedSame
  <2>9. Reported(u, E)
    <3>1. ASSUME NEW p \in Pings PROVE Pending(E, p) = Pending(D, p)
      BY <2>4, PendingSame
    <3> QED
      BY <1>0, <2>3, <3>1 DEF Reported
  <2> HIDE DEF E
  <2>10. \A e \in Entries(u.list) : ~(e.h = "tcpip" /\ e.arg = NoArg)
    BY <1>0, <1>7, <2>3 DEF TcpArmed, D
  <2>11. E = Entries(u.list) \cup {Keyed("tcpip", NoArg, 0)} /\ Lined(u.list) /\ Served(u, E)
    BY <1>0, <2>3, <2>5, <2>6, <2>7, <2>8, <2>9 DEF E, x, D, Served
  <2>12. TmrKept(sys_timeout(u, TCP_TMR_INTERVAL, "tcpip", NoArg))
    BY <2>2, <2>3, <2>10, <2>11, TcpTimerAdds
  <2> QED
    BY <1>5, <2>1, <2>12 DEF t, o
<1>8. s.active \in BOOLEAN
  BY <1>0 DEF TcpArmed
<1> QED
  BY <1>6, <1>7, <1>8

-----------------------------------------------------------------------------
(* The pings.  Only the records of p change, and p is owed no less.        *)
OfPing(e, p) == e.h \in PingTimers /\ e.arg = p
LEMMA ServedPing ==
  ASSUME NEW s, NEW v, NEW E, NEW D, NEW p \in Pings, NEW r, Typed(s), Served(s, E),
         SameClock(s, v), SameTcp(s, v), v.ping = [s.ping EXCEPT ![p] = r],
         \A e : ~OfPing(e, p) => (e \in D <=> e \in E),
         \A e \in D : OfPing(e, p) => e.due \in Nat /\ r.state = "live",
         r.sent <= r.answered + r.timeouts + Pending(D, p)
  PROVE  Served(v, D)
<1>0. Callers(s, E) /\ Present(E) /\ TcpArmed(s, E) /\ Paced(s, E) /\ Reported(s, E)
  BY DEF Served
<1>1. v.ping[p] = r /\ \A q \in Pings \ {p} : v.ping[q] = s.ping[q]
  BY DEF Typed
<1>2. \A e : OfPing(e, p) => e.h \notin Cyclic /\ e.h # "tcpip" /\ e.arg = p
  BY TimerConstants DEF OfPing, PingTimers
<1>3. Callers(v, D)
  <2>1. ASSUME NEW e \in D
        PROVE  /\ e.due \in Nat
               /\ \/ e.h \in Cyclic \cup {"tcpip"} /\ e.arg = NoArg
                  \/ e.h \in PingTimers /\ e.arg \in Pings /\ v.ping[e.arg].state = "live"
    <3>1. CASE OfPing(e, p)
      BY <1>1, <2>1, <3>1 DEF OfPing
    <3>2. CASE ~OfPing(e, p)
      <4>1. e \in E
        BY <2>1, <3>2
      <4>2. /\ e.due \in Nat
            /\ \/ e.h \in Cyclic \cup {"tcpip"} /\ e.arg = NoArg
               \/ e.h \in PingTimers /\ e.arg \in Pings /\ s.ping[e.arg].state = "live"
        BY <1>0, <4>1 DEF Callers
      <4> QED
        BY <1>1, <3>2, <4>2 DEF OfPing
    <3> QED
      BY <3>1, <3>2
  <2> QED
    BY <2>1 DEF Callers
<1>4. Present(D)
  BY <1>0, <1>2 DEF Present
<1>5. TcpArmed(v, D)
  <2>1. (\E e \in D : e.h = "tcpip") <=> (\E e \in E : e.h = "tcpip")
    BY <1>2
  <2> QED
    BY <1>0, <2>1 DEF TcpArmed, SameTcp
<1>6. Paced(v, D)
  BY <1>0, <1>2, PacedSame
<1>7. Reported(v, D)
  <2>1. ASSUME NEW q \in Pings, q # p PROVE Pending(D, q) = Pending(E, q)
    <3>1. \A e : e.h = "ping_timeout" /\ e.arg = q => (e \in D <=> e \in E)
      BY <1>2, <2>1
    <3> QED
      BY <3>1, PendingSame
  <2> QED
    BY <1>0, <1>1, <2>1 DEF Reported
<1> QED
  BY <1>3, <1>4, <1>5, <1>6, <1>7 DEF Served

(* The record of one ping is changed, and what list and clock are not. *)
LEMMA PingSet ==
  ASSUME NEW s, Typed(s), NEW p \in Pings, NEW r \in PingRecord, NEW v,
         v = [f \in TmrFields |-> v[f]], v.ping = [s.ping EXCEPT ![p] = r],
         \A f \in TmrFields \ {"ping", "seq", "seqno", "echo"} : v[f] = s[f]
  PROVE  Typed(v) /\ v.list = s.list /\ SameClock(s, v) /\ SameTcp(s, v)
<1>1. v.ping \in [Pings -> PingRecord]
  BY DEF Typed
<1>2. /\ v.elapsed = s.elapsed /\ v.now = s.now /\ v.diff = s.diff /\ v.fires = s.fires /\ v.list = s.list
      /\ v.active = s.active /\ v.pcbs = s.pcbs
  BY DEF TmrFields
<1> QED
  BY <1>1, <1>2 DEF Typed, SameClock, SameTcp

LEMMA PingRecordIs ==
  ASSUME NEW r \in PingRecord
  PROVE  /\ r = [f \in {"state", "sent", "left", "answered", "timeouts"} |-> r[f]]
         /\ r.state \in {"none", "live", "freed"} /\ r.sent \in Nat /\ r.left \in Int /\ r.answered \in Nat /\ r.timeouts \in Nat
BY DEF PingRecord

(* ping_timeout: the ping is reported. *)
LEMMA PingTimesOut ==
  ASSUME NEW t, NEW p \in Pings, Owes(t, "ping_timeout", p)
  PROVE  TmrKept(ping_timeout(t, p))
<1> DEFINE D == Entries(t.list)
           x == Keyed("ping_timeout", p, 0)
           E == D \cup {x}
           o == t.ping[p]
           r == [o EXCEPT !.timeouts = @ + 1]
           v == ping_timeout(t, p)
<1>0. Typed(t) /\ Lined(t.list) /\ Served(t, E) /\ \A e \in D : ~(e.h = "ping_timeout" /\ e.arg = p)
  BY DEF Owes
<1>1. o \in PingRecord
  BY <1>0 DEF Typed
<1>2. v = [f \in TmrFields |-> v[f]] /\ v.ping = [t.ping EXCEPT ![p] = r] /\ \A f \in TmrFields \ {"ping"} : v[f] = t[f]
  BY <1>0 DEF Typed, TmrFields, ping_timeout
<1> HIDE DEF v, o
<1>3. /\ r \in PingRecord /\ r.state = o.state /\ r.sent = o.sent /\ r.answered = o.answered /\ r.timeouts = o.timeouts + 1
      /\ o.sent \in Nat /\ o.answered \in Nat /\ o.timeouts \in Nat
  <2>1. /\ o = [f \in {"state", "sent", "left", "answered", "timeouts"} |-> o[f]]
        /\ o.state \in {"none", "live", "freed"} /\ o.sent \in Nat /\ o.left \in Int /\ o.answered \in Nat /\ o.timeouts \in Nat
    BY <1>1, PingRecordIs
  <2> QED
    BY <2>1 DEF PingRecord
<1> HIDE DEF r
<1>4. Typed(v) /\ v.list = t.list /\ SameClock(t, v) /\ SameTcp(t, v)
  BY <1>0, <1>2, <1>3, PingSet
<1>5. x.h = "ping_timeout" /\ x.arg = p /\ x.due = 0
  BY KeyedIs
<1> HIDE DEF D, x
<1>6. \A e : ~OfPing(e, p) => (e \in D <=> e \in E)
  BY <1>5 DEF OfPing, PingTimers
<1>7. o.state = "live" /\ \A e \in D : e.due \in Nat
  <2>1. Callers(t, E)
    BY <1>0 DEF Served
  <2>2. t.ping[p].state = "live"
    BY <1>5, <2>1, TimerConstants DEF Callers, PingTimers
  <2> QED
    BY <2>1, <2>2 DEF Callers, o
<1>8. r.sent <= r.answered + r.timeouts + Pending(D, p)
  <2>1. Reported(t, E) /\ Pending(E, p) \in {0, 1} /\ Pending(D, p) \in {0, 1}
    BY <1>0, PendingIs DEF Served
  <2>2. o.sent <= o.answered + o.timeouts + Pending(E, p)
    BY <2>1 DEF Reported, o
  <2> QED
    BY <1>3, <2>1, <2>2
<1>9. Served(v, D)
  <2> HIDE DEF E
  <2> QED
    BY <1>0, <1>2, <1>3, <1>4, <1>6, <1>7, <1>8, ServedPing
<1> QED
  BY <1>0, <1>4, <1>9 DEF TmrKept, D, v

(* A ping is sent: it times out before the next one is. *)
LEMMA PingSends ==
  ASSUME NEW s, NEW p \in Pings, Typed(s), Lined(s.list), Served(s, Entries(s.list)), s.ping[p].state = "live",
         \A e \in Entries(s.list) : ~OfPing(e, p)
  PROVE  TmrKept(PingOnce(s, p))
<1> DEFINE D == Entries(s.list)
           o == s.ping[p]
           r == [o EXCEPT !.sent = @ + 1]
           u == ping_send(s, p)
           w == sys_timeout(u, PING_TIMEOUT_MS, "ping_timeout", p)
           v == sys_timeout(w, PingEvery, "ping_coarse_tmr", p)
           y == Keyed("ping_timeout", p, PING_TIMEOUT_MS)
           z == Keyed("ping_coarse_tmr", p, PingEvery)
           M == D \cup {y} \cup {z}
<1>1. o \in PingRecord
  BY DEF Typed
<1>2. /\ u = [f \in TmrFields |-> u[f]] /\ u.ping = [s.ping EXCEPT ![p] = r]
      /\ \A f \in TmrFields \ {"ping", "seq", "echo"} : u[f] = s[f]
  BY DEF Typed, TmrFields, ping_send
<1>3. PingOnce(s, p) = v
  BY DEF PingOnce
<1> HIDE DEF u, o
<1>4. /\ r \in PingRecord /\ r.state = o.state /\ r.sent = o.sent + 1 /\ r.answered = o.answered /\ r.timeouts = o.timeouts
      /\ o.sent \in Nat /\ o.answered \in Nat /\ o.timeouts \in Nat
  <2>1. /\ o = [f \in {"state", "sent", "left", "answered", "timeouts"} |-> o[f]]
        /\ o.state \in {"none", "live", "freed"} /\ o.sent \in Nat /\ o.left \in Int /\ o.answered \in Nat /\ o.timeouts \in Nat
    BY <1>1, PingRecordIs
  <2> QED
    BY <2>1 DEF PingRecord
<1> HIDE DEF r
<1>5. Typed(u) /\ u.list = s.list /\ SameClock(s, u) /\ SameTcp(s, u)
  BY <1>2, <1>4, PingSet
<1>6. p \in Nat /\ PING_TIMEOUT_MS \in Nat /\ PingEvery \in Nat /\ PING_TIMEOUT_MS <= PingEvery
      /\ "ping_timeout" \in Cyclic \cup {"tcpip"} \cup PingTimers /\ "ping_coarse_tmr" \in Cyclic \cup {"tcpip"} \cup PingTimers
      /\ "ping_timeout" # "ping_coarse_tmr"
  BY TimerConstants DEF PingTimers
<1>7. \A e \in Entries(u.list) : ~(e.h = "ping_timeout" /\ e.arg = p) /\ ~(e.h = "ping_coarse_tmr" /\ e.arg = p)
  BY <1>5 DEF OfPing, PingTimers
<1>8. /\ Typed(w) /\ Lined(w.list) /\ Entries(w.list) = D \cup {y}
      /\ \A f \in TmrFields \ {"list"} : w[f] = u[f]
  <2>1. Lined(u.list)
    BY <1>5
  <2>2. /\ Typed(w) /\ Lined(w.list) /\ Entries(w.list) = Entries(u.list) \cup {y}
        /\ \A f \in TmrFields \ {"list"} : w[f] = u[f]
    <3>1. TimeoutAdded(w, u, PING_TIMEOUT_MS, "ping_timeout", p)
      BY <1>5, <1>6, <1>7, <2>1, TimeoutPing
    <3> HIDE DEF w
    <3> QED
      BY <3>1 DEF TimeoutAdded
  <2> HIDE DEF w, y
  <2> QED
    BY <1>5, <2>2
<1>9. /\ y.h = "ping_timeout" /\ y.arg = p /\ y.due = PING_TIMEOUT_MS
      /\ z.h = "ping_coarse_tmr" /\ z.arg = p /\ z.due = PingEvery
  BY KeyedIs
<1> HIDE DEF w, y, D
<1>10. /\ Typed(v) /\ Lined(v.list) /\ Entries(v.list) = M
       /\ \A f \in TmrFields \ {"list"} : v[f] = w[f]
  <2>1. \A e \in Entries(w.list) : /\ ~(e.h = "ping_coarse_tmr" /\ e.arg = p)
                                   /\ e.h = "ping_timeout" /\ e.arg = p => e.due <= PingEvery
    BY <1>5, <1>6, <1>7, <1>8, <1>9 DEF D
  <2>2. /\ Typed(v) /\ Lined(v.list) /\ Entries(v.list) = Entries(w.list) \cup {z}
        /\ \A f \in TmrFields \ {"list"} : v[f] = w[f]
    <3>1. TimeoutAdded(v, w, PingEvery, "ping_coarse_tmr", p)
      BY <1>6, <1>8, <2>1, TimeoutNext
    <3> HIDE DEF v
    <3> QED
      BY <3>1 DEF TimeoutAdded
  <2> HIDE DEF v, z
  <2> QED
    BY <1>8, <2>2
<1> HIDE DEF v, z
<1>11. v.ping = [s.ping EXCEPT ![p] = r] /\ SameClock(s, v) /\ SameTcp(s, v)
  BY <1>2, <1>5, <1>8, <1>10 DEF SameClock, SameTcp, TmrFields
<1>12. \A e : ~OfPing(e, p) => (e \in M <=> e \in D)
  BY <1>9 DEF OfPing, PingTimers
<1>13. \A e \in M : OfPing(e, p) => e.due \in Nat /\ r.state = "live"
  BY <1>4, <1>6, <1>9 DEF D, o
<1>14. r.sent <= r.answered + r.timeouts + Pending(M, p)
  <2>1. Pending(M, p) = 1
    BY <1>9 DEF Pending
  <2>2. Pending(D, p) = 0
    BY DEF Pending, OfPing, PingTimers, D
  <2>3. o.sent <= o.answered + o.timeouts + Pending(D, p)
    BY DEF Served, Reported, o, D
  <2> QED
    BY <1>4, <2>1, <2>2, <2>3
<1>15. Served(v, M)
  <2>1. Served(s, D)
    BY DEF D
  <2> HIDE DEF M
  <2> QED
    BY <1>11, <1>12, <1>13, <1>14, <2>1, ServedPing
<1> QED
  BY <1>3, <1>10, <1>15 DEF TmrKept

(* ping_coarse_tmr: the next ping, or the end of the session, whose last   *)
(* ping has timed out or was answered.                                     *)
LEMMA PingAgain ==
  ASSUME NEW t, NEW p \in Pings, Owes(t, "ping_coarse_tmr", p),
         \A e \in Entries(t.list) : ~(e.h = "ping_timeout" /\ e.arg = p)
  PROVE  TmrKept(ping_coarse_tmr(t, p))
<1> DEFINE D == Entries(t.list)
           x == Keyed("ping_coarse_tmr", p, 0)
           E == D \cup {x}
           o == t.ping[p]
           r == [o EXCEPT !.left = @ - 1]
           u == [t EXCEPT !.ping[p].left = @ - 1]
           w == sys_untimeout(u, "ping_coarse_tmr", p)
           v == [w EXCEPT !.ping[p].state = "freed", !.seq = 0]
           g == [r EXCEPT !.state = "freed"]
<1>0. Typed(t) /\ Lined(t.list) /\ Served(t, E) /\ \A e \in D : ~OfPing(e, p)
  BY DEF Owes, OfPing, PingTimers
<1>1. o \in PingRecord
  BY <1>0 DEF Typed
<1>2. u = [f \in TmrFields |-> u[f]] /\ u.ping = [t.ping EXCEPT ![p] = r] /\ \A f \in TmrFields \ {"ping"} : u[f] = t[f]
  BY <1>0 DEF Typed, TmrFields
<1>3. ping_coarse_tmr(t, p) = IF u.ping[p].left # 0 THEN PingOnce(u, p) ELSE v
  BY DEF ping_coarse_tmr
<1> HIDE DEF u, o, w
<1>4. /\ o = [f \in {"state", "sent", "left", "answered", "timeouts"} |-> o[f]]
      /\ o.state \in {"none", "live", "freed"} /\ o.sent \in Nat /\ o.left \in Int /\ o.answered \in Nat /\ o.timeouts \in Nat
  BY <1>1, PingRecordIs
<1>5. r \in PingRecord /\ r.state = o.state /\ r.sent = o.sent /\ r.answered = o.answered /\ r.timeouts = o.timeouts
  BY <1>4 DEF PingRecord
<1>6. g \in PingRecord /\ g.sent = o.sent /\ g.answered = o.answered /\ g.timeouts = o.timeouts
  <2> HIDE DEF r
  <2>1. /\ r = [f \in {"state", "sent", "left", "answered", "timeouts"} |-> r[f]]
        /\ r.sent \in Nat /\ r.left \in Int /\ r.answered \in Nat /\ r.timeouts \in Nat
    BY <1>5, PingRecordIs
  <2>2. g = [state |-> "freed", sent |-> r.sent, left |-> r.left, answered |-> r.answered, timeouts |-> r.timeouts]
    BY <2>1
  <2> HIDE DEF g
  <2> QED
    BY <1>5, <2>1, <2>2 DEF PingRecord
<1> HIDE DEF r, g
<1>7. Typed(u) /\ u.list = t.list /\ SameClock(t, u) /\ SameTcp(t, u)
  BY <1>0, <1>2, <1>5, PingSet
<1>8. x.h = "ping_coarse_tmr" /\ x.arg = p
  BY KeyedIs
<1> HIDE DEF D, x
<1>9. \A e : ~OfPing(e, p) => (e \in D <=> e \in E)
  BY <1>8 DEF OfPing, PingTimers
<1>10. o.state = "live"
  <2>1. Callers(t, E)
    BY <1>0 DEF Served
  <2> QED
    BY <1>8, <2>1, TimerConstants DEF Callers, PingTimers, o
<1>11. o.sent <= o.answered + o.timeouts + Pending(D, p)
  <2>1. Pending(D, p) = Pending(E, p)
    BY <1>8, PendingSame
  <2> QED
    BY <1>0, <2>1 DEF Served, Reported, o
<1>12. Served(u, D)
  <2>1. \A e \in D : OfPing(e, p) => e.due \in Nat /\ r.state = "live"
    BY <1>0
  <2>2. r.sent <= r.answered + r.timeouts + Pending(D, p)
    BY <1>5, <1>11
  <2> HIDE DEF E
  <2> QED
    BY <1>0, <1>2, <1>7, <1>9, <2>1, <2>2, ServedPing
<1>13. CASE u.ping[p].left # 0
  <2>1. u.ping[p] = r
    BY <1>0, <1>2 DEF Typed
  <2>2. TmrKept(PingOnce(u, p))
    <3>1. Lined(u.list) /\ Served(u, Entries(u.list)) /\ \A e \in Entries(u.list) : ~OfPing(e, p)
      BY <1>0, <1>7, <1>12 DEF D
    <3>2. u.ping[p].state = "live"
      BY <1>5, <1>10, <2>1
    <3> QED
      BY <1>7, <3>1, <3>2, PingSends
  <2> QED
    BY <1>3, <1>13, <2>2
<1>14. CASE u.ping[p].left = 0
  <2>1. /\ Typed(w) /\ Lined(w.list) /\ \A f \in TmrFields \ {"list"} : w[f] = u[f]
        /\ Entries(w.list) = {e \in Entries(u.list) : ~(e.h = "ping_coarse_tmr" /\ e.arg = p)}
    <3>1. Lined(u.list)
      BY <1>0, <1>7
    <3> QED
      BY <1>7, <3>1, UntimeoutDrops DEF w
  <2>2. Entries(w.list) = D
    BY <1>0, <1>7, <2>1 DEF D, OfPing, PingTimers
  <2>3. w.ping = [t.ping EXCEPT ![p] = r]
    BY <1>2, <2>1 DEF TmrFields
  <2>4. /\ v = [f \in TmrFields |-> v[f]] /\ v.ping = [t.ping EXCEPT ![p] = g]
        /\ \A f \in TmrFields \ {"ping", "seq"} : v[f] = w[f]
    <3>1. w.ping[p] = r /\ w.ping \in [Pings -> PingRecord] /\ t.ping \in [Pings -> PingRecord]
      BY <1>0, <2>1, <2>3 DEF Typed
    <3>2. w = [f \in TmrFields |-> w[f]]
      BY <2>1 DEF Typed
    <3> DEFINE P == [w.ping EXCEPT ![p].state = "freed"]
    <3>3. P = [t.ping EXCEPT ![p] = g]
      BY <2>3, <3>1 DEF g
    <3>4. v = [w EXCEPT !.ping = P, !.seq = 0]
      OBVIOUS
    <3> HIDE DEF P, v
    <3>5. v = [f \in TmrFields |-> v[f]] /\ v.ping = P /\ \A f \in TmrFields \ {"ping", "seq"} : v[f] = w[f]
      BY <3>2, <3>4 DEF TmrFields
    <3> QED
      BY <3>3, <3>5
  <2> HIDE DEF v
  <2>5. v.ping \in [Pings -> PingRecord]
    BY <1>0, <1>6, <2>4 DEF Typed
  <2>6. Typed(v) /\ v.list = w.list /\ SameClock(t, v) /\ SameTcp(t, v)
    <3>1. v.list = w.list /\ SameClock(w, v) /\ SameTcp(w, v)
      BY <2>4 DEF SameClock, SameTcp, TmrFields
    <3>2. SameClock(u, w) /\ SameTcp(u, w)
      BY <2>1 DEF SameClock, SameTcp, TmrFields
    <3>3. Typed(v)
      BY <2>1, <2>4, <2>5, <3>1 DEF Typed, SameClock
    <3> QED
      BY <1>7, <3>1, <3>2, <3>3 DEF SameClock, SameTcp
  <2>7. Served(v, D)
    <3>1. \A e \in D : OfPing(e, p) => e.due \in Nat /\ g.state = "live"
      BY <1>0
    <3>2. g.sent <= g.answered + g.timeouts + Pending(D, p)
      BY <1>6, <1>11
    <3> HIDE DEF E
    <3> QED
      BY <1>0, <1>9, <2>4, <2>6, <3>1, <3>2, ServedPing
  <2>8. Lined(v.list) /\ Entries(v.list) = D
    BY <2>1, <2>2, <2>6
  <2>9. TmrKept(v)
    BY <2>6, <2>7, <2>8 DEF TmrKept
  <2> QED
    BY <1>3, <1>14, <2>9
<1> QED
  BY <1>13, <1>14

(* ping_start: a session that was not there before has no records. *)
LEMMA PingStarts ==
  ASSUME NEW s, TmrKept(s), NEW p \in Pings, s.ping[p].state = "none"
  PROVE  TmrKept(ping_start(s, p))
<1> DEFINE D == Entries(s.list)
           r == [NoPing EXCEPT !.state = "live", !.left = PingCount]
           u == [s EXCEPT !.ping[p] = r]
<1>0. Typed(s) /\ Lined(s.list) /\ Served(s, D)
  BY DEF TmrKept
<1>1. r \in PingRecord /\ r.state = "live" /\ r.sent = 0 /\ r.answered = 0 /\ r.timeouts = 0
  <2>1. r = [state |-> "live", sent |-> 0, left |-> PingCount, answered |-> 0, timeouts |-> 0]
    <3>1. /\ NoPing = [f \in {"state", "sent", "left", "answered", "timeouts"} |-> NoPing[f]]
          /\ NoPing.sent = 0 /\ NoPing.answered = 0 /\ NoPing.timeouts = 0
      BY DEF NoPing
    <3> DEFINE a == [NoPing EXCEPT !.state = "live"]
    <3>2. r = [a EXCEPT !.left = PingCount]
      OBVIOUS
    <3> HIDE DEF r
    <3>3. a = [state |-> "live", sent |-> NoPing.sent, left |-> NoPing.left, answered |-> NoPing.answered, timeouts |-> NoPing.timeouts]
      BY <3>1
    <3> HIDE DEF a
    <3> QED
      BY <3>1, <3>2, <3>3
  <2>2. PingCount \in Int
    BY TimerConstants
  <2> HIDE DEF r
  <2> QED
    BY <2>1, <2>2 DEF PingRecord
<1>2. ping_start(s, p) = PingOnce(u, p)
  BY DEF ping_start
<1> HIDE DEF r
<1>3. u = [f \in TmrFields |-> u[f]] /\ u.ping = [s.ping EXCEPT ![p] = r] /\ \A f \in TmrFields \ {"ping"} : u[f] = s[f]
  BY <1>0 DEF Typed, TmrFields
<1> HIDE DEF u
<1>4. Typed(u) /\ u.list = s.list /\ SameClock(s, u) /\ SameTcp(s, u)
  BY <1>0, <1>1, <1>3, PingSet
<1>5. \A e \in D : ~OfPing(e, p)
  <2>1. Callers(s, D)
    BY <1>0 DEF Served
  <2> HIDE DEF D
  <2> QED
    BY <2>1, TimerConstants DEF Callers, OfPing, PingTimers
<1> HIDE DEF D
<1>6. Served(u, D)
  <2>1. Pending(D, p) \in {0, 1}
    BY PendingIs
  <2>2. r.sent <= r.answered + r.timeouts + Pending(D, p)
    BY <1>1, <2>1
  <2> QED
    BY <1>0, <1>3, <1>4, <1>5, <2>2, ServedPing
<1>7. Lined(u.list) /\ Served(u, Entries(u.list)) /\ \A e \in Entries(u.list) : ~OfPing(e, p)
  BY <1>0, <1>4, <1>5, <1>6 DEF D
<1>8. u.ping[p].state = "live"
  BY <1>0, <1>1, <1>3 DEF Typed
<1> QED
  BY <1>2, <1>4, <1>7, <1>8, PingSends

(* ping_recv: an answer takes the timeout off the list, once. *)
LEMMA PingAnswered ==
  ASSUME NEW s, TmrKept(s), NEW n
  PROVE  TmrKept(ping_recv(s, n))
<1> DEFINE T == Takes(s, n)
           p == Min(T)
           w == sys_untimeout(s, "ping_timeout", p)
           v == [w EXCEPT !.ping[p].answered = @ + 1, !.seqno = n]
           o == s.ping[p]
           r == [o EXCEPT !.answered = @ + 1]
           E == Entries(s.list)
           D == {e \in E : ~(e.h = "ping_timeout" /\ e.arg = p)}
<1>0. Typed(s) /\ Lined(s.list) /\ Served(s, E)
  BY DEF TmrKept
<1>1. CASE T = {} \/ s.seqno = n
  BY <1>1 DEF ping_recv
<1>2. CASE ~(T = {} \/ s.seqno = n)
  <2>1. ping_recv(s, n) = v
    BY <1>2 DEF ping_recv
  <2>2. p \in T
    <3>1. T \in SUBSET Nat /\ T # {}
      BY <1>2, TimerConstants DEF Takes
    <3> HIDE DEF T
    <3> QED
      BY <3>1, LeastNat DEF Min
  <2>3. p \in Pings /\ s.ping[p].state = "live"
    BY <2>2 DEF Takes
  <2>4. /\ Typed(w) /\ Lined(w.list) /\ \A f \in TmrFields \ {"list"} : w[f] = s[f]
        /\ Entries(w.list) = D
    BY <1>0, UntimeoutDrops
  <2> HIDE DEF p, w, T
  <2>5. o \in PingRecord /\ w.ping = s.ping /\ w.ping[p] = o
    BY <1>0, <2>3, <2>4 DEF Typed, TmrFields
  <2>6. /\ v = [f \in TmrFields |-> v[f]] /\ v.ping = [s.ping EXCEPT ![p] = r]
        /\ \A f \in TmrFields \ {"ping", "seqno"} : v[f] = w[f]
    <3>1. w = [f \in TmrFields |-> w[f]]
      BY <2>4 DEF Typed
    <3> DEFINE P == [w.ping EXCEPT ![p].answered = @ + 1]
    <3>2. P = [s.ping EXCEPT ![p] = r]
      BY <2>5
    <3>3. v = [w EXCEPT !.ping = P, !.seqno = n]
      OBVIOUS
    <3> HIDE DEF P, v, r
    <3>4. v = [f \in TmrFields |-> v[f]] /\ v.ping = P /\ \A f \in TmrFields \ {"ping", "seqno"} : v[f] = w[f]
      BY <3>1, <3>3 DEF TmrFields
    <3> QED
      BY <3>2, <3>4
  <2> HIDE DEF v, o
  <2>7. /\ r \in PingRecord /\ r.state = o.state /\ r.sent = o.sent /\ r.answered = o.answered + 1 /\ r.timeouts = o.timeouts
        /\ o.sent \in Nat /\ o.answered \in Nat /\ o.timeouts \in Nat
    <3>1. /\ o = [f \in {"state", "sent", "left", "answered", "timeouts"} |-> o[f]]
          /\ o.state \in {"none", "live", "freed"} /\ o.sent \in Nat /\ o.left \in Int /\ o.answered \in Nat /\ o.timeouts \in Nat
      BY <2>5, PingRecordIs
    <3> QED
      BY <3>1 DEF PingRecord
  <2> HIDE DEF r
  <2>8. v.ping \in [Pings -> PingRecord]
    BY <1>0, <2>6, <2>7 DEF Typed
  <2>9. Typed(v) /\ v.list = w.list /\ SameClock(s, v) /\ SameTcp(s, v)
    <3>1. v.list = w.list /\ SameClock(w, v) /\ SameTcp(w, v)
      BY <2>6 DEF SameClock, SameTcp, TmrFields
    <3>2. SameClock(s, w) /\ SameTcp(s, w)
      BY <2>4 DEF SameClock, SameTcp, TmrFields
    <3>3. Typed(v)
      BY <2>4, <2>6, <2>8, <3>1 DEF Typed, SameClock
    <3> QED
      BY <3>1, <3>2, <3>3 DEF SameClock, SameTcp
  <2> HIDE DEF E
  <2>10. Served(v, D)
    <3>1. \A e : ~OfPing(e, p) => (e \in D <=> e \in E)
      BY DEF OfPing, PingTimers
    <3>2. \A e \in D : OfPing(e, p) => e.due \in Nat /\ r.state = "live"
      BY <1>0, <2>3, <2>7 DEF Served, Callers, o
    <3>3. r.sent <= r.answered + r.timeouts + Pending(D, p)
      <4>1. Reported(s, E) /\ Pending(E, p) \in {0, 1} /\ Pending(D, p) \in {0, 1}
        BY <1>0, PendingIs DEF Served
      <4>2. o.sent <= o.answered + o.timeouts + Pending(E, p)
        BY <2>3, <4>1 DEF Reported, o
      <4> QED
        BY <2>7, <4>1, <4>2
    <3> HIDE DEF D
    <3> QED
      BY <1>0, <2>3, <2>6, <2>9, <3>1, <3>2, <3>3, ServedPing
  <2> HIDE DEF D
  <2>11. TmrKept(v)
    BY <2>4, <2>9, <2>10 DEF TmrKept
  <2> QED
    BY <2>1, <2>11
<1> QED
  BY <1>1, <1>2

-----------------------------------------------------------------------------
(* sys_check_timeouts.  There is always a record; the first one goes, and  *)
(* its handler is owed.                                                    *)
LEMMA NeverEmpty ==
  ASSUME NEW s, TmrKept(s)
  PROVE  s.list # << >> /\ 1 \in DOMAIN s.list
<1>1. PICK h \in Cyclic : TRUE
  BY TimerConstants
<1>2. \E e \in Entries(s.list) : e.h = h
  BY DEF TmrKept, Served, Present
<1>3. \E i \in DOMAIN s.list : TRUE
  BY <1>2, EntryIs
<1>4. s.list \in Seq(Timeout)
  BY DEF TmrKept, Lined
<1>5. Len(s.list) \in Nat /\ DOMAIN s.list = 1..Len(s.list)
  BY <1>4, ListIs
<1>6. Len(s.list) # 0
  BY <1>3, <1>5
<1> QED
  BY <1>4, <1>5, <1>6, EmptySeq

Taken(s) == [s EXCEPT !.list = Behind(s.list), !.diff = s.diff - s.list[1].time, !.elapsed = 0]
LEMMA TakenOwes ==
  ASSUME NEW s, TmrKept(s), s.diff # Idle, s.list[1].time <= s.diff
  PROVE  LET r == s.list[1]
         IN  /\ Owes(Taken(s), r.h, r.arg)
             /\ (r.h \in Cyclic \cup {"tcpip"} /\ r.arg = NoArg) \/ (r.h \in PingTimers /\ r.arg \in Pings)
             /\ r.h = "ping_coarse_tmr" => \A e \in Entries(Taken(s).list) : ~(e.h = "ping_timeout" /\ e.arg = r.arg)
<1> DEFINE L == s.list
           M == Behind(L)
           E == Entries(L)
           r == L[1]
           c == r.due
           q == s.diff - r.time
           t == Taken(s)
           x == Keyed(r.h, r.arg, 0)
           D == Entries(M) \cup {x}
<1>0. /\ Typed(s) /\ Lined(L)
      /\ Callers(s, E) /\ Present(E) /\ TcpArmed(s, E) /\ Paced(s, E) /\ Reported(s, E)
  BY DEF TmrKept, Served
<1>1. L # << >> /\ 1 \in DOMAIN L
  BY NeverEmpty
<1>2. /\ Lined(M) /\ r \in Timeout /\ c = r.time
      /\ \A e \in Entries(M) : \E d \in Nat :
            /\ Keyed(e.h, e.arg, d) \in E /\ e.due = d - c /\ e.due \in Nat
            /\ ~(e.h = r.h /\ e.arg = r.arg)
      /\ \A e \in E : (e.h = r.h /\ e.arg = r.arg) \/ Keyed(e.h, e.arg, e.due - c) \in Entries(M)
      /\ r.h = "ping_coarse_tmr" => \A e \in E : ~(e.h = "ping_timeout" /\ e.arg = r.arg)
  <2> HIDE DEF L
  <2> QED
    BY <1>0, <1>1, BehindLines
<1>3. Entry(r) \in E /\ Entry(r).h = r.h /\ Entry(r).arg = r.arg /\ Entry(r).due = c
  <2> HIDE DEF L
  <2> QED
    BY <1>1, RecordEntry
<1>4. c \in Nat /\ s.diff \in Nat /\ c <= s.diff /\ q \in Nat /\ q = s.diff - c
  <2>1. s.diff \in Nat
    BY <1>0 DEF Typed
  <2>2. c \in Nat
    BY <1>2 DEF Timeout
  <2> QED
    BY <1>2, <2>1, <2>2
<1>5. /\ t = [f \in TmrFields |-> t[f]] /\ t.list = M /\ t.diff = q /\ t.elapsed = 0
      /\ \A f \in TmrFields \ {"list", "diff", "elapsed"} : t[f] = s[f]
  <2>1. s = [f \in TmrFields |-> s[f]] /\ t = [s EXCEPT !.list = M, !.diff = q, !.elapsed = 0]
    BY <1>0 DEF Typed, Taken
  <2> HIDE DEF t, M, q
  <2> QED
    BY <2>1 DEF TmrFields
<1>6. x.h = r.h /\ x.arg = r.arg /\ x.due = 0
  BY KeyedIs
<1> HIDE DEF L, M, E, r, c, q, t, x
<1>7. /\ t.now = s.now /\ t.fires = s.fires /\ t.ping = s.ping /\ SameTcp(s, t)
  BY <1>5 DEF TmrFields, SameTcp
<1>8. Typed(t)
  BY <1>0, <1>4, <1>5, <1>7 DEF Typed
<1>9. ASSUME NEW e \in D
      PROVE  \E d \in Nat, k \in E : k.h = e.h /\ k.arg = e.arg /\ k.due = d /\ e.due = d - c /\ e.due \in Nat
  <2>1. CASE e \in Entries(M)
    <3>1. PICK d \in Nat : Keyed(e.h, e.arg, d) \in E /\ e.due = d - c /\ e.due \in Nat
      BY <1>2, <2>1
    <3>2. Keyed(e.h, e.arg, d).h = e.h /\ Keyed(e.h, e.arg, d).arg = e.arg /\ Keyed(e.h, e.arg, d).due = d
      BY KeyedIs
    <3> QED
      BY <3>1, <3>2
  <2>2. CASE e = x
    <3>1. c - c = 0
      BY <1>4
    <3> QED
      BY <1>3, <1>4, <1>6, <2>2, <3>1
  <2> QED
    BY <1>9, <2>1, <2>2
<1>10. ASSUME NEW e \in E PROVE \E k \in D : k.h = e.h /\ k.arg = e.arg
  <2>1. CASE e.h = r.h /\ e.arg = r.arg
    BY <1>6, <2>1
  <2>2. CASE Keyed(e.h, e.arg, e.due - c) \in Entries(M)
    <3>1. Keyed(e.h, e.arg, e.due - c).h = e.h /\ Keyed(e.h, e.arg, e.due - c).arg = e.arg
      BY KeyedIs
    <3> QED
      BY <2>2, <3>1
  <2> QED
    BY <1>2, <2>1, <2>2
<1> HIDE DEF D
<1>11. Callers(t, D)
  <2>1. ASSUME NEW e \in D
        PROVE  /\ e.due \in Nat
               /\ \/ e.h \in Cyclic \cup {"tcpip"} /\ e.arg = NoArg
                  \/ e.h \in PingTimers /\ e.arg \in Pings /\ t.ping[e.arg].state = "live"
    <3>1. PICK k \in E : k.h = e.h /\ k.arg = e.arg /\ e.due \in Nat
      BY <1>9
    <3>2. \/ k.h \in Cyclic \cup {"tcpip"} /\ k.arg = NoArg
          \/ k.h \in PingTimers /\ k.arg \in Pings /\ s.ping[k.arg].state = "live"
      BY <1>0, <3>1 DEF Callers
    <3> QED
      BY <1>7, <3>1, <3>2
  <2> QED
    BY <2>1 DEF Callers
<1>12. Present(D)
  BY <1>0, <1>10 DEF Present
<1>13. TcpArmed(t, D)
  <2>1. (\E e \in D : e.h = "tcpip") <=> (\E e \in E : e.h = "tcpip")
    BY <1>9, <1>10
  <2> QED
    BY <1>0, <1>7, <2>1 DEF TcpArmed, SameTcp
<1>14. Paced(t, D)
  <2>1. ASSUME NEW e \in D, e.h \in Cyclic PROVE Pace(t, e.h, e.due)
    <3>1. PICK d \in Nat, k \in E : k.h = e.h /\ k.due = d /\ e.due = d - c /\ e.due \in Nat
      BY <1>9
    <3>2. Pace(s, e.h, d)
      BY <1>0, <2>1, <3>1 DEF Paced
    <3>3. c <= d
      BY <1>4, <3>1
    <3>4. Pace(t, e.h, d - c)
      BY <1>0, <1>4, <1>5, <1>7, <1>8, <2>1, <3>2, <3>3, RanOn
    <3> QED
      BY <3>1, <3>4
  <2> QED
    BY <2>1 DEF Paced
<1>15. Reported(t, D)
  <2>1. ASSUME NEW p \in Pings PROVE Pending(D, p) = Pending(E, p)
    <3>1. (\E e \in D : e.h = "ping_timeout" /\ e.arg = p) <=> (\E e \in E : e.h = "ping_timeout" /\ e.arg = p)
      BY <1>9, <1>10
    <3> QED
      BY <3>1 DEF Pending
  <2> QED
    BY <1>0, <1>7, <2>1 DEF Reported
<1>16. \A e \in Entries(M) : ~(e.h = r.h /\ e.arg = r.arg)
  BY <1>2
<1>17. Owes(t, r.h, r.arg)
  BY <1>2, <1>5, <1>8, <1>11, <1>12, <1>13, <1>14, <1>15, <1>16 DEF Owes, Served, D, x
<1>18. (r.h \in Cyclic \cup {"tcpip"} /\ r.arg = NoArg) \/ (r.h \in PingTimers /\ r.arg \in Pings)
  BY <1>0, <1>3 DEF Callers
<1>19. ASSUME r.h = "ping_coarse_tmr", NEW e \in Entries(M) PROVE ~(e.h = "ping_timeout" /\ e.arg = r.arg)
  <2>1. \E k \in E : k.h = e.h /\ k.arg = e.arg
    BY <1>9 DEF D
  <2> QED
    BY <1>2, <1>19, <2>1
<1> QED
  BY <1>5, <1>17, <1>18, <1>19 DEF t, r, L

LEMMA ExpireKeeps ==
  ASSUME TmrInv, Expire
  PROVE  TmrInv'
<1> DEFINE r == tmr.list[1]
           t == Taken(tmr)
<1>1. TmrKept(tmr) /\ tmr.diff # Idle /\ tmr.list[1].time <= tmr.diff
  BY DEF TmrInv, Expire
<1>2. tmr' = Handler(t, r)
  <2>1. Behind(tmr.list) = [i \in 1..(Len(tmr.list) - 1) |-> [tmr.list[i + 1] EXCEPT !.due = @ - r.due]]
    BY DEF Behind
  <2> QED
    BY <2>1 DEF Expire, Taken
<1>3. /\ Owes(t, r.h, r.arg)
      /\ (r.h \in Cyclic \cup {"tcpip"} /\ r.arg = NoArg) \/ (r.h \in PingTimers /\ r.arg \in Pings)
      /\ r.h = "ping_coarse_tmr" => \A e \in Entries(t.list) : ~(e.h = "ping_timeout" /\ e.arg = r.arg)
  BY <1>1, TakenOwes
<1> HIDE DEF r, t
<1>4. CASE r.h \in Cyclic
  <2>1. Handler(t, r) = CyclicTimer(t, r.h) /\ r.arg = NoArg
    BY <1>3, <1>4, TimerConstants DEF Handler, PingTimers
  <2> QED
    BY <1>2, <1>3, <1>4, <2>1, CyclicAgain DEF TmrInv
<1>5. CASE r.h = "tcpip"
  <2>1. Handler(t, r) = tcpip_tcp_timer(t) /\ r.arg = NoArg
    BY <1>3, <1>5, TimerConstants DEF Handler, PingTimers
  <2> QED
    BY <1>2, <1>3, <1>5, <2>1, TcpTimerRuns DEF TmrInv
<1>6. CASE r.h = "ping_timeout"
  <2>1. Handler(t, r) = ping_timeout(t, r.arg) /\ r.arg \in Pings
    BY <1>3, <1>6, TimerConstants DEF Handler, PingTimers
  <2> QED
    BY <1>2, <1>3, <1>6, <2>1, PingTimesOut DEF TmrInv
<1>7. CASE r.h = "ping_coarse_tmr"
  <2>1. Handler(t, r) = ping_coarse_tmr(t, r.arg) /\ r.arg \in Pings
    BY <1>3, <1>7, TimerConstants DEF Handler, PingTimers
  <2> QED
    BY <1>2, <1>3, <1>7, <2>1, PingAgain DEF TmrInv
<1> QED
  BY <1>3, <1>4, <1>5, <1>6, <1>7 DEF PingTimers

(* Time passes, and a check begins and ends. *)
LEMMA ClockSteps ==
  ASSUME TmrInv, CheckTimeouts \/ CheckDone \/ Passes
  PROVE  TmrInv'
<1> DEFINE s == tmr
           t == tmr'
           E == Entries(s.list)
<1>0. /\ Typed(s) /\ Lined(s.list)
      /\ Callers(s, E) /\ Present(E) /\ TcpArmed(s, E) /\ Paced(s, E) /\ Reported(s, E)
  BY DEF TmrInv, TmrKept, Served
<1>1. SUFFICES /\ Typed(t) /\ Paced(t, E)
               /\ t.list = s.list /\ t.ping = s.ping /\ t.active = s.active /\ t.pcbs = s.pcbs
  <2> SUFFICES ASSUME Typed(t), Paced(t, E), t.list = s.list, t.ping = s.ping, t.active = s.active, t.pcbs = s.pcbs
               PROVE  TmrKept(t)
    BY DEF TmrInv
  <2> HIDE DEF t, s
  <2>1. Callers(t, E) /\ TcpArmed(t, E) /\ Reported(t, E)
    <3> HIDE DEF E
    <3> QED
      BY <1>0 DEF Callers, TcpArmed, Reported
  <2> QED
    BY <1>0, <2>1 DEF TmrKept, Served
<1>2. s = [f \in TmrFields |-> s[f]] /\ s.elapsed \in Nat /\ s.now \in Nat /\ s.diff \in Nat \cup {Idle} /\ TicksPerMs \in Nat /\ 0 < TicksPerMs
  BY <1>0, TimerConstants DEF Typed
<1>3. ASSUME NEW e \in E, e.h \in Cyclic
      PROVE  /\ Ran(s, e.h, e.due) \in Nat /\ e.due <= Interval[e.h] /\ Ran(s, e.h, e.due) + s.elapsed <= s.now
  <2>1. e.due \in Nat /\ Pace(s, e.h, e.due)
    BY <1>0, <1>3 DEF Callers, Paced
  <2> QED
    BY <1>0, <1>3, <2>1, RanIs DEF Pace
<1>4. CASE CheckTimeouts
  <2> DEFINE q == s.elapsed \div TicksPerMs
  <2>1. q \in Nat /\ q * TicksPerMs <= s.elapsed /\ q * TicksPerMs \in Nat
    BY <1>2, WholeMs, ProductNat
  <2>2. t = [s EXCEPT !.diff = q]
    BY <1>4 DEF CheckTimeouts
  <2> HIDE DEF q, s, t
  <2>3. t = [f \in TmrFields |-> t[f]] /\ t.diff = q /\ \A f \in TmrFields \ {"diff"} : t[f] = s[f]
    BY <1>2, <2>2 DEF TmrFields
  <2>4. /\ t.list = s.list /\ t.ping = s.ping /\ t.active = s.active /\ t.pcbs = s.pcbs
        /\ t.now = s.now /\ t.elapsed = s.elapsed /\ t.fires = s.fires
    BY <2>3 DEF TmrFields
  <2>5. Typed(t)
    BY <1>0, <2>1, <2>3, <2>4 DEF Typed
  <2>6. ASSUME NEW e \in E, e.h \in Cyclic PROVE Pace(t, e.h, e.due)
    <3>1. Ran(t, e.h, e.due) = Ran(s, e.h, e.due)
      BY <2>4 DEF Ran
    <3> DEFINE a == Ran(s, e.h, e.due)
               b == q * TicksPerMs
    <3>2. a \in Nat /\ a + s.elapsed <= s.now /\ e.due <= Interval[e.h] /\ b \in Nat /\ b <= s.elapsed
      BY <1>3, <2>1, <2>6
    <3>3. Ran(t, e.h, e.due) = a /\ t.diff * TicksPerMs = b
      BY <2>3, <3>1
    <3> HIDE DEF a, b
    <3>4. a + b <= s.now
      BY <1>2, <3>2
    <3> QED
      BY <2>4, <3>2, <3>3, <3>4 DEF Pace
  <2> QED
    BY <2>4, <2>5, <2>6 DEF Paced
<1>5. CASE CheckDone
  <2>1. t = [s EXCEPT !.diff = Idle]
    BY <1>5 DEF CheckDone
  <2> HIDE DEF s, t
  <2>3. t = [f \in TmrFields |-> t[f]] /\ t.diff = Idle /\ \A f \in TmrFields \ {"diff"} : t[f] = s[f]
    BY <1>2, <2>1 DEF TmrFields
  <2>4. /\ t.list = s.list /\ t.ping = s.ping /\ t.active = s.active /\ t.pcbs = s.pcbs
        /\ t.now = s.now /\ t.elapsed = s.elapsed /\ t.fires = s.fires
    BY <2>3 DEF TmrFields
  <2>5. Typed(t)
    BY <1>0, <2>3, <2>4 DEF Typed
  <2>6. ASSUME NEW e \in E, e.h \in Cyclic PROVE Pace(t, e.h, e.due)
    <3>1. Ran(t, e.h, e.due) = Ran(s, e.h, e.due)
      BY <2>4 DEF Ran
    <3> QED
      BY <1>3, <2>3, <2>4, <2>6, <3>1 DEF Pace
  <2> QED
    BY <2>4, <2>5, <2>6 DEF Paced
<1>6. CASE Passes
  <2>1. t = [s EXCEPT !.now = @ + 1, !.elapsed = @ + 1] /\ s.diff = Idle
    BY <1>6 DEF Passes
  <2> HIDE DEF s, t
  <2>3. /\ t = [f \in TmrFields |-> t[f]] /\ t.now = s.now + 1 /\ t.elapsed = s.elapsed + 1
        /\ \A f \in TmrFields \ {"now", "elapsed"} : t[f] = s[f]
    BY <1>2, <2>1 DEF TmrFields
  <2>4. /\ t.list = s.list /\ t.ping = s.ping /\ t.active = s.active /\ t.pcbs = s.pcbs
        /\ t.diff = Idle /\ t.fires = s.fires
    BY <2>1, <2>3 DEF TmrFields
  <2>5. Typed(t)
    BY <1>0, <1>2, <2>3, <2>4 DEF Typed
  <2>6. ASSUME NEW e \in E, e.h \in Cyclic PROVE Pace(t, e.h, e.due)
    <3>1. Ran(t, e.h, e.due) = Ran(s, e.h, e.due)
      BY <2>4 DEF Ran
    <3> DEFINE a == Ran(s, e.h, e.due)
    <3>2. a \in Nat /\ a + s.elapsed <= s.now /\ e.due <= Interval[e.h] /\ Ran(t, e.h, e.due) = a
      BY <1>3, <2>6, <3>1
    <3> HIDE DEF a
    <3>3. a + t.elapsed <= t.now
      BY <1>2, <2>3, <3>2
    <3> QED
      BY <2>4, <3>2, <3>3 DEF Pace
  <2> QED
    BY <2>4, <2>5, <2>6 DEF Paced
<1> QED
  BY <1>4, <1>5, <1>6

-----------------------------------------------------------------------------
(* sys_timeouts_init: one record for every cyclic timer. *)
StartState == [list |-> << >>, elapsed |-> 0, diff |-> Idle, now |-> 0, pcbs |-> FALSE, active |-> FALSE,
               fires |-> [h \in Cyclic |-> 0], tcp_tmr |-> 0, seq |-> 0, seqno |-> 0, echo |-> {},
               ping |-> [p \in Pings |-> NoPing]]
IsOrder(q) == q \in [1..Cardinality(Cyclic) -> Cyclic] /\ \A h \in Cyclic : \E i \in DOMAIN q : q[i] = h
IsStart(g, q, n) == g = [i \in 0..n |-> IF i = 0 THEN StartState ELSE sys_timeout(g[i - 1], Interval[q[i]], q[i], NoArg)]
Added(s, q, i) == sys_timeout(s, Interval[q[i]], q[i], NoArg)

LEMMA StartUnfold ==
  ASSUME NEW q, NEW n \in Nat
  PROVE  \E g : IsStart(g, q, n)
<1> DEFINE Solves(g, z) == g = [i \in 0..z |-> IF i = 0 THEN StartState ELSE Added(g[i - 1], q, i)]
           S == {z \in Nat : \E g : Solves(g, z)}
<1>1. 0 \in S
  <2> DEFINE g == [k \in 0..0 |-> StartState]
  <2>1. g = [k \in 0..0 |-> IF k = 0 THEN StartState ELSE Added(g[k - 1], q, k)]
    OBVIOUS
  <2> QED
    BY <2>1
<1>2. ASSUME NEW z \in Nat, z \in S PROVE z + 1 \in S
  <2>1. PICK g : Solves(g, z)
    BY <1>2
  <2> DEFINE h == [k \in 0..(z + 1) |-> IF k = z + 1 THEN Added(g[z], q, k) ELSE g[k]]
  <2>2. \A k \in 0..z : g[k] = IF k = 0 THEN StartState ELSE Added(g[k - 1], q, k)
    BY <2>1
  <2>3. ASSUME NEW k \in 0..(z + 1) PROVE h[k] = IF k = 0 THEN StartState ELSE Added(h[k - 1], q, k)
    <3>1. CASE k = 0
      BY <2>2, <3>1
    <3>2. CASE k = z + 1
      <4>1. h[k] = Added(g[z], q, k) /\ h[k - 1] = g[z] /\ k # 0
        BY <3>2
      <4> QED
        BY <3>2, <4>1
    <3>3. CASE k \in 1..z
      <4>1. h[k] = g[k] /\ h[k - 1] = g[k - 1] /\ k # 0
        BY <3>3
      <4> QED
        BY <2>2, <3>3, <4>1
    <3> QED
      BY <3>1, <3>2, <3>3
  <2>4. h = [k \in 0..(z + 1) |-> h[k]]
    OBVIOUS
  <2> HIDE DEF h
  <2>5. Solves(h, z + 1)
    BY <2>3, <2>4
  <2> QED
    BY <2>5
<1>3. Nat \subseteq S
  <2> HIDE DEF S
  <2> QED
    BY <1>1, <1>2, NatInd
<1> QED
  BY <1>3 DEF IsStart, Added

LEMMA OrderIs ==
  ASSUME NEW q, q = CHOOSE x \in [1..Cardinality(Cyclic) -> Cyclic] : \A h \in Cyclic : \E i \in DOMAIN x : x[i] = h
  PROVE  /\ IsOrder(q) /\ Cardinality(Cyclic) \in Nat
         /\ \A i, j \in 1..Cardinality(Cyclic) : q[i] = q[j] => i = j
<1> DEFINE n == Cardinality(Cyclic)
<1>1. n \in Nat /\ ExistsBijection(1..n, Cyclic)
  BY TimerConstants, FS_CardinalityType
<1>2. PICK b : b \in Bijection(1..n, Cyclic)
  BY <1>1 DEF ExistsBijection
<1>3. b \in [1..n -> Cyclic] /\ \A h \in Cyclic : \E i \in DOMAIN b : b[i] = h
  BY <1>2 DEF Bijection, Surjection
<1>4. q \in [1..n -> Cyclic] /\ \A h \in Cyclic : \E i \in DOMAIN q : q[i] = h
  BY <1>3
<1> HIDE DEF n
<1>5. q \in Surjection(1..n, Cyclic)
  BY <1>4 DEF Surjection
<1>6. IsFiniteSet(1..n) /\ Cardinality(1..n) = n
  BY <1>1, FS_Interval
<1>7. q \in Injection(1..n, Cyclic)
  <2>1. Cardinality(1..n) = Cardinality(Cyclic)
    BY <1>6 DEF n
  <2> QED
    BY <1>5, <1>6, <2>1, FS_SurjSameCardinalityImpliesInj
<1>8. \A i, j \in 1..n : q[i] = q[j] => i = j
  BY <1>4, <1>7 DEF Injection, IsInjective
<1> QED
  BY <1>1, <1>4, <1>8 DEF IsOrder, n

LEMMA StartIs ==
  /\ Typed(StartState) /\ Lined(StartState.list) /\ Entries(StartState.list) = {}
  /\ StartState.elapsed = 0 /\ StartState.diff = Idle /\ StartState.now = 0
  /\ StartState.pcbs = FALSE /\ StartState.active = FALSE
  /\ StartState.fires = [h \in Cyclic |-> 0] /\ StartState.ping = [p \in Pings |-> NoPing]
  /\ NoPing.state = "none" /\ NoPing.sent = 0 /\ NoPing.answered = 0 /\ NoPing.timeouts = 0
<1> DEFINE F == [h \in Cyclic |-> 0]
           P == [p \in Pings |-> NoPing]
<1>1. NoPing \in PingRecord /\ NoPing.state = "none" /\ NoPing.sent = 0 /\ NoPing.answered = 0 /\ NoPing.timeouts = 0
  BY DEF NoPing, PingRecord
<1>2. F \in [Cyclic -> Nat] /\ P \in [Pings -> PingRecord]
  BY <1>1
<1>3. StartState = [list |-> << >>, elapsed |-> 0, diff |-> Idle, now |-> 0, pcbs |-> FALSE, active |-> FALSE,
                    fires |-> F, tcp_tmr |-> 0, seq |-> 0, seqno |-> 0, echo |-> {}, ping |-> P]
  BY DEF StartState
<1> HIDE DEF F, P
<1>4. /\ StartState = [f \in TmrFields |-> StartState[f]]
      /\ StartState.list = << >> /\ StartState.elapsed = 0 /\ StartState.diff = Idle /\ StartState.now = 0
      /\ StartState.pcbs = FALSE /\ StartState.active = FALSE /\ StartState.fires = F /\ StartState.ping = P
  BY <1>3 DEF TmrFields
<1>5. Typed(StartState)
  BY <1>2, <1>4 DEF Typed
<1>6. << >> \in Seq(Timeout) /\ DOMAIN << >> = {}
  OBVIOUS
<1>7. Lined(<< >>) /\ Entries(<< >>) = {}
  BY <1>6 DEF Lined, Delta, Sorted, Single, PingFirst, Entries
<1> QED
  BY <1>1, <1>4, <1>5, <1>7 DEF F, P

LEMMA InitKept ==
  ASSUME TimersInit
  PROVE  TmrInv
<1> DEFINE n == Cardinality(Cyclic)
           q == CHOOSE x \in [1..n -> Cyclic] : \A h \in Cyclic : \E i \in DOMAIN x : x[i] = h
           F(g) == IsStart(g, q, n)
           f == CHOOSE g : F(g)
           Es(k) == {Keyed(q[j], NoArg, Interval[q[j]]) : j \in 1..k}
<1>1. IsOrder(q) /\ n \in Nat /\ \A i, j \in 1..n : q[i] = q[j] => i = j
  BY OrderIs
<1>2. tmr = f[n]
  BY DEF TimersInit, sys_timeouts_init, IsStart, StartState
<1>3. \E g : F(g)
  <2> HIDE DEF n, q
  <2> QED
    BY <1>1, StartUnfold
<1>4. F(f)
  BY <1>3
<1> HIDE DEF f
<1>5. \A k \in 0..n : f[k] = IF k = 0 THEN StartState ELSE Added(f[k - 1], q, k)
  <2> HIDE DEF n, q
  <2> QED
    BY <1>4 DEF IsStart, Added
<1> HIDE DEF F, n, q
<1>6. \A i \in 1..n : q[i] \in Cyclic
  BY <1>1 DEF IsOrder, n
<1> DEFINE P == {k \in Nat : k <= n =>
                    /\ Typed(f[k]) /\ Lined(f[k].list) /\ Entries(f[k].list) = Es(k)
                    /\ \A g \in TmrFields \ {"list"} : f[k][g] = StartState[g]}
<1>7. 0 \in P
  <2>1. f[0] = StartState
    BY <1>1, <1>5
  <2>2. Es(0) = {}
    OBVIOUS
  <2> HIDE DEF Es
  <2> QED
    BY <2>1, <2>2, StartIs
<1>8. ASSUME NEW k \in Nat, k \in P PROVE k + 1 \in P
  <2>1. SUFFICES ASSUME k + 1 <= n
                 PROVE  /\ Typed(f[k + 1]) /\ Lined(f[k + 1].list) /\ Entries(f[k + 1].list) = Es(k + 1)
                        /\ \A g \in TmrFields \ {"list"} : f[k + 1][g] = StartState[g]
    OBVIOUS
  <2> DEFINE s == f[k]
             h == q[k + 1]
             t == Added(s, q, k + 1)
  <2>2. k + 1 \in 1..n /\ k + 1 \in 0..n /\ k + 1 # 0 /\ k + 1 - 1 = k /\ k <= n
    BY <1>1, <2>1
  <2>3. f[k + 1] = t
    BY <1>5, <2>2
  <2>4. /\ Typed(s) /\ Lined(s.list) /\ Entries(s.list) = Es(k)
        /\ \A g \in TmrFields \ {"list"} : s[g] = StartState[g]
    BY <1>8, <2>2
  <2>5. h \in Cyclic /\ Interval[h] \in Nat
    BY <1>6, <2>2, TimerConstants
  <2>6. \A e \in Es(k) : ~(e.h = h /\ e.arg = NoArg)
    <3>1. ASSUME NEW j \in 1..k PROVE Keyed(q[j], NoArg, Interval[q[j]]).h = q[j] /\ q[j] # h
      <4>1. j \in 1..n /\ j # k + 1
        BY <1>1, <2>2
      <4> QED
        BY <1>1, <2>2, <4>1, KeyedIs
    <3> HIDE DEF h
    <3> QED
      BY <3>1
  <2>7. Es(k + 1) = Es(k) \cup {Keyed(h, NoArg, Interval[h])}
    <3>1. 1..(k + 1) = 1..k \cup {k + 1}
      OBVIOUS
    <3> QED
      BY <3>1
  <2>8. t = sys_timeout(s, Interval[h], h, NoArg)
    BY DEF Added
  <2> DEFINE ms == Interval[h]
             w == sys_timeout(s, ms, h, NoArg)
  <2> HIDE DEF Es, h, s, t
  <2>9. /\ Typed(w) /\ Lined(w.list) /\ Entries(w.list) = Entries(s.list) \cup {Keyed(h, NoArg, ms)}
        /\ \A g \in TmrFields \ {"list"} : w[g] = s[g]
    <3>1. ms \in Nat /\ h \in Cyclic \cup {"tcpip"} /\ \A e \in Entries(s.list) : ~(e.h = h /\ e.arg = NoArg)
      BY <2>4, <2>5, <2>6
    <3> HIDE DEF ms
    <3>2. TimeoutAdded(w, s, ms, h, NoArg)
      BY <2>4, <3>1, TimeoutPlain
    <3> HIDE DEF w
    <3> QED
      BY <3>2 DEF TimeoutAdded
  <2>10. t = w
    BY <2>8
  <2> HIDE DEF w
  <2> QED
    BY <2>3, <2>4, <2>7, <2>9, <2>10
<1>9. n \in P
  <2> HIDE DEF P
  <2>1. Nat \subseteq P
    BY <1>7, <1>8, NatInd
  <2> QED
    BY <1>1, <2>1
<1>10. /\ Typed(tmr) /\ Lined(tmr.list) /\ Entries(tmr.list) = Es(n)
       /\ \A g \in TmrFields \ {"list"} : tmr[g] = StartState[g]
  <2>1. n <= n
    BY <1>1
  <2> HIDE DEF Es
  <2> QED
    BY <1>2, <1>9, <2>1
<1>11. /\ tmr.elapsed = 0 /\ tmr.diff = Idle /\ tmr.now = 0 /\ tmr.pcbs = FALSE /\ tmr.active = FALSE
       /\ tmr.fires = [h \in Cyclic |-> 0] /\ tmr.ping = [p \in Pings |-> NoPing]
  <2> HIDE DEF Es
  <2> QED
    BY <1>10, StartIs DEF TmrFields
<1>12. ASSUME NEW e \in Es(n) PROVE e.h \in Cyclic /\ e.arg = NoArg /\ e.due = Interval[e.h] /\ e.due \in Nat
  <2>1. PICK j \in 1..n : e = Keyed(q[j], NoArg, Interval[q[j]])
    OBVIOUS
  <2> QED
    BY <1>6, <2>1, KeyedIs, TimerConstants
<1>13. Present(Es(n))
  <2>1. ASSUME NEW h \in Cyclic PROVE \E e \in Es(n) : e.h = h
    <3>1. PICK j \in 1..n : q[j] = h
      BY <1>1 DEF IsOrder, n
    <3>2. Keyed(q[j], NoArg, Interval[q[j]]) \in Es(n) /\ Keyed(q[j], NoArg, Interval[q[j]]).h = q[j]
      BY KeyedIs
    <3> HIDE DEF Es
    <3> QED
      BY <3>1, <3>2
  <2> HIDE DEF Es
  <2> QED
    BY <2>1 DEF Present
<1> HIDE DEF Es
<1>14. Callers(tmr, Es(n))
  BY <1>12 DEF Callers
<1>15. TcpArmed(tmr, Es(n))
  BY <1>11, <1>12, TimerConstants DEF TcpArmed
<1>16. Paced(tmr, Es(n))
  <2>1. ASSUME NEW e \in Es(n), e.h \in Cyclic PROVE Pace(tmr, e.h, e.due)
    <3> DEFINE h == e.h
               I == Interval[h]
    <3>1. I \in Nat /\ e.due = I /\ TicksPerMs \in Nat
      BY <1>12, TimerConstants
    <3>2. tmr.fires[h] = 0
      BY <1>11, <2>1
    <3> HIDE DEF I, h
    <3>3. (0 * I + (I - I)) * TicksPerMs = 0
      BY <3>1
    <3>4. Ran(tmr, h, e.due) = 0
      BY <3>1, <3>2, <3>3 DEF Ran, I
    <3> QED
      BY <1>11, <3>1, <3>4 DEF Pace, I, h
  <2> QED
    BY <2>1 DEF Paced
<1>17. Reported(tmr, Es(n))
  <2>1. ASSUME NEW p \in Pings PROVE tmr.ping[p].sent <= tmr.ping[p].answered + tmr.ping[p].timeouts + Pending(Es(n), p)
    <3>1. tmr.ping[p].sent = 0 /\ tmr.ping[p].answered = 0 /\ tmr.ping[p].timeouts = 0
      BY <1>11, StartIs
    <3>2. Pending(Es(n), p) \in {0, 1}
      BY PendingIs
    <3> QED
      BY <3>1, <3>2
  <2> QED
    BY <2>1 DEF Reported
<1> QED
  BY <1>10, <1>13, <1>14, <1>15, <1>16, <1>17 DEF TmrInv, TmrKept, Served

-----------------------------------------------------------------------------
(* The records of one caller: none, or one. *)
Held(L, h, arg) == {i \in DOMAIN L : L[i].h = h /\ L[i].arg = arg}
LEMMA OneRecord ==
  ASSUME NEW L, Single(L), NEW h, NEW arg
  PROVE  Cardinality(Held(L, h, arg)) = IF \E e \in Entries(L) : e.h = h /\ e.arg = arg THEN 1 ELSE 0
<1> DEFINE S == Held(L, h, arg)
<1> USE DEF Held
<1>1. CASE S = {}
  <2>1. ~\E e \in Entries(L) : e.h = h /\ e.arg = arg
    BY <1>1, EntryIs
  <2> QED
    BY <1>1, <2>1, FS_EmptySet
<1>2. CASE S # {}
  <2>1. PICK i \in S : TRUE
    BY <1>2
  <2>2. S = {i}
    BY <2>1 DEF Single
  <2>3. Entry(L[i]) \in Entries(L) /\ Entry(L[i]).h = h /\ Entry(L[i]).arg = arg
    BY <2>1, RecordEntry
  <2>4. Cardinality({i}) = 1
    BY FS_Singleton
  <2> QED
    BY <2>2, <2>3, <2>4
<1> QED
  BY <1>1, <1>2

LEMMA KeptIsSound ==
  ASSUME TmrInv
  PROVE  TimersSound
<1> DEFINE L == tmr.list
           E == Entries(L)
<1>0. /\ Typed(tmr) /\ Lined(L) /\ L \in Seq(Timeout) /\ Delta(L) /\ Single(L)
      /\ Callers(tmr, E) /\ Present(E) /\ TcpArmed(tmr, E) /\ Paced(tmr, E) /\ Reported(tmr, E)
  BY DEF TmrInv, TmrKept, Served, Lined
<1>1. DOMAIN L = 1..Len(L) /\ \A i \in 1..Len(L) : L[i].time \in Nat
  BY <1>0, ListIs
<1>2. DeltaListTrue
  BY <1>0, <1>1 DEF DeltaListTrue, Delta
<1>3. ASSUME NEW i \in DOMAIN L
      PROVE  \/ L[i].h \in Cyclic \cup {"tcpip"} /\ L[i].arg = NoArg
             \/ L[i].h \in PingTimers /\ L[i].arg \in Pings /\ tmr.ping[L[i].arg].state = "live"
  <2>1. Entry(L[i]) \in E /\ Entry(L[i]).h = L[i].h /\ Entry(L[i]).arg = L[i].arg
    BY RecordEntry
  <2> HIDE DEF E, L
  <2> QED
    BY <1>0, <2>1 DEF Callers
<1>4. NoDanglingPing
  BY <1>3 DEF NoDanglingPing
<1>5. ASSUME NEW h \in Cyclic \cup {"tcpip"}
      PROVE  Armed(h) = IF \E e \in E : e.h = h THEN 1 ELSE 0
  <2> DEFINE S == {i \in DOMAIN L : L[i].h = h /\ L[i].arg = NoArg}
  <2>1. {i \in DOMAIN L : L[i].h = h} = S
    BY <1>3, TimerConstants DEF PingTimers
  <2>2. Armed(h) = Cardinality(S)
    BY <2>1 DEF Armed
  <2>3. Cardinality(S) = IF \E e \in E : e.h = h /\ e.arg = NoArg THEN 1 ELSE 0
    <3>1. S = Held(L, h, NoArg)
      BY DEF Held
    <3> HIDE DEF S, L
    <3> QED
      BY <1>0, <3>1, OneRecord
  <2>4. (\E e \in E : e.h = h) <=> (\E e \in E : e.h = h /\ e.arg = NoArg)
    <3> HIDE DEF E
    <3> QED
      BY <1>0, TimerConstants DEF Callers, PingTimers
  <2> QED
    BY <2>2, <2>3, <2>4
<1>6. ASSUME NEW h \in Cyclic PROVE Armed(h) = 1 /\ tmr.fires[h] * Interval[h] * TicksPerMs <= tmr.now
  <2> HIDE DEF L, E
  <2>1. PICK e \in E : e.h = h
    BY <1>0 DEF Present
  <2>2. Armed(h) = 1
    BY <1>5, <2>1
  <2>3. e.due \in Nat /\ Pace(tmr, h, e.due)
    BY <1>0, <2>1 DEF Callers, Paced
  <2>4. e.due <= Interval[h] /\ Ran(tmr, h, e.due) + tmr.elapsed <= tmr.now
    BY <2>3 DEF Pace
  <2> DEFINE a == Ran(tmr, h, e.due)
             b == tmr.fires[h] * Interval[h] * TicksPerMs
  <2>5. a \in Nat /\ b <= a /\ a + tmr.elapsed <= tmr.now
    BY <1>0, <2>3, <2>4, RanIs
  <2>6. b \in Nat /\ tmr.elapsed \in Nat /\ tmr.now \in Nat
    <3>1. tmr.fires[h] * Interval[h] \in Nat /\ TicksPerMs \in Nat
      BY <1>0, <2>3, <2>4, RanIs, TimerConstants
    <3> DEFINE c == tmr.fires[h] * Interval[h]
    <3> HIDE DEF c
    <3>2. c * TicksPerMs \in Nat
      BY <3>1, ProductNat DEF c
    <3> QED
      BY <1>0, <3>2 DEF Typed, c
  <2> HIDE DEF a, b
  <2>7. b <= tmr.now
    BY <2>5, <2>6
  <2> QED
    BY <2>2, <2>7 DEF b
<1>7. TimersRun
  <2> HIDE DEF L, E
  <2>1. tmr.pcbs => tmr.active
    BY <1>0 DEF TcpArmed
  <2>2. Armed("tcpip") = IF tmr.active THEN 1 ELSE 0
    <3>1. Armed("tcpip") = IF \E e \in E : e.h = "tcpip" THEN 1 ELSE 0
      BY <1>5
    <3>2. tmr.active \in BOOLEAN /\ (tmr.active = TRUE <=> \E e \in E : e.h = "tcpip")
      BY <1>0 DEF TcpArmed
    <3> QED
      BY <3>1, <3>2
  <2> QED
    BY <1>6, <2>1, <2>2 DEF TimersRun
<1>8. PingReported
  <2>1. ASSUME NEW p \in Pings
        PROVE  tmr.ping[p].sent <= tmr.ping[p].answered + tmr.ping[p].timeouts
                  + Cardinality({i \in DOMAIN L : L[i].h = "ping_timeout" /\ L[i].arg = p})
    <3> DEFINE S == {i \in DOMAIN L : L[i].h = "ping_timeout" /\ L[i].arg = p}
    <3>1. Cardinality(S) = Pending(E, p)
      <4>1. S = Held(L, "ping_timeout", p)
        BY DEF Held
      <4> HIDE DEF S, L
      <4>2. Cardinality(S) = IF \E e \in E : e.h = "ping_timeout" /\ e.arg = p THEN 1 ELSE 0
        BY <1>0, <4>1, OneRecord
      <4> QED
        BY <4>2 DEF Pending
    <3>2. tmr.ping[p].sent <= tmr.ping[p].answered + tmr.ping[p].timeouts + Pending(E, p)
      BY <1>0 DEF Reported
    <3> HIDE DEF S, E
    <3>3. tmr.ping[p].sent <= tmr.ping[p].answered + tmr.ping[p].timeouts + Cardinality(S)
      BY <3>1, <3>2
    <3> QED
      BY <3>3 DEF S
  <2> QED
    BY <2>1 DEF PingReported
<1> QED
  BY <1>2, <1>4, <1>7, <1>8 DEF TimersSound

(* The list of timeouts has every record where it is due, none twice;      *)
(* cyclic timers and TCP timer are on it and on time, and the pings are    *)
(* owed no report that is not (timers.c, ping.c).                          *)
THEOREM TimersInvariant == TimersSpec => []TmrInv
<1>1. ASSUME TmrInv, [TimersNext]_tmr PROVE TmrInv'
  <2>1. CASE CheckTimeouts \/ CheckDone \/ Passes
    BY <1>1, <2>1, ClockSteps
  <2>2. CASE Expire
    BY <1>1, <2>2, ExpireKeeps
  <2>3. ASSUME NEW b \in BOOLEAN, Connections(b) PROVE TmrInv'
    <3>1. TmrKept(tmr)
      BY <1>1 DEF TmrInv
    <3>2. CASE b = TRUE
      <4>1. tmr' = tcp_timer_needed([tmr EXCEPT !.pcbs = TRUE])
        BY <2>3, <3>2 DEF Connections
      <4> QED
        BY <3>1, <4>1, ConnectionsCome DEF TmrInv
    <3>3. CASE b = FALSE
      <4>1. tmr' = [tmr EXCEPT !.pcbs = FALSE]
        BY <2>3, <3>3 DEF Connections
      <4> QED
        BY <3>1, <4>1, ConnectionsCome DEF TmrInv
    <3> QED
      BY <3>2, <3>3
  <2>4. ASSUME NEW p \in Pings, PingStart(p) PROVE TmrInv'
    <3>1. TmrKept(tmr) /\ tmr.ping[p].state = "none" /\ tmr' = ping_start(tmr, p)
      BY <1>1, <2>4 DEF TmrInv, PingStart
    <3> QED
      BY <3>1, PingStarts DEF TmrInv
  <2>5. ASSUME NEW n \in tmr.echo, PingReply(n) PROVE TmrInv'
    <3>1. TmrKept(tmr) /\ tmr' = ping_recv(tmr, n)
      BY <1>1, <2>5 DEF TmrInv, PingReply
    <3> QED
      BY <3>1, PingAnswered DEF TmrInv
  <2>6. CASE UNCHANGED tmr
    BY <1>1, <2>6 DEF TmrInv
  <2> QED
    BY <1>1, <2>1, <2>2, <2>3, <2>4, <2>5, <2>6 DEF TimersNext
<1> QED
  BY <1>1, InitKept, PTL DEF TimersSpec

(* For any timers, intervals and number of pings: after any insertion and  *)
(* removal the list stands for the times it was asked for, every cyclic    *)
(* timer is armed once and never ahead of the clock, the TCP timer runs    *)
(* while there are connections, no timer is left with a freed ping, and    *)
(* every ping sent is reported or will be (timers.c, ping.c).              *)
THEOREM TimersAreSound == TimersSpec => []TimersSound
BY TimersInvariant, KeptIsSound, PTL
=============================================================================
