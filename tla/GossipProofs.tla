---------------------------- MODULE GossipProofs ----------------------------
(***************************************************************************)
(* Proofs about the membership protocol (Gossip), for any finite cluster,  *)
(* any number of incarnations and any number of datagrams under way.       *)
(*                                                                         *)
(* Inv makes types, real heartbeats and live targets inductive together.   *)
(* AccuracyInv is about the steady hosts, the ones that never leave and    *)
(* are never late: an incarnation of such a host is Failed, in a table or  *)
(* in a datagram, only when it has come to its end, and no handler takes   *)
(* the entry of the node it runs on out of the table.                      *)
(***************************************************************************)
EXTENDS Gossip, TLAPS

\* What a member id is made of.
LEMMA IDParts ==
  ASSUME NEW id \in ID
  PROVE  /\ Host(id) \in Hosts /\ id = <<Host(id), id[2]>>
         /\ id[2] \in 1..MaxVersion[Host(id)] /\ id[2] \in Nat
BY BoundsAssumption DEF ID, Host

\* ... and what makes one.
LEMMA IDMade ==
  ASSUME NEW h \in Hosts, NEW v \in 1..MaxVersion[h] PROVE <<h, v>> \in ID
BY DEF ID

\* Every entry of a merged map is one of the two maps'.
LEMMA MergedFacts ==
  ASSUME NEW m, NEW msg, IsInfoMap(m, ID), IsInfoMap(msg, ID)
  PROVE  /\ IsInfoMap(Merged(m, msg), ID)
         /\ DOMAIN m \subseteq DOMAIN Merged(m, msg)
         /\ \A id \in DOMAIN Merged(m, msg) :
              \/ id \in DOMAIN m /\ Merged(m, msg)[id] = m[id]
              \/ id \in DOMAIN msg /\ Merged(m, msg)[id] = msg[id]
         /\ ~MergeChanges(m, msg) => NonFailed(m) \subseteq NonFailed(Merged(m, msg))
<1>1. \A id \in DOMAIN Merged(m, msg) :
              \/ id \in DOMAIN m /\ Merged(m, msg)[id] = m[id]
              \/ id \in DOMAIN msg /\ Merged(m, msg)[id] = msg[id]
  BY DEF Merged, Enters, NonFailed, Dies, Beats
<1>2. DOMAIN m \subseteq DOMAIN Merged(m, msg) /\ DOMAIN Merged(m, msg) \subseteq ID
  BY DEF Merged, Enters, NonFailed, IsInfoMap
<1>3. \A id \in DOMAIN Merged(m, msg) : Merged(m, msg)[id] \in Infos BY <1>1 DEF IsInfoMap
<1>4. Merged(m, msg) = [id \in DOMAIN Merged(m, msg) |-> Merged(m, msg)[id]] BY DEF Merged
<1>5. IsInfoMap(Merged(m, msg), ID) BY <1>2, <1>3, <1>4 DEF IsInfoMap
<1>6. ~MergeChanges(m, msg) => NonFailed(m) \subseteq NonFailed(Merged(m, msg))
  BY <1>2 DEF MergeChanges, Merged, Enters, NonFailed, Dies, Beats
<1>. QED BY <1>1, <1>2, <1>5, <1>6

\* Entries that are not taken out stay as they are.
LEMMA WithoutFacts ==
  ASSUME NEW m, NEW gone, IsInfoMap(m, ID)
  PROVE  /\ IsInfoMap(Without(m, gone), ID)
         /\ DOMAIN Without(m, gone) = DOMAIN m \ gone
         /\ \A id \in DOMAIN m \ gone : Without(m, gone)[id] = m[id]
         /\ NonFailed(Without(m, gone)) = NonFailed(m) \ gone
BY DEF Without, IsInfoMap, NonFailed

\* UpdateStateSwim marks one entry and leaves the counters alone,
LEMMA UpdatedFacts ==
  ASSUME NEW m, IsInfoMap(m, ID), NEW id \in NonFailed(m)
  PROVE  LET u == Updated(m, id, "Failed", FALSE) IN
         /\ IsInfoMap(u, ID) /\ DOMAIN u = DOMAIN m
         /\ \A i \in DOMAIN m : u[i].counter = m[i].counter
         /\ NonFailed(u) = NonFailed(m) \ {id}
<1>1. \A i \in DOMAIN m : m[i] \in Infos BY DEF IsInfoMap
<1>. QED BY <1>1 DEF Updated, UpdatedState, IsInfoMap, NonFailed, Infos, States

\* UpdateStateGossip marks the expired ones,
LEMMA TimedOutFacts ==
  ASSUME NEW m, IsInfoMap(m, ID), NEW expired,
         \A id \in expired : id \in DOMAIN m /\ m[id].state = "Alive"
  PROVE  LET u == TimedOut(m, expired, FALSE) IN
         /\ IsInfoMap(u, ID) /\ DOMAIN u = DOMAIN m
         /\ \A i \in DOMAIN m : u[i].counter = m[i].counter
         /\ NonFailed(u) = NonFailed(m) \ expired
<1>1. \A i \in DOMAIN m : m[i] \in Infos BY DEF IsInfoMap
<1>. DEFINE u == TimedOut(m, expired, FALSE)
<1>2. DOMAIN u = DOMAIN m BY DEF TimedOut
<1>3. \A i \in DOMAIN m \ expired : u[i] = m[i] BY DEF TimedOut
<1>4. \A i \in DOMAIN m \cap expired : u[i] = [m[i] EXCEPT !.state = "Failed"]
  BY DEF TimedOut, TimedOutState
<1>5. \A i \in DOMAIN m : u[i] \in Infos /\ u[i].counter = m[i].counter
  <2>. HIDE DEF u
  <2>. SUFFICES ASSUME NEW i \in DOMAIN m PROVE u[i] \in Infos /\ u[i].counter = m[i].counter
    OBVIOUS
  <2>1. CASE i \notin expired BY <1>1, <1>3, <2>1
  <2>2. CASE i \in expired
    <3>1. u[i] = [m[i] EXCEPT !.state = "Failed"] /\ m[i] \in Infos BY <1>1, <1>4, <2>2
    <3>. QED BY <3>1 DEF Infos, States
  <2>. QED BY <2>1, <2>2
<1>6. u = [i \in DOMAIN u |-> u[i]] BY DEF TimedOut
<1>7. \A i \in DOMAIN m \cap expired : u[i].state = "Failed" BY <1>1, <1>4 DEF Infos
<1>. HIDE DEF u
<1>8. IsInfoMap(u, ID) BY <1>2, <1>5, <1>6 DEF IsInfoMap
<1>9. NonFailed(u) = NonFailed(m) \ expired BY <1>2, <1>3, <1>7 DEF NonFailed
<1>. QED BY <1>2, <1>5, <1>8, <1>9 DEF u

\* and Cleanup drops Failed entries only.
LEMMA CleanedUpFacts ==
  ASSUME NEW m, IsInfoMap(m, ID), NEW expired
  PROVE  LET u == CleanedUp(m, expired) IN
         /\ IsInfoMap(u, ID) /\ DOMAIN u \subseteq DOMAIN m
         /\ \A i \in DOMAIN u : u[i] = m[i]
         /\ NonFailed(u) = NonFailed(m)
BY WithoutFacts DEF CleanedUp, NonFailed, Without, IsInfoMap

\* The map of a host that is down, and of one that has just started.
LEMMA NewMapFacts ==
  /\ IsInfoMap(NoInfo, ID) /\ DOMAIN NoInfo = {}
  /\ \A id \in ID : /\ IsInfoMap(NewInfo(id), ID) /\ DOMAIN NewInfo(id) = {id}
                    /\ NewInfo(id)[id] = [state |-> "Alive", counter |-> 0]
                    /\ NonFailed(NewInfo(id)) = {id}
BY DEF IsInfoMap, NoInfo, NewInfo, Infos, States, NonFailed

\* A datagram with a map is well formed.
LEMMA PacketFacts ==
  ASSUME NEW type \in {"Probe", "ProbeAckGossip", "GossipMsg", "Leave"},
         NEW from \in Hosts, NEW to \in Hosts, NEW info, IsInfoMap(info, ID)
  PROVE  LET q == Packet(type, from, to, info) IN
         /\ IsPacket(q) /\ q.type = type /\ q.from = from /\ q.to = to /\ q.info = info
BY DEF IsPacket, Packet

----------------------------------------------------------------------------
\* The maps a node can hold.
InfoMaps == UNION {[D -> Infos] : D \in SUBSET ID}

\* InfoMaps is IsInfoMap as a set.
LEMMA InfoMapsDef == \A m : m \in InfoMaps <=> IsInfoMap(m, ID)
BY DEF InfoMaps, IsInfoMap

\* The flags, versions and attempts the handlers decide on.
Control ==
  /\ up \in [Hosts -> BOOLEAN] /\ active \in [Hosts -> BOOLEAN]
  /\ ver \in [Hosts -> Nat] /\ \A h \in Hosts : ver[h] <= MaxVersion[h]
  /\ joining \in [Hosts -> 0..MaxRetries]

\* The maps, the lists, the datagrams and the record of heartbeats.
Data ==
  /\ infoMap \in [Hosts -> InfoMaps] /\ members \in [Hosts -> SUBSET ID]
  /\ \A p \in net : IsPacket(p)
  /\ beats \in [ID -> Nat]

\* The inductive invariant: real counters and live targets need each other, since
\* a merge keeps the list as it is only when it fails nobody.
Inv == Control /\ Data /\ BeatsAreReal /\ TargetsAreLive

\* The invariant contains the types.
LEMMA InvTypes == Inv => TypeOK
<1>. SUFFICES ASSUME Inv PROVE TypeOK OBVIOUS
<1>1. \A h \in Hosts : ver[h] \in 0..MaxVersion[h] BY BoundsAssumption DEF Inv, Control
<1>2. \A h \in Hosts : IsInfoMap(infoMap[h], ID) BY InfoMapsDef DEF Inv, Data
<1>. QED BY <1>1, <1>2 DEF Inv, Control, Data, TypeOK

\* A cluster in which nothing runs satisfies it.
LEMMA InitInv == Init => Inv
<1>. SUFFICES ASSUME Init PROVE Inv OBVIOUS
<1>1. NoInfo \in InfoMaps /\ DOMAIN NoInfo = {} BY NewMapFacts, InfoMapsDef
<1>2. Control BY BoundsAssumption DEF Init, Control
<1>3. Data BY <1>1 DEF Init, Data
<1>4. BeatsAreReal BY <1>1 DEF Init, BeatsAreReal
<1>5. TargetsAreLive BY DEF Init, TargetsAreLive
<1>. QED BY <1>2, <1>3, <1>4, <1>5 DEF Inv

\* joinGroup's attempts stay within maxRetries.
LEMMA AttemptsFit ==
  ASSUME NEW h \in Hosts, NEW m, NEW self
  PROVE  JoinAttempts(h, m, self) \in 0..MaxRetries
BY BoundsAssumption DEF JoinAttempts

\* Every step keeps the flags, the versions and the attempts in their ranges.
LEMMA NextControl == Control /\ [Next]_vars => Control'
<1>. SUFFICES ASSUME Control, [Next]_vars PROVE Control' OBVIOUS
<1>. USE DEF Control
<1>0. MaxVersion \in [Hosts -> Nat] /\ MaxRetries \in Nat BY BoundsAssumption
<1>1. ASSUME NEW h \in Hosts, Start(h) PROVE Control'
  <2>1. joining' \in [Hosts -> 0..MaxRetries] BY <1>1, AttemptsFit DEF Start
  <2>2. ver' \in [Hosts -> Nat] /\ \A g \in Hosts : ver'[g] <= MaxVersion[g] BY <1>0, <1>1 DEF Start
  <2>3. up' \in [Hosts -> BOOLEAN] /\ active' \in [Hosts -> BOOLEAN] BY <1>1 DEF Start
  <2>. QED BY <2>1, <2>2, <2>3
<1>2. ASSUME NEW h \in Hosts, Crash(h) PROVE Control' BY <1>0, <1>2 DEF Crash
<1>3. ASSUME NEW h \in Hosts, JoinStep(h) PROVE Control'
  <2>1. joining[h] \in 0..MaxRetries /\ joining[h] > 0 BY <1>3 DEF JoinStep
  <2>2. joining[h] - 1 \in 0..MaxRetries /\ 0 \in 0..MaxRetries BY <1>0, <2>1
  <2>3. joining' \in [Hosts -> 0..MaxRetries] BY <1>3, <2>2 DEF JoinStep
  <2>4. UNCHANGED <<up, active, ver>> BY <1>3 DEF JoinStep
  <2>. QED BY <2>3, <2>4
<1>4. ASSUME NEW h \in Hosts, GracefulLeave(h) PROVE Control' BY <1>4 DEF GracefulLeave
<1>5. ASSUME NEW h \in Hosts, ClientLeave(h) PROVE Control' BY <1>5 DEF ClientLeave
<1>6. ASSUME NEW h \in Hosts, ClientJoin(h) PROVE Control'
  <2>1. joining' \in [Hosts -> 0..MaxRetries] BY <1>6, AttemptsFit DEF ClientJoin
  <2>. QED BY <1>6, <2>1 DEF ClientJoin
<1>7. ASSUME NEW h \in Hosts, CLIJoin(h) PROVE Control'
  <2>1. joining' \in [Hosts -> 0..MaxRetries] BY <1>7, AttemptsFit DEF CLIJoin
  <2>2. ver' \in [Hosts -> Nat] /\ \A g \in Hosts : ver'[g] <= MaxVersion[g] BY <1>0, <1>7 DEF CLIJoin
  <2>3. up' \in [Hosts -> BOOLEAN] /\ active' \in [Hosts -> BOOLEAN] BY <1>7 DEF CLIJoin
  <2>. QED BY <2>1, <2>2, <2>3
<1>8. ASSUME NEW h \in Hosts, NEW id \in ID, GossipTick(h, id) PROVE Control'
  BY <1>8 DEF GossipTick
<1>9. ASSUME NEW h \in Hosts, NEW expired \in SUBSET ID,
             FailureTick(h, expired) \/ CleanupTick(h, expired)
      PROVE  Control'
  BY <1>9 DEF FailureTick, CleanupTick
<1>10. ASSUME NEW h \in Hosts, NEW p \in net, Receive(h, p) \/ Unreachable(p) PROVE Control'
  BY <1>10 DEF Receive, Unreachable
<1>11. ASSUME NEW p \in net, Unreachable(p) PROVE Control' BY <1>11 DEF Unreachable
<1>12. CASE UNCHANGED vars BY <1>12 DEF vars
<1>. QED BY <1>1, <1>2, <1>3, <1>4, <1>5, <1>6, <1>7, <1>8, <1>9, <1>10, <1>11, <1>12 DEF Next

\* A node's map and list change, and datagrams go out that say nothing new.
LEMMA SetMapFacts ==
  ASSUME Data, NEW h \in Hosts, NEW m \in InfoMaps, NEW list \in SUBSET ID, SetMap(h, m, list)
  PROVE  /\ infoMap' \in [Hosts -> InfoMaps] /\ members' \in [Hosts -> SUBSET ID]
         /\ infoMap'[h] = m /\ members'[h] = list
         /\ \A g \in Hosts \ {h} : infoMap'[g] = infoMap[g] /\ members'[g] = members[g]
BY DEF Data, SetMap

\* A map whose counters were all emitted.
Real(m) == \A id \in DOMAIN m : m[id].counter <= beats[id]

\* The invariant survives when one node gets a map of real counters with a list
\* of live members, and real datagrams go out.
LEMMA MapStep ==
  ASSUME Inv, NEW h \in Hosts, NEW m \in InfoMaps, NEW list \in SUBSET ID, SetMap(h, m, list),
         Real(m), list \subseteq NonFailed(m), beats' = beats,
         \A p \in net' : p \in net \/ (IsPacket(p) /\ Real(p.info))
  PROVE  Data' /\ BeatsAreReal' /\ TargetsAreLive'
<1>1. /\ infoMap' \in [Hosts -> InfoMaps] /\ members' \in [Hosts -> SUBSET ID]
      /\ infoMap'[h] = m /\ members'[h] = list
      /\ \A g \in Hosts \ {h} : infoMap'[g] = infoMap[g] /\ members'[g] = members[g]
  BY SetMapFacts DEF Inv
<1>2. Data' BY <1>1 DEF Inv, Data
<1>3. ASSUME NEW g \in Hosts, NEW id \in DOMAIN infoMap'[g]
      PROVE  infoMap'[g][id].counter <= beats'[id]
  <2>1. CASE g = h BY <1>1, <2>1 DEF Real
  <2>2. CASE g # h BY <1>1, <2>2 DEF Inv, BeatsAreReal
  <2>. QED BY <2>1, <2>2
<1>4. \A p \in net' : \A id \in DOMAIN p.info : p.info[id].counter <= beats'[id]
  BY DEF Inv, BeatsAreReal, Real
<1>5. TargetsAreLive' BY <1>1 DEF Inv, TargetsAreLive
<1>. QED BY <1>2, <1>3, <1>4, <1>5 DEF BeatsAreReal

\* The map of a node that has been merged with a datagram, after entries were
\* taken out.
LEMMA MergeStep ==
  ASSUME Inv, NEW h \in Hosts, NEW p \in net, NEW gone
  PROVE  LET m == Without(infoMap[h], gone)
             merged == Merged(m, p.info)
         IN  /\ merged \in InfoMaps /\ Real(merged) /\ IsInfoMap(m, ID)
             /\ MembersAfter(m, p.info, members[h] \ gone) \subseteq NonFailed(merged)
             /\ MembersAfter(m, p.info, members[h] \ gone) \in SUBSET ID
<1>. DEFINE m == Without(infoMap[h], gone)
            merged == Merged(m, p.info)
<1>1. IsInfoMap(infoMap[h], ID) /\ IsInfoMap(p.info, ID)
  BY InfoMapsDef DEF Inv, Data, IsPacket
<1>2. IsInfoMap(m, ID) /\ Real(m)
  <2>1. Real(infoMap[h]) BY DEF Real, Inv, BeatsAreReal
  <2>2. /\ IsInfoMap(m, ID) /\ DOMAIN m = DOMAIN infoMap[h] \ gone
        /\ \A id \in DOMAIN infoMap[h] \ gone : m[id] = infoMap[h][id]
    BY <1>1, WithoutFacts
  <2>. QED BY <2>1, <2>2 DEF Real
<1>3. NonFailed(m) = NonFailed(infoMap[h]) \ gone BY <1>1, WithoutFacts
<1>4. Real(p.info) BY DEF Real, Inv, BeatsAreReal
<1>. HIDE DEF m
<1>5. IsInfoMap(merged, ID) BY <1>1, <1>2, MergedFacts
<1>6. Real(merged)
  <2>1. \A id \in DOMAIN merged : \/ id \in DOMAIN m /\ merged[id] = m[id]
                                  \/ id \in DOMAIN p.info /\ merged[id] = p.info[id]
    BY <1>1, <1>2, MergedFacts
  <2>. QED BY <1>2, <1>4, <2>1 DEF Real
<1>7. members[h] \ gone \subseteq NonFailed(m) BY <1>3 DEF Inv, TargetsAreLive
<1>8. ~MergeChanges(m, p.info) => NonFailed(m) \subseteq NonFailed(merged)
  BY <1>1, <1>2, MergedFacts
<1>9. MembersAfter(m, p.info, members[h] \ gone) \subseteq NonFailed(merged)
  BY <1>7, <1>8 DEF MembersAfter
<1>10. NonFailed(merged) \subseteq ID BY <1>5 DEF NonFailed, IsInfoMap
<1>. QED BY <1>2, <1>5, <1>6, <1>9, <1>10, InfoMapsDef DEF m

\* A step that touches no map only adds datagrams that say nothing new.
LEMMA SendStep ==
  ASSUME Inv, UNCHANGED <<infoMap, members, beats>>,
         \A p \in net' : p \in net \/ (IsPacket(p) /\ Real(p.info))
  PROVE  Data' /\ BeatsAreReal' /\ TargetsAreLive'
<1>1. Data' BY DEF Inv, Data
<1>2. BeatsAreReal' BY DEF Inv, BeatsAreReal, Real
<1>3. TargetsAreLive' BY DEF Inv, TargetsAreLive
<1>. QED BY <1>1, <1>2, <1>3

\* UDP adds nothing to what is sent.
LEMMA SentOnly ==
  ASSUME NEW rest, NEW packets, Send(rest, packets)
  PROVE  net' \subseteq rest \cup packets
BY DEF Send

\* A node's own map, as a map of real counters.
LEMMA OwnMap ==
  ASSUME Inv, NEW h \in Hosts
  PROVE  /\ IsInfoMap(infoMap[h], ID) /\ infoMap[h] \in InfoMaps /\ Real(infoMap[h])
         /\ members[h] \subseteq NonFailed(infoMap[h]) /\ DOMAIN infoMap[h] \subseteq ID
         /\ NonFailed(infoMap[h]) \subseteq DOMAIN infoMap[h]
<1>1. IsInfoMap(infoMap[h], ID) /\ infoMap[h] \in InfoMaps BY InfoMapsDef DEF Inv, Data
<1>2. Real(infoMap[h]) BY DEF Inv, BeatsAreReal, Real
<1>. QED BY <1>1, <1>2 DEF Inv, TargetsAreLive, IsInfoMap, NonFailed

\* A fresh incarnation has emitted nothing, and says so.
LEMMA FreshMap ==
  ASSUME Inv, NEW id \in ID
  PROVE  NewInfo(id) \in InfoMaps /\ Real(NewInfo(id)) /\ {id} \subseteq NonFailed(NewInfo(id))
<1>1. /\ IsInfoMap(NewInfo(id), ID) /\ DOMAIN NewInfo(id) = {id} /\ NewInfo(id)[id].counter = 0
      /\ NonFailed(NewInfo(id)) = {id}
  BY DEF IsInfoMap, NewInfo, Infos, States, NonFailed
<1>2. beats[id] \in Nat BY DEF Inv, Data
<1>3. Real(NewInfo(id)) BY <1>1, <1>2 DEF Real
<1>. QED BY <1>1, <1>3, InfoMapsDef

\* main keeps the invariant,
LEMMA StartInv ==
  ASSUME Inv, NEW h \in Hosts, Start(h) PROVE Data' /\ BeatsAreReal' /\ TargetsAreLive'
<1>. DEFINE self == <<h, ver[h] + 1>>
<1>1. ver[h] + 1 \in 1..MaxVersion[h]
  <2>1. ver[h] \in Nat /\ MaxVersion[h] \in Nat BY BoundsAssumption DEF Inv, Control
  <2>2. ver[h] < MaxVersion[h] BY DEF Start
  <2>. QED BY <2>1, <2>2
<1>2. self \in ID BY <1>1, IDMade
<1>3. SetMap(h, NewInfo(self), {self}) /\ beats' = beats /\ net' = net BY DEF Start
<1>. HIDE DEF self
<1>. QED BY <1>2, <1>3, FreshMap, MapStep

\* so does a crash,
LEMMA CrashInv ==
  ASSUME Inv, NEW h \in Hosts, Crash(h) PROVE Data' /\ BeatsAreReal' /\ TargetsAreLive'
<1>1. NoInfo \in InfoMaps /\ Real(NoInfo) BY NewMapFacts, InfoMapsDef DEF Real
<1>2. SetMap(h, NoInfo, {}) /\ beats' = beats /\ net' = net BY DEF Crash
<1>. QED BY <1>1, <1>2, MapStep

\* a turn of joinGroup,
LEMMA JoinStepInv ==
  ASSUME Inv, NEW h \in Hosts, JoinStep(h) PROVE Data' /\ BeatsAreReal' /\ TargetsAreLive'
<1>. DEFINE q == Packet("Probe", h, Introducer, infoMap[h])
<1>1. IsPacket(q) /\ q.info = infoMap[h] BY PacketFacts, OwnMap, HostsAssumption
<1>2. net' \subseteq net \cup {q} BY SentOnly DEF JoinStep
<1>3. UNCHANGED <<infoMap, members, beats>> BY DEF JoinStep
<1>. HIDE DEF q
<1>4. Real(q.info) BY <1>1, OwnMap
<1>5. \A p \in net' : p \in net \/ (IsPacket(p) /\ Real(p.info)) BY <1>1, <1>2, <1>4
<1>. QED BY <1>3, <1>5, SendStep

\* UpdateStateSwim marks one entry and rebuilds the list.
LEMMA MarkFailedInv ==
  ASSUME Inv, NEW h \in Hosts, NEW id, MarkFailed(h, id), beats' = beats,
         \A p \in net' : p \in net \/ (IsPacket(p) /\ Real(p.info))
  PROVE  Data' /\ BeatsAreReal' /\ TargetsAreLive'
<1>. DEFINE m == Updated(infoMap[h], id, "Failed", FALSE)
<1>1. CASE id \in NonFailed(infoMap[h])
  <2>1. SetMap(h, m, NonFailed(m)) BY <1>1 DEF MarkFailed, Updatable
  <2>2. IsInfoMap(infoMap[h], ID) /\ Real(infoMap[h]) BY OwnMap
  <2>3. /\ IsInfoMap(m, ID) /\ DOMAIN m = DOMAIN infoMap[h]
        /\ \A i \in DOMAIN infoMap[h] : m[i].counter = infoMap[h][i].counter
    BY <1>1, <2>2, UpdatedFacts
  <2>. HIDE DEF m
  <2>4. m \in InfoMaps /\ Real(m) BY <2>2, <2>3, InfoMapsDef DEF Real
  <2>5. NonFailed(m) \in SUBSET ID BY <2>3 DEF NonFailed, IsInfoMap
  <2>. QED BY <2>1, <2>4, <2>5, MapStep
<1>2. CASE id \notin NonFailed(infoMap[h])
  <2>1. UNCHANGED <<infoMap, members>> BY <1>2 DEF MarkFailed, Updatable
  <2>. QED BY <2>1, SendStep
<1>. QED BY <1>1, <1>2

\* gracefulLeave,
LEMMA GracefulLeaveInv ==
  ASSUME Inv, NEW h \in Hosts, GracefulLeave(h) PROVE Data' /\ BeatsAreReal' /\ TargetsAreLive'
<1>. DEFINE peers == {id \in DOMAIN infoMap[h] \ {RingID(h)} : infoMap[h][id].state = "Alive"}
            packets == {Packet("Leave", h, Host(id), NoInfo) : id \in peers}
<1>1. ASSUME NEW q \in packets PROVE IsPacket(q) /\ Real(q.info)
  <2>1. PICK id \in peers : q = Packet("Leave", h, Host(id), NoInfo) OBVIOUS
  <2>2. Host(id) \in Hosts BY OwnMap, IDParts
  <2>3. IsPacket(q) /\ q.info = NoInfo BY <2>1, <2>2, PacketFacts, NewMapFacts
  <2>4. Real(NoInfo) BY NewMapFacts DEF Real
  <2>. QED BY <2>3, <2>4
<1>2. beats' = beats BY DEF GracefulLeave
<1>3. CASE MarkFailed(h, RingID(h)) /\ Send(net, packets)
  <2>1. net' \subseteq net \cup packets BY <1>3, SentOnly
  <2>2. \A p \in net' : p \in net \/ (IsPacket(p) /\ Real(p.info)) BY <1>1, <2>1
  <2>. QED BY <1>2, <1>3, <2>2, MarkFailedInv
<1>4. CASE UNCHANGED <<infoMap, members, net>> BY <1>2, <1>4, SendStep
<1>. QED BY <1>3, <1>4 DEF GracefulLeave

\* the client's leave,
LEMMA ClientLeaveInv ==
  ASSUME Inv, NEW h \in Hosts, ClientLeave(h) PROVE Data' /\ BeatsAreReal' /\ TargetsAreLive'
BY MarkFailedInv DEF ClientLeave

\* handleCLIJoin,
LEMMA CLIJoinInv ==
  ASSUME Inv, NEW h \in Hosts, CLIJoin(h) PROVE Data' /\ BeatsAreReal' /\ TargetsAreLive'
<1>. DEFINE next == <<h, ver[h] + 1>>
<1>1. beats' = beats /\ net' = net BY DEF CLIJoin
<1>2. CASE ver[h] < MaxVersion[h] /\ SetMap(h, NewInfo(next), {next})
  <2>1. ver[h] + 1 \in 1..MaxVersion[h] BY <1>2, BoundsAssumption DEF Inv, Control
  <2>2. next \in ID BY <2>1, IDMade
  <2>. HIDE DEF next
  <2>. QED BY <1>1, <1>2, <2>2, FreshMap, MapStep
<1>3. CASE UNCHANGED <<infoMap, members>> BY <1>1, <1>3, SendStep
<1>. QED BY <1>2, <1>3 DEF CLIJoin

\* the failure tick,
LEMMA FailureTickInv ==
  ASSUME Inv, NEW h \in Hosts, NEW expired \in SUBSET ID, FailureTick(h, expired)
  PROVE  Data' /\ BeatsAreReal' /\ TargetsAreLive'
<1>. DEFINE m == TimedOut(infoMap[h], expired, FALSE)
<1>1. SetMap(h, m, NonFailed(m)) /\ beats' = beats /\ net' = net BY DEF FailureTick
<1>2. \A id \in expired : id \in DOMAIN infoMap[h] /\ infoMap[h][id].state = "Alive"
  BY DEF FailureTick
<1>3. IsInfoMap(infoMap[h], ID) /\ Real(infoMap[h]) BY OwnMap
<1>4. /\ IsInfoMap(m, ID) /\ DOMAIN m = DOMAIN infoMap[h]
      /\ \A i \in DOMAIN infoMap[h] : m[i].counter = infoMap[h][i].counter
  BY <1>2, <1>3, TimedOutFacts
<1>. HIDE DEF m
<1>5. m \in InfoMaps /\ Real(m) BY <1>3, <1>4, InfoMapsDef DEF Real
<1>6. NonFailed(m) \in SUBSET ID BY <1>4 DEF NonFailed, IsInfoMap
<1>. QED BY <1>1, <1>5, <1>6, MapStep

\* the cleanup tick,
LEMMA CleanupTickInv ==
  ASSUME Inv, NEW h \in Hosts, NEW expired \in SUBSET ID, CleanupTick(h, expired)
  PROVE  Data' /\ BeatsAreReal' /\ TargetsAreLive'
<1>. DEFINE m == CleanedUp(infoMap[h], expired)
<1>1. infoMap' = [infoMap EXCEPT ![h] = m] /\ members' = members /\ beats' = beats /\ net' = net
  BY DEF CleanupTick, Inv, Data
<1>2. IsInfoMap(infoMap[h], ID) /\ Real(infoMap[h]) /\ members[h] \subseteq NonFailed(infoMap[h])
  BY OwnMap
<1>3. /\ IsInfoMap(m, ID) /\ DOMAIN m \subseteq DOMAIN infoMap[h]
      /\ \A i \in DOMAIN m : m[i] = infoMap[h][i]
      /\ NonFailed(m) = NonFailed(infoMap[h])
  BY <1>2, CleanedUpFacts
<1>. HIDE DEF m
<1>4. m \in InfoMaps /\ Real(m) BY <1>2, <1>3, InfoMapsDef DEF Real
<1>5. SetMap(h, m, members[h]) /\ members[h] \in SUBSET ID BY <1>1 DEF SetMap, Inv, Data
<1>. QED BY <1>1, <1>2, <1>3, <1>4, <1>5, MapStep

\* A heartbeat raises the own counter only, and the record of it with it.
LEMMA GossipTickInv ==
  ASSUME Inv, NEW h \in Hosts, NEW target \in ID, GossipTick(h, target)
  PROVE  Data' /\ BeatsAreReal' /\ TargetsAreLive'
<1>. DEFINE self == RingID(h)
            m == [infoMap[h] EXCEPT ![self].counter = Saturated(@)]
            q == Packet("GossipMsg", h, Host(target), m)
<1>1. /\ infoMap' = [infoMap EXCEPT ![h] = m] /\ members' = members /\ Send(net, {q})
      /\ beats' = [beats EXCEPT ![self] = IF @ < m[self].counter THEN m[self].counter ELSE @]
      /\ self \in NonFailed(infoMap[h])
  BY DEF GossipTick
<1>2. IsInfoMap(infoMap[h], ID) /\ Real(infoMap[h]) /\ members[h] \subseteq NonFailed(infoMap[h])
      /\ self \in DOMAIN infoMap[h] /\ self \in ID
  BY <1>1, OwnMap
<1>3. infoMap[h][self] \in Infos /\ infoMap[h][self].counter \in Nat
  BY <1>2 DEF IsInfoMap, Infos
<1>4. Saturated(infoMap[h][self].counter) \in Nat BY <1>3, BoundsAssumption DEF Saturated
<1>5. /\ IsInfoMap(m, ID) /\ DOMAIN m = DOMAIN infoMap[h]
      /\ \A i \in DOMAIN m : m[i].state = infoMap[h][i].state
      /\ \A i \in DOMAIN m \ {self} : m[i] = infoMap[h][i]
      /\ m[self].counter \in Nat
  <2>1. \A i \in DOMAIN infoMap[h] : infoMap[h][i] \in Infos BY <1>2 DEF IsInfoMap
  <2>. QED BY <1>2, <1>3, <1>4, <2>1 DEF IsInfoMap, Infos
<1>. HIDE DEF m, self
<1>6. /\ beats' \in [ID -> Nat] /\ \A id \in ID : beats'[id] >= beats[id] /\ beats'[id] \in Nat
      /\ beats'[self] >= m[self].counter
  BY <1>1, <1>2, <1>5 DEF Inv, Data
<1>7. IsPacket(q) /\ q.info = m BY <1>5, IDParts, PacketFacts
<1>. HIDE DEF q
<1>8. net' \subseteq net \cup {q} BY <1>1, SentOnly
<1>9. m \in InfoMaps BY <1>5, InfoMapsDef
<1>10. infoMap' \in [Hosts -> InfoMaps] BY <1>1, <1>9 DEF Inv, Data
<1>11. Data' BY <1>1, <1>6, <1>7, <1>8, <1>10 DEF Inv, Data
<1>12. ASSUME NEW g \in Hosts, NEW id \in DOMAIN infoMap[g]
       PROVE  infoMap[g][id].counter <= beats'[id]
  <2>1. infoMap[g][id].counter \in Nat /\ id \in ID BY OwnMap DEF IsInfoMap, Infos
  <2>2. infoMap[g][id].counter <= beats[id] /\ beats[id] \in Nat
    BY <2>1 DEF Inv, Data, BeatsAreReal
  <2>. QED BY <1>6, <2>1, <2>2
<1>13. ASSUME NEW p \in net, NEW id \in DOMAIN p.info PROVE p.info[id].counter <= beats'[id]
  <2>1. p.info[id].counter \in Nat /\ id \in ID
    BY DEF Inv, Data, IsPacket, IsInfoMap, Infos
  <2>2. p.info[id].counter <= beats[id] /\ beats[id] \in Nat
    BY <2>1 DEF Inv, Data, BeatsAreReal
  <2>. QED BY <1>6, <2>1, <2>2
<1>14. \A id \in DOMAIN m : m[id].counter <= beats'[id]
  <2>1. \A id \in DOMAIN m \ {self} : m[id].counter <= beats'[id] BY <1>5, <1>12
  <2>2. m[self].counter <= beats'[self] BY <1>2, <1>5, <1>6
  <2>. QED BY <2>1, <2>2
<1>15. \A g \in Hosts : infoMap'[g] = IF g = h THEN m ELSE infoMap[g] BY <1>1 DEF Inv, Data
<1>16. BeatsAreReal' BY <1>7, <1>8, <1>12, <1>13, <1>14, <1>15 DEF BeatsAreReal
<1>17. NonFailed(m) = NonFailed(infoMap[h]) BY <1>5 DEF NonFailed
<1>18. TargetsAreLive' BY <1>1, <1>15, <1>17 DEF TargetsAreLive, Inv
<1>. QED BY <1>11, <1>16, <1>18

\* What a Probe, a gossip message or an answer to a Probe does to the map of the
\* node that reads it: take entries out, merge, perhaps answer.
Absorbs(h, p, gone) ==
  LET m == Without(infoMap[h], gone)
      merged == Merged(m, p.info)
  IN  /\ SetMap(h, merged, MembersAfter(m, p.info, members[h] \ gone))
      /\ net' \subseteq net \cup {Packet("ProbeAckGossip", h, p.from, merged)}
      /\ \A id \in gone : \/ p.type = "Probe" /\ Host(id) = p.from
                          \/ id \notin NonFailed(infoMap[h])

\* Every datagram but Leave is absorbed like this.
LEMMA ReceiveStep ==
  ASSUME Inv, NEW h \in Hosts, NEW p \in net, Receive(h, p), p.type # "Leave"
  PROVE  \E gone : Absorbs(h, p, gone)
<1>1. CASE p.type = "Probe" /\ RecvProbe(h, p)
  <2>. DEFINE claimed == {id \in DOMAIN p.info : Host(id) = p.from}
              old(new) == {id \in DOMAIN infoMap[h] : Host(id) = p.from /\ id # new}
              M(gone) == Without(infoMap[h], gone)
              Done(gone) ==
                /\ SetMap(h, Merged(M(gone), p.info), MembersAfter(M(gone), p.info, members[h] \ gone))
                /\ Send(net \ {p}, {Packet("ProbeAckGossip", h, p.from, Merged(M(gone), p.info))})
  <2>0. PICK new \in (IF claimed = {} THEN {<<p.from, 0>>} ELSE claimed) :
          \E gone \in (IF old(new) = {} THEN {{}} ELSE {{id} : id \in old(new)}) : Done(gone)
    BY <1>1 DEF RecvProbe
  <2>1. PICK gone \in (IF old(new) = {} THEN {{}} ELSE {{id} : id \in old(new)}) : Done(gone)
    BY <2>0
  <2>2. \A id \in gone : Host(id) = p.from BY <2>1
  <2>3. net' \subseteq net \cup {Packet("ProbeAckGossip", h, p.from, Merged(M(gone), p.info))}
    BY <2>1, SentOnly
  <2>4. Absorbs(h, p, gone) BY <1>1, <2>1, <2>2, <2>3 DEF Absorbs
  <2>. QED BY <2>4
<1>2. CASE p.type = "GossipMsg" /\ RecvGossip(h, p)
  <2>. DEFINE old(new) == {id \in DOMAIN infoMap[h] \ NonFailed(infoMap[h]) :
                             Host(id) = Host(new) /\ id # new}
              replacing == {id \in DOMAIN p.info : old(id) # {}}
              M(gone) == Without(infoMap[h], gone)
  <2>1. PICK gone \in {{f[id] : id \in replacing} :
                         f \in [replacing -> UNION {old(id) : id \in replacing}]} :
          /\ SetMap(h, Merged(M(gone), p.info), MembersAfter(M(gone), p.info, members[h] \ gone))
          /\ net' = net \ {p}
    BY <1>2 DEF RecvGossip
  <2>2. PICK f \in [replacing -> UNION {old(id) : id \in replacing}] :
          gone = {f[id] : id \in replacing}
    BY <2>1
  <2>3. \A id \in gone : id \notin NonFailed(infoMap[h]) BY <2>2
  <2>4. Absorbs(h, p, gone) BY <2>1, <2>3 DEF Absorbs
  <2>. QED BY <2>4
<1>3. CASE p.type = "ProbeAckGossip" /\ RecvAck(h, p)
  <2>1. Without(infoMap[h], {}) = infoMap[h] BY OwnMap DEF Without, IsInfoMap
  <2>2. members[h] \ {} = members[h] OBVIOUS
  <2>3. /\ SetMap(h, Merged(infoMap[h], p.info), MembersAfter(infoMap[h], p.info, members[h]))
        /\ net' = net \ {p}
    BY <1>3 DEF RecvAck
  <2>4. Absorbs(h, p, {}) BY <2>1, <2>2, <2>3 DEF Absorbs
  <2>. QED BY <2>4
<1>. QED BY <1>1, <1>2, <1>3 DEF Receive

\* Reading a datagram keeps the invariant.
LEMMA ReceiveInv ==
  ASSUME Inv, NEW h \in Hosts, NEW p \in net, Receive(h, p)
  PROVE  Data' /\ BeatsAreReal' /\ TargetsAreLive'
<1>0. beats' = beats BY DEF Receive
<1>1. CASE p.type # "Leave"
  <2>. DEFINE M(gone) == Without(infoMap[h], gone)
              N(gone) == Merged(M(gone), p.info)
              L(gone) == MembersAfter(M(gone), p.info, members[h] \ gone)
              Q(gone) == Packet("ProbeAckGossip", h, p.from, N(gone))
  <2>1. PICK gone : SetMap(h, N(gone), L(gone)) /\ net' \subseteq net \cup {Q(gone)}
    BY <1>1, ReceiveStep DEF Absorbs
  <2>2. /\ N(gone) \in InfoMaps /\ Real(N(gone)) /\ L(gone) \subseteq NonFailed(N(gone))
        /\ L(gone) \in SUBSET ID
    BY MergeStep
  <2>3. IsInfoMap(N(gone), ID) BY <2>2, InfoMapsDef
  <2>4. p.from \in Hosts BY DEF Inv, Data, IsPacket
  <2>. HIDE DEF N, L
  <2>5. IsPacket(Q(gone)) /\ Q(gone).info = N(gone) BY <2>3, <2>4, PacketFacts
  <2>. HIDE DEF Q
  <2>6. \A q \in net' : q \in net \/ (IsPacket(q) /\ Real(q.info)) BY <2>1, <2>2, <2>5
  <2>. QED BY <1>0, <2>1, <2>2, <2>6, MapStep
<1>2. CASE p.type = "Leave"
  <2>1. RecvLeave(h, p) BY <1>2 DEF Receive
  <2>2. net' \subseteq net BY <2>1 DEF RecvLeave
  <2>3. (\E id : MarkFailed(h, id)) \/ UNCHANGED <<infoMap, members>> BY <2>1 DEF RecvLeave
  <2>. QED BY <1>0, <2>2, <2>3, MarkFailedInv, SendStep
<1>. QED BY <1>1, <1>2

\* Every step keeps the invariant.
LEMMA NextInv == Inv /\ [Next]_vars => Inv'
<1>. SUFFICES ASSUME Inv, [Next]_vars PROVE Data' /\ BeatsAreReal' /\ TargetsAreLive'
  BY NextControl DEF Inv
<1>1. ASSUME NEW h \in Hosts, ClientJoin(h) PROVE Data' /\ BeatsAreReal' /\ TargetsAreLive'
  BY <1>1, SendStep DEF ClientJoin
<1>2. ASSUME NEW p \in net, Unreachable(p) PROVE Data' /\ BeatsAreReal' /\ TargetsAreLive'
  BY <1>2, SendStep DEF Unreachable
<1>3. CASE UNCHANGED vars BY <1>3, SendStep DEF vars
<1>. QED
  BY <1>1, <1>2, <1>3, StartInv, CrashInv, JoinStepInv, GracefulLeaveInv, ClientLeaveInv, CLIJoinInv,
     GossipTickInv, FailureTickInv, CleanupTickInv, ReceiveInv
  DEF Next

\* The maps, lists, versions, attempts and datagrams of every node stay within
\* their types, for any number of hosts, incarnations and datagrams.
THEOREM TypeCorrect == Spec => []TypeOK
BY InitInv, NextInv, InvTypes, PTL DEF Spec

\* No table and no datagram ever holds a heartbeat its incarnation did not emit:
\* Merge only copies counters, through removals, restarts, leaves and rejoins.
THEOREM RealBeats == Spec => []BeatsAreReal
<1>1. Inv => BeatsAreReal BY DEF Inv
<1>. QED BY <1>1, InitInv, NextInv, PTL DEF Spec

\* GossipTick never picks a member the node believes failed: Members and InfoMap
\* stay in step although the handlers change them one after the other.
THEOREM LiveTargets == Spec => []TargetsAreLive
<1>1. Inv => TargetsAreLive BY DEF Inv
<1>. QED BY <1>1, InitInv, NextInv, PTL DEF Spec

----------------------------------------------------------------------------
\* The hosts that never leave and whose loop is never stalled beyond Tfail.
Steady == Hosts \ (Leavers \cup LateHosts)

\* The incarnation has come to its end.
Over(id) == ~up[Host(id)] \/ id[2] < ver[Host(id)]

\* A map whose incarnations of steady hosts exist, and are Failed only if they
\* have come to their end.
Accurate(m) ==
  \A id \in DOMAIN m :
    Host(id) \in Steady => /\ id[2] <= ver[Host(id)]
                           /\ m[id].state = "Failed" => Over(id)

\* A datagram a steady host need not fear.
Harmless(p) ==
  /\ Accurate(p.info)
  /\ p.type = "Leave" => p.from \notin Steady
  /\ p.type = "Probe" => p.from # Introducer /\ p.to = Introducer

\* The inductive invariant behind accuracy, whatever the other hosts do.
AccuracyInv ==
  /\ \A h \in Hosts : Accurate(infoMap[h])
  /\ \A h \in Steady : active[h] = up[h] /\ (up[h] => RingID(h) \in members[h])
  /\ \A p \in net : Harmless(p)
  /\ joining[Introducer] = 0

\* What a step leaves alone unless it is a start or a crash.
Quiet == \A h \in Steady : up'[h] = up[h] /\ active'[h] = active[h] /\ ver'[h] = ver[h]

\* Only a start and a crash change what is over for a steady host, and they end
\* incarnations only.
LEMMA LivesGoOn ==
  ASSUME Inv, NEW m, DOMAIN m \subseteq ID, Accurate(m),
         Quiet \/ \E h \in Hosts : Start(h) \/ Crash(h)
  PROVE  \A id \in DOMAIN m :
           Host(id) \in Steady => /\ id[2] <= ver'[Host(id)]
                                  /\ m[id].state = "Failed" => Over(id)'
<1>. SUFFICES ASSUME NEW id \in DOMAIN m, Host(id) \in Steady
              PROVE  id[2] <= ver'[Host(id)] /\ (m[id].state = "Failed" => Over(id)')
  OBVIOUS
<1>1. /\ Host(id) \in Hosts /\ id[2] \in Nat /\ id[2] <= ver[Host(id)] /\ ver[Host(id)] \in Nat
      /\ m[id].state = "Failed" => Over(id)
  BY IDParts DEF Accurate, Inv, Control
<1>2. CASE Quiet BY <1>1, <1>2 DEF Over, Quiet
<1>3. ASSUME NEW h \in Hosts, Start(h)
      PROVE  id[2] <= ver'[Host(id)] /\ (m[id].state = "Failed" => Over(id)')
  <2>1. ver'[Host(id)] = IF Host(id) = h THEN ver[h] + 1 ELSE ver[Host(id)]
    BY <1>1, <1>3 DEF Start, Inv, Control
  <2>2. Host(id) # h => up'[Host(id)] = up[Host(id)] BY <1>1, <1>3 DEF Start, Inv, Control
  <2>. QED BY <1>1, <2>1, <2>2 DEF Over
<1>4. ASSUME NEW h \in Hosts, Crash(h)
      PROVE  id[2] <= ver'[Host(id)] /\ (m[id].state = "Failed" => Over(id)')
  <2>1. ver' = ver /\ up' = [up EXCEPT ![h] = FALSE] BY <1>4 DEF Crash
  <2>2. ~up[Host(id)] => ~up'[Host(id)] BY <1>1, <2>1 DEF Inv, Control
  <2>. QED BY <1>1, <2>1, <2>2 DEF Over
<1>. QED BY <1>2, <1>3, <1>4

\* A steady node that runs does not hold its own incarnation for failed.
LEMMA SelfIsLive ==
  ASSUME Inv, AccuracyInv, NEW h \in Steady, up[h]
  PROVE  RingID(h) \in NonFailed(infoMap[h]) /\ RingID(h) \in ID /\ Beating(RingID(h))
<1>0. h \in Hosts BY DEF Steady
<1>1. RingID(h) \in NonFailed(infoMap[h]) /\ RingID(h) \in ID BY <1>0, OwnMap DEF AccuracyInv
<1>2. Host(RingID(h)) = h BY DEF Host, RingID
<1>. QED BY <1>1, <1>2 DEF Beating, AccuracyInv

\* The steps that leave the lives alone: one node's map may change into an
\* accurate one that still lists the node, and harmless datagrams go out.
LEMMA AccurateStep ==
  ASSUME Inv, AccuracyInv, Quiet, joining'[Introducer] = 0,
         NEW h \in Hosts, NEW m \in InfoMaps, NEW list \in SUBSET ID, SetMap(h, m, list),
         Accurate(m), h \in Steady /\ up[h] => RingID(h) \in list,
         \A p \in net' : p \in net \/ Harmless(p)
  PROVE  AccuracyInv'
<1>1. /\ infoMap'[h] = m /\ members'[h] = list
      /\ \A g \in Hosts \ {h} : infoMap'[g] = infoMap[g] /\ members'[g] = members[g]
  BY SetMapFacts DEF Inv
<1>2. ASSUME NEW g \in Hosts PROVE Accurate(infoMap[g])'
  <2>1. CASE g = h BY <1>1, <2>1 DEF Accurate, Over, Quiet
  <2>2. CASE g # h BY <1>1, <2>2 DEF Accurate, Over, AccuracyInv, Quiet
  <2>. QED BY <2>1, <2>2
<1>3. ASSUME NEW g \in Steady
      PROVE  active'[g] = up'[g] /\ (up'[g] => RingID(g)' \in members'[g])
  <2>1. RingID(g)' = RingID(g) /\ g \in Hosts BY DEF RingID, Quiet, Steady
  <2>. QED BY <1>1, <2>1 DEF AccuracyInv, Quiet
<1>4. ASSUME NEW p \in net' PROVE Harmless(p)'
  <2>1. Harmless(p) BY DEF AccuracyInv
  <2>. QED BY <2>1 DEF Harmless, Accurate, Over, Quiet
<1>. QED BY <1>2, <1>3, <1>4 DEF AccuracyInv

\* ... or no map changes.
LEMMA AccurateSend ==
  ASSUME Inv, AccuracyInv, Quiet, UNCHANGED <<infoMap, members>>, joining'[Introducer] = 0,
         \A p \in net' : p \in net \/ Harmless(p)
  PROVE  AccuracyInv'
<1>1. SetMap(Introducer, infoMap[Introducer], members[Introducer])
  BY HostsAssumption DEF SetMap, Inv, Data
<1>2. /\ Accurate(infoMap[Introducer])
      /\ Introducer \in Steady /\ up[Introducer] => RingID(Introducer) \in members[Introducer]
  BY HostsAssumption DEF AccuracyInv
<1>3. infoMap[Introducer] \in InfoMaps /\ members[Introducer] \in SUBSET ID
  BY HostsAssumption DEF Inv, Data
<1>. QED BY <1>1, <1>2, <1>3, HostsAssumption, AccurateStep

\* The introducer never has attempts left.
LEMMA IntroducerNeverJoins ==
  ASSUME Inv, AccuracyInv, NEW h \in Hosts, NEW m, NEW self,
         joining' = [joining EXCEPT ![h] = JoinAttempts(h, m, self)]
  PROVE  joining'[Introducer] = 0
<1>1. h = Introducer => JoinAttempts(h, m, self) = 0 BY DEF JoinAttempts
<1>. QED BY <1>1, HostsAssumption DEF AccuracyInv, Inv, Control

\* A start and a crash keep accuracy,
LEMMA StartAccurate ==
  ASSUME Inv, AccuracyInv, NEW h \in Hosts, Start(h) \/ Crash(h)
  PROVE  AccuracyInv'
<1>. DEFINE self == <<h, ver[h] + 1>>
<1>0. /\ up \in [Hosts -> BOOLEAN] /\ active \in [Hosts -> BOOLEAN] /\ ver \in [Hosts -> Nat]
      /\ infoMap \in [Hosts -> InfoMaps] /\ members \in [Hosts -> SUBSET ID]
      /\ joining \in [Hosts -> 0..MaxRetries]
  BY DEF Inv, Control, Data
<1>1. ASSUME NEW g \in Hosts \ {h}
      PROVE  /\ Accurate(infoMap[g])'
             /\ g \in Steady => active'[g] = up'[g] /\ (up'[g] => RingID(g)' \in members'[g])
  <2>1. /\ infoMap'[g] = infoMap[g] /\ members'[g] = members[g] /\ up'[g] = up[g]
        /\ active'[g] = active[g] /\ ver'[g] = ver[g]
    BY <1>0 DEF Start, Crash, SetMap
  <2>2. Accurate(infoMap[g]) /\ DOMAIN infoMap[g] \subseteq ID BY OwnMap DEF AccuracyInv
  <2>3. Accurate(infoMap[g])' BY <2>1, <2>2, LivesGoOn DEF Accurate
  <2>. QED BY <2>1, <2>3 DEF AccuracyInv, RingID
<1>2. Accurate(infoMap[h])' /\ active'[h] = up'[h] /\ (up'[h] => RingID(h)' \in members'[h])
  <2>1. CASE Start(h)
    <3>1. /\ infoMap'[h] = NewInfo(self) /\ members'[h] = {self} /\ ver'[h] = ver[h] + 1
          /\ up'[h] = TRUE /\ active'[h] = TRUE
      BY <1>0, <2>1 DEF Start, SetMap
    <3>2. Host(self) = h /\ self[2] = ver[h] + 1 /\ ver[h] \in Nat BY <1>0 DEF Host
    <3>3. RingID(h)' = self BY <3>1 DEF RingID
    <3>4. \A id \in DOMAIN NewInfo(self) : id = self /\ NewInfo(self)[id].state = "Alive"
      BY DEF NewInfo
    <3>5. Accurate(infoMap[h])' BY <3>1, <3>2, <3>4 DEF Accurate
    <3>. QED BY <3>1, <3>3, <3>5
  <2>2. CASE Crash(h)
    <3>1. infoMap'[h] = NoInfo /\ up'[h] = FALSE /\ active'[h] = FALSE
      BY <1>0, <2>2 DEF Crash, SetMap
    <3>. QED BY <3>1, NewMapFacts DEF Accurate
  <2>. QED BY <2>1, <2>2
<1>3. net' = net BY DEF Start, Crash
<1>4. ASSUME NEW p \in net PROVE Harmless(p)'
  <2>1. Harmless(p) /\ DOMAIN p.info \subseteq ID
    BY DEF AccuracyInv, Inv, Data, IsPacket, IsInfoMap
  <2>2. Accurate(p.info)' BY <2>1, LivesGoOn DEF Accurate, Harmless
  <2>. QED BY <2>1, <2>2 DEF Harmless
<1>5. joining'[Introducer] = 0
  <2>1. CASE Start(h)
    <3>1. joining' = [joining EXCEPT ![h] = JoinAttempts(h, NewInfo(self), self)]
      BY <2>1 DEF Start
    <3>. QED BY <3>1, IntroducerNeverJoins
  <2>2. CASE Crash(h) BY <1>0, <2>2, HostsAssumption DEF Crash, AccuracyInv
  <2>. QED BY <2>1, <2>2
<1>6. \A g \in Hosts : Accurate(infoMap[g])' BY <1>1, <1>2
<1>7. \A g \in Steady : active'[g] = up'[g] /\ (up'[g] => RingID(g)' \in members'[g])
  BY <1>1, <1>2 DEF Steady
<1>. QED BY <1>3, <1>4, <1>5, <1>6, <1>7 DEF AccuracyInv

\* so do the turns of joinGroup,
LEMMA JoinAccurate ==
  ASSUME Inv, AccuracyInv, NEW h \in Hosts, JoinStep(h) \/ ClientJoin(h)
  PROVE  AccuracyInv'
<1>0. joining \in [Hosts -> 0..MaxRetries] BY DEF Inv, Control
<1>1. CASE JoinStep(h)
  <2>. DEFINE q == Packet("Probe", h, Introducer, infoMap[h])
  <2>1. h # Introducer BY <1>1 DEF JoinStep, AccuracyInv
  <2>2. joining'[Introducer] = 0 BY <1>0, <1>1, <2>1, HostsAssumption DEF JoinStep, AccuracyInv
  <2>3. net' \subseteq net \cup {q} BY <1>1, SentOnly DEF JoinStep
  <2>4. q.info = infoMap[h] /\ q.type = "Probe" /\ q.from = h /\ q.to = Introducer BY DEF Packet
  <2>. HIDE DEF q
  <2>5. Harmless(q) BY <2>1, <2>4 DEF AccuracyInv, Harmless
  <2>6. Quiet /\ UNCHANGED <<infoMap, members>> BY <1>1 DEF JoinStep, Quiet
  <2>7. \A p \in net' : p \in net \/ Harmless(p) BY <2>3, <2>5
  <2>. QED BY <2>2, <2>6, <2>7, AccurateSend
<1>2. CASE ClientJoin(h)
  <2>1. joining' = [joining EXCEPT ![h] = JoinAttempts(h, infoMap[h], RingID(h))]
        /\ UNCHANGED <<infoMap, members, net>> /\ Quiet
    BY <1>2 DEF ClientJoin, Quiet
  <2>. QED BY <2>1, IntroducerNeverJoins, AccurateSend
<1>. QED BY <1>1, <1>2

\* An entry of a host that is not steady may be marked anywhere.
LEMMA MarkFailedAccurate ==
  ASSUME Inv, AccuracyInv, Quiet, joining' = joining, NEW h \in Hosts, NEW id, MarkFailed(h, id),
         Host(id) \notin Steady, \A p \in net' : p \in net \/ Harmless(p)
  PROVE  AccuracyInv'
<1>. DEFINE m == Updated(infoMap[h], id, "Failed", FALSE)
<1>0. joining'[Introducer] = 0 BY DEF AccuracyInv
<1>1. CASE id \in NonFailed(infoMap[h])
  <2>1. SetMap(h, m, NonFailed(m)) BY <1>1 DEF MarkFailed, Updatable
  <2>2. IsInfoMap(infoMap[h], ID) BY OwnMap
  <2>3. /\ IsInfoMap(m, ID) /\ DOMAIN m = DOMAIN infoMap[h]
        /\ NonFailed(m) = NonFailed(infoMap[h]) \ {id}
    BY <1>1, <2>2, UpdatedFacts
  <2>. HIDE DEF m
  <2>4. m \in InfoMaps /\ NonFailed(m) \in SUBSET ID BY <2>3, InfoMapsDef DEF NonFailed, IsInfoMap
  <2>5. \A i \in DOMAIN m : i # id /\ m[i].state = "Failed" => infoMap[h][i].state = "Failed"
    BY <2>3 DEF NonFailed
  <2>6. Accurate(m) BY <2>3, <2>5 DEF Accurate, AccuracyInv
  <2>7. h \in Steady /\ up[h] => RingID(h) \in NonFailed(m)
    <3>1. Host(RingID(h)) = h BY DEF Host, RingID
    <3>. QED BY <2>3, <3>1, SelfIsLive
  <2>. QED BY <1>0, <2>1, <2>4, <2>6, <2>7, AccurateStep
<1>2. CASE id \notin NonFailed(infoMap[h])
  <2>1. UNCHANGED <<infoMap, members>> BY <1>2 DEF MarkFailed, Updatable
  <2>. QED BY <1>0, <2>1, AccurateSend
<1>. QED BY <1>1, <1>2

\* A steady host is no leaver: whoever leaves marks an entry of its own.
LEMMA LeaveAccurate ==
  ASSUME Inv, AccuracyInv, NEW h \in Hosts, GracefulLeave(h) \/ ClientLeave(h)
  PROVE  AccuracyInv'
<1>. DEFINE peers == {id \in DOMAIN infoMap[h] \ {RingID(h)} : infoMap[h][id].state = "Alive"}
            packets == {Packet("Leave", h, Host(id), NoInfo) : id \in peers}
<1>1. h \notin Steady BY DEF GracefulLeave, ClientLeave, Steady
<1>2. Quiet /\ joining' = joining
  BY <1>1 DEF GracefulLeave, ClientLeave, Quiet, Steady, Inv, Control
<1>3. Host(RingID(h)) = h BY DEF Host, RingID
<1>4. \A q \in packets : Harmless(q)
  <2>1. \A q \in packets : q.type = "Leave" /\ q.from = h /\ q.info = NoInfo BY DEF Packet
  <2>2. Accurate(NoInfo) BY NewMapFacts DEF Accurate
  <2>. QED BY <1>1, <2>1, <2>2 DEF Harmless
<1>5. CASE MarkFailed(h, RingID(h)) /\ Send(net, packets)
  <2>1. net' \subseteq net \cup packets BY <1>5, SentOnly
  <2>. QED BY <1>1, <1>2, <1>3, <1>4, <1>5, <2>1, MarkFailedAccurate
<1>6. CASE MarkFailed(h, RingID(h)) /\ net' = net
  BY <1>1, <1>2, <1>3, <1>6, MarkFailedAccurate
<1>7. CASE UNCHANGED <<infoMap, members, net>>
  <2>1. joining'[Introducer] = 0 BY <1>2 DEF AccuracyInv
  <2>. QED BY <1>2, <1>7, <2>1, AccurateSend
<1>. QED BY <1>5, <1>6, <1>7 DEF GracefulLeave, ClientLeave

\* handleCLIJoin finds nothing to do on a steady node; on another it starts an
\* incarnation that nobody has heard of.
LEMMA CLIJoinAccurate ==
  ASSUME Inv, AccuracyInv, NEW h \in Hosts, CLIJoin(h)
  PROVE  AccuracyInv'
<1>. DEFINE next == <<h, ver[h] + 1>>
<1>0. /\ joining \in [Hosts -> 0..MaxRetries] /\ active \in [Hosts -> BOOLEAN]
      /\ ver \in [Hosts -> Nat]
  BY DEF Inv, Control
<1>1. up[h] /\ active' = [active EXCEPT ![h] = TRUE] /\ UNCHANGED <<up, net>> BY DEF CLIJoin
<1>2. \A g \in Steady : active'[g] = active[g] BY <1>0, <1>1 DEF AccuracyInv, Steady
<1>3. CASE /\ RingID(h) \notin NonFailed(infoMap[h]) /\ ver[h] < MaxVersion[h]
           /\ ver' = [ver EXCEPT ![h] = @ + 1]
           /\ SetMap(h, NewInfo(next), {next})
           /\ joining' = [joining EXCEPT ![h] = JoinAttempts(h, NewInfo(next), next)]
  <2>1. h \notin Steady BY <1>1, <1>3, SelfIsLive
  <2>2. Quiet BY <1>0, <1>1, <1>2, <1>3, <2>1 DEF Quiet, Steady
  <2>3. joining'[Introducer] = 0 BY <1>3, IntroducerNeverJoins
  <2>4. ver[h] + 1 \in 1..MaxVersion[h]
    <3>1. ver[h] \in Nat /\ MaxVersion[h] \in Nat BY <1>0, BoundsAssumption
    <3>2. ver[h] < MaxVersion[h] BY <1>3
    <3>. QED BY <3>1, <3>2
  <2>5. next \in ID /\ Host(next) = h BY <2>4, IDMade DEF Host
  <2>6. NewInfo(next) \in InfoMaps /\ {next} \in SUBSET ID BY <2>5, FreshMap
  <2>7. Accurate(NewInfo(next)) BY <2>1, <2>5 DEF Accurate, NewInfo
  <2>. HIDE DEF next
  <2>. QED BY <1>1, <1>3, <2>1, <2>2, <2>3, <2>6, <2>7, AccurateStep
<1>4. CASE /\ joining' = [joining EXCEPT ![h] = JoinAttempts(h, infoMap[h], RingID(h))]
           /\ UNCHANGED <<ver, infoMap, members>>
  <2>1. joining'[Introducer] = 0 BY <1>4, IntroducerNeverJoins
  <2>2. Quiet BY <1>1, <1>2, <1>4 DEF Quiet
  <2>. QED BY <1>1, <1>4, <2>1, <2>2, AccurateSend
<1>. QED BY <1>3, <1>4 DEF CLIJoin

\* A heartbeat keeps accuracy.
LEMMA GossipTickAccurate ==
  ASSUME Inv, AccuracyInv, NEW h \in Hosts, NEW target \in ID, GossipTick(h, target)
  PROVE  AccuracyInv'
<1>. DEFINE self == RingID(h)
            m == [infoMap[h] EXCEPT ![self].counter = Saturated(@)]
            q == Packet("GossipMsg", h, Host(target), m)
<1>1. /\ infoMap' = [infoMap EXCEPT ![h] = m] /\ members' = members /\ Send(net, {q})
      /\ self \in NonFailed(infoMap[h]) /\ UNCHANGED <<up, active, ver, joining>>
  BY DEF GossipTick
<1>2. IsInfoMap(infoMap[h], ID) /\ self \in DOMAIN infoMap[h] BY <1>1, OwnMap
<1>3. DOMAIN m = DOMAIN infoMap[h] /\ \A i \in DOMAIN m : m[i].state = infoMap[h][i].state
  <2>1. \A i \in DOMAIN infoMap[h] : infoMap[h][i] \in Infos BY <1>2 DEF IsInfoMap
  <2>. QED BY <1>2, <2>1 DEF IsInfoMap, Infos
<1>4. q.info = m /\ q.type = "GossipMsg" BY DEF Packet
<1>. HIDE DEF m, self
<1>5. infoMap'[h] = m BY <1>1 DEF Inv, Data
<1>6. infoMap' \in [Hosts -> InfoMaps] BY GossipTickInv DEF Data
<1>7. m \in InfoMaps BY <1>5, <1>6
<1>8. Accurate(m) BY <1>3 DEF Accurate, AccuracyInv
<1>. HIDE DEF q
<1>9. net' \subseteq net \cup {q} BY <1>1, SentOnly
<1>10. SetMap(h, m, members[h]) /\ members[h] \in SUBSET ID BY <1>1 DEF SetMap, Inv, Data
<1>11. \A p \in net' : p \in net \/ Harmless(p) BY <1>4, <1>8, <1>9 DEF Harmless
<1>12. joining'[Introducer] = 0 /\ (h \in Steady /\ up[h] => RingID(h) \in members[h])
  BY <1>1 DEF AccuracyInv
<1>13. Quiet BY <1>1 DEF Quiet
<1>. QED BY <1>7, <1>8, <1>10, <1>11, <1>12, <1>13, AccurateStep

\* A steady member that times out has come to its end.
LEMMA FailureTickAccurate ==
  ASSUME Inv, AccuracyInv, NEW h \in Hosts, NEW expired \in SUBSET ID, FailureTick(h, expired)
  PROVE  AccuracyInv'
<1>. DEFINE m == TimedOut(infoMap[h], expired, FALSE)
<1>1. /\ SetMap(h, m, NonFailed(m)) /\ UNCHANGED <<up, active, ver, joining, net>>
      /\ \A id \in expired : id \in DOMAIN infoMap[h] /\ infoMap[h][id].state = "Alive"
      /\ \A id \in expired : Host(id) \in Steady => ~Beating(id)
  BY DEF FailureTick, Steady
<1>2. IsInfoMap(infoMap[h], ID) /\ DOMAIN infoMap[h] \subseteq ID BY OwnMap
<1>3. /\ IsInfoMap(m, ID) /\ DOMAIN m = DOMAIN infoMap[h]
      /\ NonFailed(m) = NonFailed(infoMap[h]) \ expired
  BY <1>1, <1>2, TimedOutFacts
<1>. HIDE DEF m
<1>4. ASSUME NEW id \in expired, Host(id) \in Steady PROVE Over(id)
  <2>1. id \in ID /\ Host(id) \in Hosts /\ id = <<Host(id), id[2]>> /\ id[2] \in Nat BY IDParts
  <2>2. id[2] <= ver[Host(id)] /\ ver[Host(id)] \in Nat
    BY <1>1, <1>4, <2>1 DEF AccuracyInv, Accurate, Inv, Control
  <2>3. CASE ~up[Host(id)] BY <2>3 DEF Over
  <2>4. CASE up[Host(id)]
    <3>1. Beating(RingID(Host(id))) BY <1>4, <2>4, SelfIsLive
    <3>2. id # RingID(Host(id)) BY <1>1, <1>4, <3>1
    <3>3. id[2] # ver[Host(id)] BY <2>1, <3>2 DEF RingID
    <3>. QED BY <2>1, <2>2, <3>3 DEF Over
  <2>. QED BY <2>3, <2>4
<1>5. \A id \in DOMAIN m : m[id].state = "Failed" => infoMap[h][id].state = "Failed" \/ id \in expired
  BY <1>3 DEF NonFailed
<1>6. Accurate(m) BY <1>3, <1>4, <1>5 DEF Accurate, AccuracyInv
<1>7. h \in Steady /\ up[h] => RingID(h) \in NonFailed(m)
  <2>1. Host(RingID(h)) = h BY DEF Host, RingID
  <2>. QED BY <1>1, <1>3, <2>1, SelfIsLive
<1>8. m \in InfoMaps /\ NonFailed(m) \in SUBSET ID BY <1>3, InfoMapsDef DEF NonFailed, IsInfoMap
<1>9. joining'[Introducer] = 0 /\ Quiet BY <1>1 DEF AccuracyInv, Quiet
<1>. QED BY <1>1, <1>6, <1>7, <1>8, <1>9, AccurateStep

\* Cleanup keeps accuracy.
LEMMA CleanupTickAccurate ==
  ASSUME Inv, AccuracyInv, NEW h \in Hosts, NEW expired \in SUBSET ID, CleanupTick(h, expired)
  PROVE  AccuracyInv'
<1>. DEFINE m == CleanedUp(infoMap[h], expired)
<1>1. infoMap' = [infoMap EXCEPT ![h] = m] /\ UNCHANGED <<up, active, ver, members, joining, net>>
  BY DEF CleanupTick, Inv, Data
<1>2. IsInfoMap(infoMap[h], ID) BY OwnMap
<1>3. /\ IsInfoMap(m, ID) /\ DOMAIN m \subseteq DOMAIN infoMap[h]
      /\ \A i \in DOMAIN m : m[i] = infoMap[h][i]
  BY <1>2, CleanedUpFacts
<1>. HIDE DEF m
<1>4. m \in InfoMaps /\ Accurate(m) BY <1>3, InfoMapsDef DEF Accurate, AccuracyInv
<1>5. SetMap(h, m, members[h]) /\ members[h] \in SUBSET ID BY <1>1 DEF SetMap, Inv, Data
<1>6. joining'[Introducer] = 0 /\ (h \in Steady /\ up[h] => RingID(h) \in members[h])
  BY <1>1 DEF AccuracyInv
<1>7. Quiet BY <1>1 DEF Quiet
<1>. QED BY <1>1, <1>4, <1>5, <1>6, <1>7, AccurateStep

\* A Probe takes out entries of its sender, gossip only Failed ones: never the
\* reader's own. What is merged is accurate, and so is the result.
LEMMA AbsorbAccurate ==
  ASSUME Inv, AccuracyInv, NEW h \in Hosts, NEW p \in net, Receive(h, p), p.type # "Leave"
  PROVE  AccuracyInv'
<1>. DEFINE M(gone) == Without(infoMap[h], gone)
            N(gone) == Merged(M(gone), p.info)
            L(gone) == MembersAfter(M(gone), p.info, members[h] \ gone)
            Q(gone) == Packet("ProbeAckGossip", h, p.from, N(gone))
<1>0. /\ Accurate(p.info) /\ Accurate(infoMap[h])
      /\ p.type = "Probe" => p.from # Introducer /\ p.to = Introducer
  BY DEF AccuracyInv, Harmless
<1>1. PICK gone : /\ SetMap(h, N(gone), L(gone)) /\ net' \subseteq net \cup {Q(gone)}
                  /\ \A id \in gone : \/ p.type = "Probe" /\ Host(id) = p.from
                                      \/ id \notin NonFailed(infoMap[h])
  BY <1>0, ReceiveStep DEF Absorbs
<1>2. UNCHANGED <<up, active, ver, joining>> /\ up[h] /\ p.to = h BY DEF Receive
<1>3. N(gone) \in InfoMaps /\ L(gone) \in SUBSET ID /\ IsInfoMap(M(gone), ID) BY MergeStep
<1>4. IsInfoMap(infoMap[h], ID) /\ IsInfoMap(p.info, ID)
  BY OwnMap DEF Inv, Data, IsPacket
<1>5. /\ DOMAIN M(gone) = DOMAIN infoMap[h] \ gone
      /\ \A id \in DOMAIN infoMap[h] \ gone : M(gone)[id] = infoMap[h][id]
      /\ NonFailed(M(gone)) = NonFailed(infoMap[h]) \ gone
  BY <1>4, WithoutFacts
<1>6. Accurate(M(gone)) BY <1>0, <1>5 DEF Accurate
<1>. HIDE DEF M
<1>7. /\ DOMAIN M(gone) \subseteq DOMAIN N(gone)
      /\ \A id \in DOMAIN N(gone) :
           \/ id \in DOMAIN M(gone) /\ N(gone)[id] = M(gone)[id]
           \/ id \in DOMAIN p.info /\ N(gone)[id] = p.info[id]
  BY <1>3, <1>4, MergedFacts
<1>8. L(gone) = members[h] \ gone \/ L(gone) = NonFailed(N(gone)) BY DEF MembersAfter
<1>9. Q(gone).info = N(gone) /\ Q(gone).type = "ProbeAckGossip" BY DEF Packet
<1>. HIDE DEF N, L, Q
<1>10. Accurate(N(gone)) BY <1>0, <1>6, <1>7 DEF Accurate
<1>11. ASSUME h \in Steady PROVE RingID(h) \in L(gone)
  <2>1. RingID(h) \in members[h] /\ RingID(h) \in NonFailed(infoMap[h]) /\ Host(RingID(h)) = h
    BY <1>2, <1>11, SelfIsLive DEF AccuracyInv, Host, RingID
  <2>2. RingID(h) \notin gone BY <1>0, <1>1, <1>2, <2>1
  <2>3. ~Over(RingID(h)) BY <1>2, <2>1 DEF Over, RingID, Inv, Control
  <2>4. RingID(h) \in DOMAIN N(gone) BY <1>5, <1>7, <2>1, <2>2 DEF NonFailed
  <2>5. RingID(h) \in NonFailed(N(gone)) BY <1>10, <1>11, <2>1, <2>3, <2>4 DEF Accurate, NonFailed
  <2>. QED BY <1>8, <2>1, <2>2, <2>5
<1>12. \A q \in net' : q \in net \/ Harmless(q) BY <1>1, <1>9, <1>10 DEF Harmless
<1>13. joining'[Introducer] = 0 /\ Quiet BY <1>2 DEF AccuracyInv, Quiet
<1>. QED BY <1>1, <1>3, <1>10, <1>11, <1>12, <1>13, AccurateStep

\* A Leave marks an entry of its sender.
LEMMA ReceiveAccurate ==
  ASSUME Inv, AccuracyInv, NEW h \in Hosts, NEW p \in net, Receive(h, p)
  PROVE  AccuracyInv'
<1>1. CASE p.type # "Leave" BY <1>1, AbsorbAccurate
<1>2. CASE p.type = "Leave"
  <2>1. RecvLeave(h, p) BY <1>2 DEF Receive
  <2>2. Quiet /\ joining' = joining /\ joining'[Introducer] = 0 BY DEF Receive, Quiet, AccuracyInv
  <2>3. net' \subseteq net BY <2>1 DEF RecvLeave
  <2>4. p.from \notin Steady BY <1>2 DEF AccuracyInv, Harmless
  <2>5. ASSUME NEW id, Host(id) = p.from, MarkFailed(h, id) PROVE AccuracyInv'
    BY <2>2, <2>3, <2>4, <2>5, MarkFailedAccurate
  <2>6. CASE UNCHANGED <<infoMap, members>> BY <2>2, <2>3, <2>6, AccurateSend
  <2>. QED BY <2>1, <2>5, <2>6 DEF RecvLeave
<1>. QED BY <1>1, <1>2

\* A cluster in which nothing runs is accurate.
LEMMA InitAccurate == Init => AccuracyInv
<1>. SUFFICES ASSUME Init PROVE AccuracyInv OBVIOUS
<1>1. \A h \in Hosts : infoMap[h] = NoInfo /\ active[h] = FALSE /\ up[h] = FALSE /\ joining[h] = 0
  BY DEF Init
<1>2. net = {} BY DEF Init
<1>3. Accurate(NoInfo) BY NewMapFacts DEF Accurate
<1>. QED BY <1>1, <1>2, <1>3, HostsAssumption DEF AccuracyInv, Steady

\* Every step keeps accuracy.
LEMMA NextAccurate == Inv /\ AccuracyInv /\ [Next]_vars => AccuracyInv'
<1>. SUFFICES ASSUME Inv, AccuracyInv, [Next]_vars PROVE AccuracyInv' OBVIOUS
<1>1. ASSUME NEW p \in net, Unreachable(p) PROVE AccuracyInv'
  <2>1. UNCHANGED <<up, active, ver, infoMap, members, joining>> /\ net' \subseteq net
    BY <1>1 DEF Unreachable
  <2>2. joining'[Introducer] = 0 /\ Quiet BY <2>1 DEF AccuracyInv, Quiet
  <2>. QED BY <2>1, <2>2, AccurateSend
<1>2. CASE UNCHANGED vars
  <2>1. UNCHANGED <<up, active, ver, infoMap, members, joining, net>> BY <1>2 DEF vars
  <2>2. joining'[Introducer] = 0 /\ Quiet BY <2>1 DEF AccuracyInv, Quiet
  <2>. QED BY <2>1, <2>2, AccurateSend
<1>. QED
  BY <1>1, <1>2, StartAccurate, JoinAccurate, LeaveAccurate, CLIJoinAccurate, GossipTickAccurate,
     FailureTickAccurate, CleanupTickAccurate, ReceiveAccurate
  DEF Next

\* Accuracy holds in every state.
LEMMA AlwaysAccurate == Spec => [](Inv /\ AccuracyInv)
BY InitInv, InitAccurate, NextInv, NextAccurate, PTL DEF Spec

\* An incarnation that is over does not beat.
LEMMA OverIsSilent ==
  ASSUME Inv, AccuracyInv, NEW h \in Hosts, NEW id \in DOMAIN infoMap[h], Host(id) \in Steady,
         infoMap[h][id].state = "Failed"
  PROVE  ~Beating(id)
<1>. SUFFICES ASSUME Beating(id) PROVE FALSE OBVIOUS
<1>1. Over(id) BY DEF AccuracyInv, Accurate
<1>2. up[Host(id)] /\ id = RingID(Host(id)) BY DEF Beating
<1>3. id[2] = ver[Host(id)] /\ Host(id) \in Hosts BY <1>2, OwnMap, IDParts DEF RingID
<1>. QED BY <1>1, <1>2, <1>3 DEF Over, Inv, Control

\* Whatever other hosts do (leave, rejoin, stall, crash, restart), and however late
\* or often their datagrams arrive, nobody holds a beating incarnation of a steady
\* host for failed, and a steady host that runs lists itself and so keeps beating:
\* RecvLeave and the removals in the Probe and gossip handlers hit entries of the
\* host they are about only.
THEOREM SteadyAccuracy ==
  Spec => [](/\ \A h \in Hosts : \A id \in DOMAIN infoMap[h] :
                  Host(id) \in Steady /\ infoMap[h][id].state = "Failed" => ~Beating(id)
             /\ \A h \in Steady : up[h] => RingID(h) \in members[h])
<1>1. Inv /\ AccuracyInv =>
        /\ \A h \in Hosts : \A id \in DOMAIN infoMap[h] :
             Host(id) \in Steady /\ infoMap[h][id].state = "Failed" => ~Beating(id)
        /\ \A h \in Steady : up[h] => RingID(h) \in members[h]
  <2>1. Inv /\ AccuracyInv =>
          \A h \in Hosts : \A id \in DOMAIN infoMap[h] :
             Host(id) \in Steady /\ infoMap[h][id].state = "Failed" => ~Beating(id)
    BY OverIsSilent
  <2>2. AccuracyInv => \A h \in Steady : up[h] => RingID(h) \in members[h] BY DEF AccuracyInv
  <2>. QED BY <2>1, <2>2
<1>. QED BY <1>1, AlwaysAccurate, PTL

\* Without leaves and with timeouts of silent members only, nobody holds a beating
\* incarnation for failed: the failure of an earlier life of a host, however late
\* it arrives, does not touch the next, which has another id (HashInfo).
THEOREM Accuracy ==
  ASSUME Leavers = {}, LateHosts = {}
  PROVE  Spec => []OnlySilentAreFailed
<1>1. Inv /\ AccuracyInv => OnlySilentAreFailed
  <2>. SUFFICES ASSUME Inv, AccuracyInv, NEW h \in Hosts, NEW id \in DOMAIN infoMap[h],
                       infoMap[h][id].state = "Failed"
                PROVE  ~Beating(id)
    BY DEF OnlySilentAreFailed
  <2>1. Host(id) \in Steady BY OwnMap, IDParts DEF Steady
  <2>. QED BY <2>1, OverIsSilent
<1>. QED BY <1>1, AlwaysAccurate, PTL

\* ... and every running node keeps itself in its own list.
THEOREM SelfListed ==
  ASSUME Leavers = {}, LateHosts = {}
  PROVE  Spec => []SelfIsListed
<1>1. AccuracyInv => SelfIsListed BY DEF AccuracyInv, SelfIsListed, Steady
<1>. QED BY <1>1, AlwaysAccurate, PTL
=============================================================================
