------------------------------ MODULE Gossip ------------------------------
(***************************************************************************)
(* The membership protocol the node binary runs: startGossipLoop, the join *)
(* through the introducer, voluntary leave, crash and restart (main.go),   *)
(* over the InfoMap operators of MembershipOps.                            *)
(*                                                                         *)
(* A member id is <<host, version>>: HashInfo hashes the host, the port    *)
(* and the time of the start or rejoin, so every incarnation has an id of  *)
(* its own while datagrams are addressed to the host. Each case of the     *)
(* loop's select is one action. Members is kept as a set: its order only   *)
(* decides who is asked next (see MemberList), here any member may be.     *)
(* Time is not modelled: an entry may be found older than its threshold at *)
(* any moment, within what LateHosts and SlowCleanup say.                  *)
(***************************************************************************)
EXTENDS Integers, FiniteSets, MembershipOps

CONSTANTS
  Hosts,         \* the machines
  Introducer,    \* cfg.VMs[0]
  MaxVersion,    \* bound: incarnations of each host
  MaxCounter,    \* bound: where heartbeat counters saturate
  MaxRetries,    \* maxRetries of joinGroup (5 in the code)
  MaxNet,        \* bound: datagrams in flight (drop-if-busy beyond it)
  Leavers,       \* hosts that may leave voluntarily
  LateHosts,     \* hosts whose entries may time out while they beat
  SlowCleanup    \* is Tcleanup longer than any live copy of a dead entry lasts?

ASSUME HostsAssumption == Introducer \in Hosts /\ IsFiniteSet(Hosts)
ASSUME BoundsAssumption ==
  /\ MaxVersion \in [Hosts -> Nat] /\ MaxCounter \in Nat
  /\ MaxRetries \in Nat \ {0} /\ MaxNet \in Nat
ASSUME SwitchAssumption ==
  Leavers \subseteq Hosts /\ LateHosts \subseteq Hosts /\ SlowCleanup \in BOOLEAN

VARIABLES
  up,       \* is the process of the host running?
  active,   \* node.IsActive
  ver,      \* version of the host's latest incarnation, 0 before the first
  infoMap,  \* InfoMap of each node
  members,  \* Members of each node, as a set
  joining,  \* Probe attempts joinGroup has left, 0 when it is not running
  net,      \* datagrams in flight, from the sender's socket to the select loop
  beats     \* history: the highest counter each incarnation ever gossiped

vars == <<up, active, ver, infoMap, members, joining, net, beats>>

ID == UNION {{h} \X (1..MaxVersion[h]) : h \in Hosts}
Host(id) == id[1]
RingID(h) == <<h, ver[h]>>
NoInfo == [id \in {} |-> [state |-> "Alive", counter |-> 0]]
NewInfo(id) == [i \in {id} |-> [state |-> "Alive", counter |-> 0]]

Packet(type, from, to, info) == [type |-> type, from |-> from, to |-> to, info |-> info]
IsPacket(p) ==
  /\ p = Packet(p.type, p.from, p.to, p.info)
  /\ p.type \in {"Probe", "ProbeAckGossip", "GossipMsg", "Leave"}
  /\ p.from \in Hosts /\ p.to \in Hosts
  /\ IsInfoMap(p.info, ID)

\* UDP: any of the datagrams may be lost, and all beyond MaxNet are.
Send(rest, packets) ==
  \E arriving \in SUBSET packets :
    /\ Cardinality(rest \cup arriving) <= MaxNet
    /\ net' = rest \cup arriving

\* Mutant: a member that died does not make Merge rebuild the list.
MembersAfter_OnlyEntries(m, msg, list) ==
  IF Enters(m, msg) # {} THEN NonFailed(Merged(m, msg)) ELSE list

\* The set Members after Merge: rebuilt only if memberChanged.
MembersAfter(m, msg, list) ==
  IF MergeChanges(m, msg) THEN NonFailed(Merged(m, msg)) ELSE list

SetMap(h, m, list) ==
  /\ infoMap' = [infoMap EXCEPT ![h] = m]
  /\ members' = [members EXCEPT ![h] = list]

\* UpdateStateSwim(now, id, Failed, false) on node h.
MarkFailed(h, id) ==
  IF Updatable(infoMap[h], id)
  THEN LET m == Updated(infoMap[h], id, "Failed", FALSE) IN SetMap(h, m, NonFailed(m))
  ELSE UNCHANGED <<infoMap, members>>

\* Mutant: one attempt too many.
JoinAttempts_OneMore(h, m, self) ==
  IF h = Introducer \/ self \notin DOMAIN m THEN 0 ELSE MaxRetries + 1

\* joinGroup returns at once on the introducer and when self is not in the map.
JoinAttempts(h, m, self) ==
  IF h = Introducer \/ self \notin DOMAIN m THEN 0 ELSE MaxRetries

----------------------------------------------------------------------------
\* Mutant: a restarted host comes back under its old id.
Start_SameVersion(h) ==
  LET self == <<h, 1>> IN
  /\ ~up[h]
  /\ up' = [up EXCEPT ![h] = TRUE]
  /\ active' = [active EXCEPT ![h] = TRUE]
  /\ ver' = [ver EXCEPT ![h] = 1]
  /\ SetMap(h, NewInfo(self), {self})
  /\ joining' = [joining EXCEPT ![h] = JoinAttempts(h, NewInfo(self), self)]
  /\ UNCHANGED <<net, beats>>

\* main: a fresh incarnation that knows only itself; the gossip loop listens
\* before the first Probe goes out.
Start(h) ==
  LET self == <<h, ver[h] + 1>> IN
  /\ ~up[h] /\ ver[h] < MaxVersion[h]
  /\ up' = [up EXCEPT ![h] = TRUE]
  /\ active' = [active EXCEPT ![h] = TRUE]
  /\ ver' = [ver EXCEPT ![h] = @ + 1]
  /\ SetMap(h, NewInfo(self), {self})
  /\ joining' = [joining EXCEPT ![h] = JoinAttempts(h, NewInfo(self), self)]
  /\ UNCHANGED <<net, beats>>

\* The process dies; nothing of the membership is on disk. Datagrams under way
\* may still reach the socket of the host's next process.
Crash(h) ==
  /\ up[h]
  /\ up' = [up EXCEPT ![h] = FALSE]
  /\ active' = [active EXCEPT ![h] = FALSE]
  /\ SetMap(h, NoInfo, {})
  /\ joining' = [joining EXCEPT ![h] = 0]
  /\ UNCHANGED <<ver, net, beats>>

\* One turn of joinGroup's loop: stop if the last Probe filled the map, else
\* send the current map to the introducer. An attempt whose send failed goes on
\* to the next without looking at the map.
JoinStep(h) ==
  /\ up[h] /\ joining[h] > 0
  /\ \/ /\ joining[h] < MaxRetries /\ Cardinality(DOMAIN infoMap[h]) > 1
        /\ joining' = [joining EXCEPT ![h] = 0]
        /\ UNCHANGED net
     \/ /\ joining' = [joining EXCEPT ![h] = @ - 1]
        /\ Send(net, {Packet("Probe", h, Introducer, infoMap[h])})
  /\ UNCHANGED <<up, active, ver, infoMap, members, beats>>

\* gracefulLeave, from the CLI: no new target list is drawn up after the local
\* map changed, the Leave goes to the members that were Alive before. The sends
\* follow the change one by one in the code and are one step here.
GracefulLeave(h) ==
  LET self == RingID(h)
      here == self \in NonFailed(infoMap[h])
      peers == {id \in DOMAIN infoMap[h] \ {self} : infoMap[h][id].state = "Alive"}
  IN
  /\ h \in Leavers /\ up[h] /\ active[h]
  /\ active' = [active EXCEPT ![h] = FALSE]
  /\ \/ here /\ MarkFailed(h, self)
             /\ Send(net, {Packet("Leave", h, Host(id), NoInfo) : id \in peers})
     \/ ~here /\ UNCHANGED <<infoMap, members, net>>
  /\ UNCHANGED <<up, ver, joining, beats>>

\* The TCP client's "leave": only the own entry changes.
ClientLeave(h) ==
  /\ h \in Leavers /\ up[h]
  /\ RingID(h) \in NonFailed(infoMap[h])
  /\ MarkFailed(h, RingID(h))
  /\ UNCHANGED <<up, active, ver, joining, net, beats>>

\* The TCP client's "join": another joinGroup, whatever the node's state (the
\* model runs one at a time).
ClientJoin(h) ==
  /\ up[h] /\ joining[h] = 0
  /\ joining' = [joining EXCEPT ![h] = JoinAttempts(h, infoMap[h], RingID(h))]
  /\ joining' # joining
  /\ UNCHANGED <<up, active, ver, infoMap, members, net, beats>>

\* handleCLIJoin: a new incarnation, but only if the own entry is there and Failed.
CLIJoin(h) ==
  LET self == RingID(h)
      failed == self \in DOMAIN infoMap[h] \ NonFailed(infoMap[h])
      next == <<h, ver[h] + 1>>
  IN
  /\ up[h]
  /\ ~(active[h] /\ self \in DOMAIN infoMap[h] /\ infoMap[h][self].state = "Alive")
  /\ active' = [active EXCEPT ![h] = TRUE]
  /\ \/ /\ failed /\ ver[h] < MaxVersion[h]
        /\ ver' = [ver EXCEPT ![h] = @ + 1]
        /\ SetMap(h, NewInfo(next), {next})
        /\ joining' = [joining EXCEPT ![h] = JoinAttempts(h, NewInfo(next), next)]
     \/ /\ ~failed
        /\ joining' = [joining EXCEPT ![h] = JoinAttempts(h, infoMap[h], self)]
        /\ UNCHANGED <<ver, infoMap, members>>
  /\ UNCHANGED <<up, net, beats>>

----------------------------------------------------------------------------
(* The select loop of startGossipLoop. *)

Saturated(n) == IF n < MaxCounter THEN n + 1 ELSE n

\* Mutant: the target's counter is incremented instead of the own one.
GossipTick_BeatsForTarget(h, target) ==
  LET m == [infoMap[h] EXCEPT ![target].counter = Saturated(@)] IN
  /\ up[h] /\ active[h] /\ RingID(h) \in NonFailed(infoMap[h])
  /\ target \in members[h]
  /\ infoMap' = [infoMap EXCEPT ![h] = m]
  /\ Send(net, {Packet("GossipMsg", h, Host(target), m)})
  /\ UNCHANGED <<up, active, ver, members, joining, beats>>

\* A node whose own entry is Failed or gone only logs the Heartbeat error.
GossipTick(h, target) ==
  LET self == RingID(h)
      m == [infoMap[h] EXCEPT ![self].counter = Saturated(@)]
  IN
  /\ up[h] /\ active[h] /\ self \in NonFailed(infoMap[h])
  /\ target \in members[h]
  /\ infoMap' = [infoMap EXCEPT ![h] = m]
  /\ beats' = [beats EXCEPT ![self] = IF @ < m[self].counter THEN m[self].counter ELSE @]
  /\ Send(net, {Packet("GossipMsg", h, Host(target), m)})
  /\ UNCHANGED <<up, active, ver, members, joining>>

\* Some process still heartbeats as id: its tick passes the IsActive check and
\* Heartbeat's, so the entry is refreshed wherever its gossip arrives.
Beating(id) ==
  LET h == Host(id) IN up[h] /\ active[h] /\ id = RingID(h) /\ id \in NonFailed(infoMap[h])

\* UpdateStateGossip(now, 5s, 5s, false): fails the expired entries, the own
\* one included when the loop itself was stalled.
FailureTick(h, expired) ==
  LET m == TimedOut(infoMap[h], expired, FALSE) IN
  /\ up[h] /\ active[h]
  /\ expired # {} /\ expired \subseteq {id \in DOMAIN infoMap[h] : infoMap[h][id].state = "Alive"}
  /\ \A id \in expired : Beating(id) => Host(id) \in LateHosts
  /\ SetMap(h, m, NonFailed(m))
  /\ UNCHANGED <<up, active, ver, joining, net, beats>>

\* Some node or datagram still takes id for live.
HeldLive(id) ==
  \/ \E n \in Hosts : up[n] /\ id \in NonFailed(infoMap[n])
  \/ \E p \in net : id \in NonFailed(p.info)

\* Cleanup(now, 30s); it also runs on a node that has left.
CleanupTick(h, expired) ==
  /\ up[h]
  /\ expired # {} /\ expired \subseteq DOMAIN infoMap[h] \ NonFailed(infoMap[h])
  /\ SlowCleanup => \A id \in expired : ~HeldLive(id)
  /\ infoMap' = [infoMap EXCEPT ![h] = CleanedUp(@, expired)]
  /\ UNCHANGED <<up, active, ver, members, joining, net, beats>>

----------------------------------------------------------------------------
(* Incoming datagrams; the loop reads them whether or not the node is active. *)

\* Probe: one entry of the sender's host is taken for the new incarnation and
\* one other entry of that host is removed, both in map order; then merge and
\* answer with the whole map.
RecvProbe(h, p) ==
  LET claimed == {id \in DOMAIN p.info : Host(id) = p.from}
      old(new) == {id \in DOMAIN infoMap[h] : Host(id) = p.from /\ id # new}
  IN
  \E new \in (IF claimed = {} THEN {<<p.from, 0>>} ELSE claimed) :
  \E gone \in (IF old(new) = {} THEN {{}} ELSE {{id} : id \in old(new)}) :
    LET m == Without(infoMap[h], gone)
        merged == Merged(m, p.info)
    IN /\ SetMap(h, merged, MembersAfter(m, p.info, members[h] \ gone))
       /\ Send(net \ {p}, {Packet("ProbeAckGossip", h, p.from, merged)})

\* Mutants: a live entry of the host is taken out as well; gossip of a sender
\* that is not in the table yet is ignored.
RecvGossip_DropsLive(h, p) ==
  LET gone == {id \in DOMAIN infoMap[h] :
                 \E new \in DOMAIN p.info : Host(id) = Host(new) /\ id # new}
      m == Without(infoMap[h], gone)
  IN
  /\ SetMap(h, Merged(m, p.info), MembersAfter(m, p.info, members[h] \ gone))
  /\ net' = net \ {p}

RecvGossip_KnownSenders(h, p) ==
  /\ IF \E id \in DOMAIN infoMap[h] : Host(id) = p.from
     THEN SetMap(h, Merged(infoMap[h], p.info), MembersAfter(infoMap[h], p.info, members[h]))
     ELSE UNCHANGED <<infoMap, members>>
  /\ net' = net \ {p}

\* GossipMsg: every id in the message may take out one Failed entry of the same
\* host, an older or a newer one; then merge.
RecvGossip(h, p) ==
  LET old(new) == {id \in DOMAIN infoMap[h] \ NonFailed(infoMap[h]) :
                     Host(id) = Host(new) /\ id # new}
      replacing == {id \in DOMAIN p.info : old(id) # {}}
  IN
  \E gone \in {{f[id] : id \in replacing} :
                 f \in [replacing -> UNION {old(id) : id \in replacing}]} :
    LET m == Without(infoMap[h], gone) IN
    /\ \A id \in replacing : old(id) \cap gone # {}
    /\ SetMap(h, Merged(m, p.info), MembersAfter(m, p.info, members[h] \ gone))
    /\ net' = net \ {p}

\* Leave: the first entry of the sender's host, in map order, is marked Failed.
RecvLeave(h, p) ==
  LET found == {id \in DOMAIN infoMap[h] : Host(id) = p.from} IN
  /\ \/ \E id \in found : MarkFailed(h, id)
     \/ found = {} /\ UNCHANGED <<infoMap, members>>
  /\ net' = net \ {p}

\* Every other message type is merged.
RecvAck(h, p) ==
  /\ SetMap(h, Merged(infoMap[h], p.info), MembersAfter(infoMap[h], p.info, members[h]))
  /\ net' = net \ {p}

Receive(h, p) ==
  /\ up[h] /\ p.to = h
  /\ \/ p.type = "Probe" /\ RecvProbe(h, p)
     \/ p.type = "GossipMsg" /\ RecvGossip(h, p)
     \/ p.type = "Leave" /\ RecvLeave(h, p)
     \/ p.type = "ProbeAckGossip" /\ RecvAck(h, p)
  /\ UNCHANGED <<up, active, ver, joining, beats>>

\* A datagram that finds no socket is gone.
Unreachable(p) ==
  /\ ~up[p.to]
  /\ net' = net \ {p}
  /\ UNCHANGED <<up, active, ver, infoMap, members, joining, beats>>

----------------------------------------------------------------------------
Init ==
  /\ up = [h \in Hosts |-> FALSE]
  /\ active = [h \in Hosts |-> FALSE]
  /\ ver = [h \in Hosts |-> 0]
  /\ infoMap = [h \in Hosts |-> NoInfo]
  /\ members = [h \in Hosts |-> {}]
  /\ joining = [h \in Hosts |-> 0]
  /\ net = {}
  /\ beats = [id \in ID |-> 0]

Next ==
  \/ \E h \in Hosts :
       \/ Start(h) \/ Crash(h) \/ JoinStep(h)
       \/ GracefulLeave(h) \/ ClientLeave(h) \/ ClientJoin(h) \/ CLIJoin(h)
       \/ \E id \in ID : GossipTick(h, id)
       \/ \E expired \in SUBSET ID : FailureTick(h, expired) \/ CleanupTick(h, expired)
       \/ \E p \in net : Receive(h, p)
  \/ \E p \in net : Unreachable(p)

Spec == Init /\ [][Next]_vars

----------------------------------------------------------------------------
\* The variables hold what the Go types and the loops' bounds let them hold.
TypeOK ==
  /\ up \in [Hosts -> BOOLEAN] /\ active \in [Hosts -> BOOLEAN]
  /\ \A h \in Hosts : ver[h] \in 0..MaxVersion[h]
  /\ \A h \in Hosts : IsInfoMap(infoMap[h], ID)
  /\ members \in [Hosts -> SUBSET ID]
  /\ joining \in [Hosts -> 0..MaxRetries]
  /\ \A p \in net : IsPacket(p)
  /\ beats \in [ID -> Nat]

\* Counters spread by merging only: nobody ever holds, and no datagram carries,
\* a heartbeat its incarnation did not emit, across failures, resurrections,
\* removals and restarts of the host.
BeatsAreReal ==
  /\ \A h \in Hosts : \A id \in DOMAIN infoMap[h] : infoMap[h][id].counter <= beats[id]
  /\ \A p \in net : \A id \in DOMAIN p.info : p.info[id].counter <= beats[id]

\* Nobody gossips to a member it believes failed: members and infoMap stay in
\* step through the remove-then-merge sequences of the handlers.
TargetsAreLive == \A h \in Hosts : members[h] \subseteq NonFailed(infoMap[h])

\* With timeouts of silent members only and without leaves, nobody ever holds
\* a beating incarnation for failed: the failure of an earlier life of a host,
\* however late it arrives, is never taken for a failure of the next.
OnlySilentAreFailed ==
  \A h \in Hosts : \A id \in DOMAIN infoMap[h] :
    infoMap[h][id].state = "Failed" => ~Beating(id)

\* ... and every running node keeps itself in its own table, so that its
\* heartbeat never stops.
SelfIsListed == \A h \in Hosts : up[h] => RingID(h) \in members[h]

----------------------------------------------------------------------------
(* Fairness: the tickers keep firing and the round robin reaches every     *)
(* member; of infinitely many datagrams to a member some get through; the  *)
(* loop reads what has arrived; an entry nobody refreshes passes Tfail.    *)
Fairness ==
  /\ \A h \in Hosts, id \in ID : SF_vars(GossipTick(h, id) /\ net' # net)
  /\ \A h \in Hosts : WF_vars(\E p \in net : Receive(h, p))
  /\ WF_vars(\E p \in net : Unreachable(p))
  /\ \A h \in Hosts, id \in ID :
       WF_vars(\E expired \in SUBSET ID : id \in expired /\ FailureTick(h, expired))

FairSpec == Spec /\ Fairness

\* Completeness: an incarnation that has stopped beating for good is, from some
\* time on, in nobody's list of live members.
Completeness ==
  \A id \in ID :
    <>[]~Beating(id) =>
      <>[](\A h \in Hosts : Beating(RingID(h)) => id \notin NonFailed(infoMap[h]))

\* Joining works both ways: of two members that keep beating, if one ever hears
\* of the other, both list each other in the end.
Convergence ==
  \A g \in Hosts : \A h \in Hosts \ {g} :
    /\ <>[](Beating(RingID(g)) /\ Beating(RingID(h)))
    /\ []<>(RingID(h) \in members[g])
    => <>[](RingID(g) \in members[h] /\ RingID(h) \in members[g])

----------------------------------------------------------------------------
(* What the repository says of rejoining nodes and the code does not keep: *)
(* see section 5 of the README.                                            *)

\* handleCLILeave prints "Use 'join' to rejoin with a new incarnation": a node
\* that becomes active again has a new version.
RejoinIsNewIncarnation ==
  [][\A h \in Hosts : up[h] /\ ~active[h] /\ active'[h] => ver'[h] > ver[h]]_vars

\* The Probe handler removes an old incarnation of the joining host "to prevent
\* duplicate counting": after it, one entry of that host is left.
ProbeLeavesOneIncarnation ==
  [][\A p \in net \ net' :
       p.type = "Probe" /\ up[p.to] =>
         \A i, j \in DOMAIN infoMap'[p.to] :
           Host(i) = p.from /\ Host(j) = p.from => i = j]_vars
============================================================================
