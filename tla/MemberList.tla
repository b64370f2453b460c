---------------------------- MODULE MemberList ----------------------------
(***************************************************************************)
(* The Membership structure of one node (pkg/membership/member.go): the    *)
(* InfoMap, the randomly permuted Members list that targets are drawn from *)
(* and the round-robin index into it. Every method holds the lock for its  *)
(* whole body, so each is one action; messages, ids and elapsed times are  *)
(* arbitrary, as the gossip loop, the CLI and the TCP handlers call them.  *)
(***************************************************************************)
EXTENDS Integers, Sequences, FiniteSets, SequencesExt, MembershipOps

CONSTANTS
  ID,          \* the member ids, one per incarnation of a host
  MaxCounter   \* bound on heartbeat counters (uint64 in the code)

ASSUME IDAssumption == IsFiniteSet(ID)
ASSUME MaxCounterAssumption == MaxCounter \in Nat

VARIABLES
  infoMap,          \* InfoMap
  members,          \* Members
  roundRobinIndex,  \* roundRobinIndex, counted from 0 as in the code
  asked,            \* history: ids GetTarget returned since Members was last shuffled
  revived           \* history: ids back from Failed since Members was last rebuilt

vars == <<infoMap, members, roundRobinIndex, asked, revived>>

\* The messages a node can be handed.
Messages == UNION {[S -> [state : States, counter : 0..MaxCounter]] : S \in SUBSET ID}

----------------------------------------------------------------------------
\* Every rebuild: collect the non-Failed ids, RandomPermutation, index 0.
Rebuild(m) ==
  /\ members' \in SetToSeqs(NonFailed(m))
  /\ roundRobinIndex' = 0
  /\ asked' = {}
  /\ revived' = {}

KeepList == UNCHANGED <<members, roundRobinIndex, asked>>

\* A new incarnation: its Version is the current time, so its id is fresh.
Reset(id) ==
  /\ id \notin DOMAIN infoMap
  /\ infoMap' = [i \in {id} |-> [state |-> "Alive", counter |-> 0]]
  /\ members' = <<id>>
  /\ roundRobinIndex' = 0
  /\ asked' = {}
  /\ revived' = {}

Merge(msg) ==
  /\ infoMap' = Merged(infoMap, msg)
  /\ \/ MergeChanges(infoMap, msg) /\ Rebuild(infoMap')
     \/ /\ ~MergeChanges(infoMap, msg)
        /\ revived' = revived \cup Revives(infoMap, msg)
        /\ KeepList

UpdateStateGossip(expired, suspicionEnabled) ==
  /\ infoMap' = TimedOut(infoMap, expired, suspicionEnabled)
  /\ \/ NonFailed(infoMap') # NonFailed(infoMap) /\ Rebuild(infoMap')
     \/ NonFailed(infoMap') = NonFailed(infoMap) /\ KeepList /\ UNCHANGED revived

UpdateStateSwim(id, state, suspicionEnabled) ==
  /\ Updatable(infoMap, id)
  /\ infoMap' = Updated(infoMap, id, state, suspicionEnabled)
  /\ \/ infoMap'[id].state = "Failed" /\ Rebuild(infoMap')
     \/ infoMap'[id].state # "Failed" /\ KeepList /\ UNCHANGED revived

Cleanup(expired) ==
  /\ infoMap' = CleanedUp(infoMap, expired)
  /\ KeepList /\ UNCHANGED revived

\* The list with the first occurrence of id taken out, the rest moved up.
Dropped(list, id) ==
  LET at == {i \in 1..Len(list) : list[i] = id}
  IN  IF at = {} THEN list ELSE RemoveAt(list, Min(at))

\* Mutants: the index stays where it is, or follows the removed entry back.
RemoveMember_KeepsIndex(id) ==
  /\ infoMap' = Without(infoMap, {id})
  /\ revived' = revived \ {id}
  /\ members' = Dropped(members, id)
  /\ UNCHANGED <<roundRobinIndex, asked>>

RemoveMember_StepsBack(id) ==
  /\ infoMap' = Without(infoMap, {id})
  /\ revived' = revived \ {id}
  /\ members' = Dropped(members, id)
  /\ roundRobinIndex' = roundRobinIndex - 1
  /\ UNCHANGED asked

RemoveMember_Rewinds(id) ==
  /\ infoMap' = Without(infoMap, {id})
  /\ revived' = revived \ {id}
  /\ members' = Dropped(members, id)
  /\ roundRobinIndex' = IF roundRobinIndex = 0 THEN 0 ELSE roundRobinIndex - 1
  /\ UNCHANGED asked

\* The index is not moved when an entry before it goes: one member is then
\* passed over in this round. It restarts only when it points past the end.
RemoveMember(id) ==
  /\ infoMap' = Without(infoMap, {id})
  /\ revived' = revived \ {id}
  /\ LET rest == Dropped(members, id) IN
       \/ /\ roundRobinIndex >= Len(rest)
          /\ members' \in SetToSeqs(ToSet(rest))
          /\ roundRobinIndex' = 0
          /\ asked' = {}
       \/ /\ roundRobinIndex < Len(rest)
          /\ members' = rest
          /\ UNCHANGED <<roundRobinIndex, asked>>

\* The member GetTarget returns next.
Target == members[roundRobinIndex + 1]

GetTarget ==
  /\ members # <<>>
  /\ Target \in DOMAIN infoMap          \* else "inconsistent membership"
  /\ \/ /\ roundRobinIndex + 1 = Len(members)
        /\ members' \in SetToSeqs(ToSet(members))
        /\ roundRobinIndex' = 0
        /\ asked' = {}
     \/ /\ roundRobinIndex + 1 # Len(members)
        /\ roundRobinIndex' = roundRobinIndex + 1
        /\ asked' = asked \cup {Target}
        /\ UNCHANGED members
  /\ UNCHANGED <<infoMap, revived>>

Heartbeat(id) ==
  /\ id \in NonFailed(infoMap)          \* else "you failed" or "no such ID"
  /\ infoMap[id].counter < MaxCounter
  /\ infoMap' = [infoMap EXCEPT ![id].counter = @ + 1]
  /\ KeepList /\ UNCHANGED revived

----------------------------------------------------------------------------
Init ==
  \E id \in ID :
    /\ infoMap = [i \in {id} |-> [state |-> "Alive", counter |-> 0]]
    /\ members = <<id>>
    /\ roundRobinIndex = 0
    /\ asked = {}
    /\ revived = {}

Next ==
  \/ \E id \in ID : Reset(id)
  \/ \E msg \in Messages : Merge(msg)
  \/ \E expired \in SUBSET ID, s \in BOOLEAN : UpdateStateGossip(expired, s)
  \/ \E id \in ID, state \in States, s \in BOOLEAN : UpdateStateSwim(id, state, s)
  \/ \E expired \in SUBSET ID : Cleanup(expired)
  \/ \E id \in ID : RemoveMember(id)
  \/ GetTarget
  \/ \E id \in ID : Heartbeat(id)

Spec == Init /\ [][Next]_vars

----------------------------------------------------------------------------
\* The variables hold what the Go types let them hold.
TypeOK ==
  /\ IsInfoMap(infoMap, ID)
  /\ members \in Seq(ID)
  /\ roundRobinIndex \in Nat
  /\ asked \subseteq ID
  /\ revived \subseteq ID

\* The round-robin index points into Members whenever Members is not empty:
\* GetTarget neither panics nor reports "inconsistent membership".
IndexInBounds == members # <<>> => roundRobinIndex < Len(members)

\* In one round over the permutation nobody is asked twice, whatever is
\* removed from the list meanwhile.
NoRepeatInRound ==
  \A i \in (roundRobinIndex + 1)..Len(members) : members[i] \notin asked

\* InfoMap and Members disagree in one way only: a member that a higher
\* counter brought back from Failed is missing from Members until the next
\* rebuild. Nothing else a method does may lose a live member.
OnlyRevivedUnlisted == NonFailed(infoMap) = ToSet(members) \cup revived

\* A Failed entry turns live again only by a higher counter: neither a timeout
\* nor an acknowledgement nor an equally old gossip undoes a failure.
FailedIsSticky ==
  [][\A id \in DOMAIN infoMap \cap DOMAIN infoMap' :
       infoMap[id].state = "Failed" /\ infoMap'[id].state # "Failed"
         => infoMap'[id].counter > infoMap[id].counter]_vars
============================================================================
