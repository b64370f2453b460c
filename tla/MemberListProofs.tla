------------------------- MODULE MemberListProofs -------------------------
(***************************************************************************)
(* Proofs about MemberList for any finite set of member ids and any bound  *)
(* on the counters. Inv is the inductive invariant: the three properties   *)
(* of the model, its types, and that Members lists no id twice, without    *)
(* which RemoveMember would not remove a member and a round would repeat.  *)
(***************************************************************************)
EXTENDS MemberList, SequenceTheorems, FiniteSetTheorems, TLAPS

MembersDistinct ==
  \A i, j \in 1..Len(members) : i # j => members[i] # members[j]

Inv ==
  /\ TypeOK
  /\ MembersDistinct
  /\ IndexInBounds
  /\ NoRepeatInRound
  /\ OnlyRevivedUnlisted

----------------------------------------------------------------------------
\* A random permutation of a finite set is a sequence that lists exactly the
\* members of the set, each once.
LEMMA ShuffleFacts ==
  ASSUME NEW S, IsFiniteSet(S), NEW f \in SetToSeqs(S)
  PROVE  /\ f \in Seq(S)
         /\ ToSet(f) = S
         /\ \A i, j \in 1..Len(f) : i # j => f[i] # f[j]
<1> DEFINE n == Cardinality(S)
<1>1. n \in Nat
  BY FS_CardinalityType
<1>2. f \in [1..n -> S] /\ \A i, j \in 1..n : i # j => f[i] # f[j]
  BY DEF SetToSeqs
<1>3. f \in Seq(S) /\ Len(f) = n
  BY <1>1, <1>2, SeqDef
<1>4. f \in Injection(1..n, S)
  BY <1>2 DEF Injection, IsInjective
<1>5. Cardinality(1..n) = n
  BY <1>1, FS_Interval
<1>6. f \in Surjection(1..n, S)
  BY <1>4, <1>5, FS_Injection
<1>7. ToSet(f) = S
  BY <1>2, <1>6 DEF ToSet, Surjection
<1> QED
  BY <1>2, <1>3, <1>7

\* Taking an id out of a list without repetitions leaves the others, each
\* where it was or one place earlier.
LEMMA DroppedFacts ==
  ASSUME NEW list \in Seq(ID), NEW id \in ID,
         \A i, j \in 1..Len(list) : i # j => list[i] # list[j]
  PROVE  /\ Dropped(list, id) \in Seq(ID)
         /\ ToSet(Dropped(list, id)) = ToSet(list) \ {id}
         /\ \A i, j \in 1..Len(Dropped(list, id)) :
              i # j => Dropped(list, id)[i] # Dropped(list, id)[j]
         /\ Len(Dropped(list, id)) <= Len(list)
         /\ \A i \in 1..Len(Dropped(list, id)) :
              \/ Dropped(list, id)[i] = list[i]
              \/ i + 1 <= Len(list) /\ Dropped(list, id)[i] = list[i + 1]
<1> DEFINE at == {i \in 1..Len(list) : list[i] = id}
           rest == Dropped(list, id)
<1>0. Len(list) \in Nat /\ list \in [1..Len(list) -> ID] /\ DOMAIN list = 1..Len(list)
  BY LenProperties
<1>1. CASE at = {}
  <2>1. rest = list
    BY <1>1 DEF Dropped
  <2> QED
    BY <1>0, <1>1, <2>1 DEF ToSet
<1>2. CASE at # {}
  <2>1. PICK k \in 1..Len(list) : list[k] = id
    BY <1>2
  <2>2. at = {k}
    BY <2>1
  <2>3. Min(at) = k
    BY <2>2, <1>0 DEF Min
  <2>4. rest = SubSeq(list, 1, k - 1) \o SubSeq(list, k + 1, Len(list))
    BY <1>2, <2>3 DEF Dropped, RemoveAt
  <2>5. /\ rest \in Seq(ID)
        /\ Len(rest) = Len(list) - 1
        /\ \A i \in 1..Len(rest) : rest[i] = IF i < k THEN list[i] ELSE list[i + 1]
    <3> DEFINE a == SubSeq(list, 1, k - 1)
               b == SubSeq(list, k + 1, Len(list))
    <3>1. a \in Seq(ID) /\ Len(a) = k - 1 /\ \A i \in 1..(k - 1) : a[i] = list[i]
      BY <1>0, <2>1, SubSeqProperties
    <3>2. /\ b \in Seq(ID)
          /\ Len(b) = Len(list) - k
          /\ \A i \in 1..(Len(list) - k) : b[i] = list[i + k]
      <4>1. b \in Seq(ID)
        BY <2>1, LenProperties
      <4>2. Len(b) = Len(list) - k
        BY <2>1, LenProperties
      <4>3. \A i \in 1..(Len(list) - k) : b[i] = list[i + k]
        BY <2>1, LenProperties
      <4> QED
        BY <4>1, <4>2, <4>3
    <3>3. /\ rest \in Seq(ID)
          /\ Len(rest) = Len(a) + Len(b)
          /\ \A i \in 1..(Len(a) + Len(b)) :
               rest[i] = IF i <= Len(a) THEN a[i] ELSE b[i - Len(a)]
      <4> HIDE DEF a, b, rest
      <4>1. rest = a \o b
        BY <2>4 DEF a, b
      <4> QED
        BY <3>1, <3>2, <4>1, ConcatProperties, Zenon
    <3> HIDE DEF a, b, rest
    <3>4. \A i \in 1..Len(rest) : rest[i] = IF i < k THEN list[i] ELSE list[i + 1]
      <4> TAKE i \in 1..Len(rest)
      <4>0. rest[i] = IF i <= Len(a) THEN a[i] ELSE b[i - Len(a)]
        BY <3>3
      <4>1. CASE i < k
        <5>1. i \in 1..(k - 1) /\ i <= Len(a)
          BY <1>0, <2>1, <3>1, <3>2, <3>3, <4>1
        <5>2. a[i] = list[i]
          BY <3>1, <5>1
        <5> QED
          BY <4>0, <4>1, <5>1, <5>2
      <4>2. CASE ~(i < k)
        <5>1. /\ i - Len(a) \in 1..(Len(list) - k)
              /\ (i - Len(a)) + k = i + 1
              /\ ~(i <= Len(a))
          BY <1>0, <2>1, <3>1, <3>2, <3>3, <4>2
        <5>2. b[i - Len(a)] = list[i + 1]
          BY <3>2, <5>1
        <5> QED
          BY <4>0, <4>2, <5>1, <5>2
      <4> QED
        BY <4>1, <4>2
    <3> QED
      BY <1>0, <2>1, <3>1, <3>2, <3>3, <3>4
  <2>6. DOMAIN rest = 1..Len(rest)
    BY <2>5, LenProperties
  <2>7. \A i \in 1..Len(rest) : rest[i] \in ToSet(list) \ {id}
    BY <1>0, <2>1, <2>5 DEF ToSet
  <2>8. \A x \in ToSet(list) \ {id} : \E i \in 1..Len(rest) : rest[i] = x
    <3> TAKE x \in ToSet(list) \ {id}
    <3>1. PICK j \in 1..Len(list) : list[j] = x
      BY <1>0 DEF ToSet
    <3>2. CASE j < k
      BY <1>0, <2>1, <2>5, <3>1, <3>2
    <3>3. CASE j > k
      <4>1. j - 1 \in 1..Len(rest) /\ rest[j - 1] = list[j]
        BY <1>0, <2>1, <2>5, <3>1, <3>3
      <4> QED
        BY <4>1, <3>1
    <3> QED
      BY <2>1, <3>1, <3>2, <3>3, <1>0
  <2>9. ToSet(rest) = ToSet(list) \ {id}
    BY <2>6, <2>7, <2>8 DEF ToSet
  <2>10. \A i, j \in 1..Len(rest) : i # j => rest[i] # rest[j]
    BY <1>0, <2>1, <2>5
  <2> QED
    BY <1>0, <2>1, <2>5, <2>9, <2>10
<1> QED
  BY <1>1, <1>2

\* A rebuild establishes everything Inv says of the list, for any InfoMap.
LEMMA RebuildFacts ==
  ASSUME IsInfoMap(infoMap', ID), Rebuild(infoMap')
  PROVE  Inv'
<1> DEFINE live == NonFailed(infoMap')
<1>1. live \subseteq ID /\ IsFiniteSet(live)
  BY IDAssumption, FS_Subset DEF IsInfoMap, NonFailed
<1>2. /\ members' \in Seq(live)
      /\ ToSet(members') = live
      /\ \A i, j \in 1..Len(members') : i # j => members'[i] # members'[j]
  BY <1>1, ShuffleFacts DEF Rebuild
<1>3. members' \in Seq(ID)
  BY <1>1, <1>2, SeqMonotonic
<1>4. members' # <<>> => 0 < Len(members')
  BY <1>3, EmptySeq
<1> QED
  BY <1>2, <1>3, <1>4
  DEF Rebuild, Inv, TypeOK, MembersDistinct, IndexInBounds, NoRepeatInRound, OnlyRevivedUnlisted

\* The two ways a list survives a step: untouched, or reshuffled in place.
LEMMA ReshuffleFacts ==
  ASSUME NEW rest \in Seq(ID), members' \in SetToSeqs(ToSet(rest))
  PROVE  /\ members' \in Seq(ID)
         /\ ToSet(members') = ToSet(rest)
         /\ MembersDistinct'
         /\ members' # <<>> => 0 < Len(members')
<1>1. ToSet(rest) \subseteq ID
  BY LenProperties DEF ToSet
<1>2. IsFiniteSet(ToSet(rest))
  BY <1>1, IDAssumption, FS_Subset
<1>3. /\ members' \in Seq(ToSet(rest))
      /\ ToSet(members') = ToSet(rest)
      /\ \A i, j \in 1..Len(members') : i # j => members'[i] # members'[j]
  BY <1>2, ShuffleFacts
<1>4. members' \in Seq(ID)
  BY <1>1, <1>3, SeqMonotonic
<1> QED
  BY <1>3, <1>4, EmptySeq DEF MembersDistinct

\* What stays true of the list when a step leaves it alone and leaves the set
\* of listed and revived members in step with InfoMap.
LEMMA KeepListFacts ==
  ASSUME Inv, KeepList, IsInfoMap(infoMap', ID), revived' \subseteq ID,
         NonFailed(infoMap') = ToSet(members) \cup revived'
  PROVE  Inv'
  BY DEF Inv, KeepList, TypeOK, MembersDistinct, IndexInBounds, NoRepeatInRound,
         OnlyRevivedUnlisted

----------------------------------------------------------------------------
\* A node starts out listing itself alone.
LEMMA InitInv == Init => Inv
<1> SUFFICES ASSUME NEW id \in ID,
                    infoMap = [i \in {id} |-> [state |-> "Alive", counter |-> 0]],
                    members = <<id>>, roundRobinIndex = 0, asked = {}, revived = {}
             PROVE  Inv
  BY DEF Init
<1>1. IsInfoMap(infoMap, ID) /\ NonFailed(infoMap) = {id}
  BY DEF IsInfoMap, Infos, States, NonFailed
<1>2. ToSet(members) = {id}
  BY DEF ToSet
<1> QED
  BY <1>1, <1>2
  DEF Inv, TypeOK, MembersDistinct, IndexInBounds, NoRepeatInRound, OnlyRevivedUnlisted

\* Merge rebuilds the list when someone dies or enters; otherwise it only revives.
LEMMA MergeInv ==
  ASSUME Inv, NEW msg \in Messages, Merge(msg)
  PROVE  Inv'
<1>1. DOMAIN msg \subseteq ID /\ msg \in [DOMAIN msg -> Infos]
  BY MaxCounterAssumption DEF Messages, Infos
<1>2. IsInfoMap(infoMap', ID)
  BY <1>1 DEF Inv, TypeOK, Merge, Merged, Enters, NonFailed, Dies, Beats, IsInfoMap
<1>3. CASE MergeChanges(infoMap, msg) /\ Rebuild(infoMap')
  BY <1>2, <1>3, RebuildFacts
<1>4. CASE /\ ~MergeChanges(infoMap, msg)
           /\ revived' = revived \cup Revives(infoMap, msg)
           /\ KeepList
  <2>1. NonFailed(infoMap') = NonFailed(infoMap) \cup Revives(infoMap, msg)
    BY <1>4 DEF Merge, Merged, MergeChanges, Revives, Enters, NonFailed, Dies, Beats
  <2>2. Revives(infoMap, msg) \subseteq ID
    BY DEF Revives, Inv, TypeOK, IsInfoMap
  <2>3. NonFailed(infoMap') = ToSet(members) \cup revived'
    BY <1>4, <2>1 DEF Inv, OnlyRevivedUnlisted
  <2> QED
    BY <1>2, <1>4, <2>2, <2>3, KeepListFacts DEF Inv, TypeOK
<1> QED
  BY <1>3, <1>4 DEF Merge

\* A timeout that fails somebody rebuilds the list.
LEMMA UpdateStateGossipInv ==
  ASSUME Inv, NEW expired \in SUBSET ID, NEW s \in BOOLEAN, UpdateStateGossip(expired, s)
  PROVE  Inv'
<1>1. IsInfoMap(infoMap', ID)
  <2>1. \A x \in States : TimedOutState(x, s) \in States
    BY DEF TimedOutState, States
  <2> QED
    BY <2>1 DEF Inv, TypeOK, UpdateStateGossip, TimedOut, IsInfoMap, Infos
<1>2. CASE NonFailed(infoMap') # NonFailed(infoMap) /\ Rebuild(infoMap')
  BY <1>1, <1>2, RebuildFacts
<1>3. CASE NonFailed(infoMap') = NonFailed(infoMap) /\ KeepList /\ UNCHANGED revived
  BY <1>1, <1>3, KeepListFacts DEF Inv, TypeOK, OnlyRevivedUnlisted
<1> QED
  BY <1>2, <1>3 DEF UpdateStateGossip

\* An explicit state change rebuilds the list when it is a failure.
LEMMA UpdateStateSwimInv ==
  ASSUME Inv, NEW id \in ID, NEW state \in States, NEW s \in BOOLEAN,
         UpdateStateSwim(id, state, s)
  PROVE  Inv'
<1>1. IsInfoMap(infoMap', ID)
  <2>1. UpdatedState(state, s) \in States
    BY DEF UpdatedState, States
  <2> QED
    BY <2>1 DEF Inv, TypeOK, UpdateStateSwim, Updatable, Updated, NonFailed, IsInfoMap, Infos
<1>2. CASE infoMap'[id].state = "Failed" /\ Rebuild(infoMap')
  BY <1>1, <1>2, RebuildFacts
<1>3. CASE infoMap'[id].state # "Failed" /\ KeepList /\ UNCHANGED revived
  <2>1. NonFailed(infoMap') = NonFailed(infoMap)
    BY <1>3 DEF Inv, TypeOK, UpdateStateSwim, Updatable, Updated, NonFailed, IsInfoMap, Infos
  <2> QED
    BY <1>1, <1>3, <2>1, KeepListFacts DEF Inv, TypeOK, OnlyRevivedUnlisted
<1> QED
  BY <1>2, <1>3 DEF UpdateStateSwim

\* Cleanup takes out Failed entries only, which the list does not hold.
LEMMA CleanupInv ==
  ASSUME Inv, NEW expired \in SUBSET ID, Cleanup(expired)
  PROVE  Inv'
<1>1. IsInfoMap(infoMap', ID) /\ NonFailed(infoMap') = NonFailed(infoMap)
  BY DEF Inv, TypeOK, Cleanup, CleanedUp, Without, NonFailed, IsInfoMap
<1> QED
  BY <1>1, KeepListFacts DEF Cleanup, Inv, TypeOK, OnlyRevivedUnlisted

\* A removal moves the later entries up and restarts the round at the end of the list.
LEMMA RemoveMemberInv ==
  ASSUME Inv, NEW id \in ID, RemoveMember(id)
  PROVE  Inv'
<1> DEFINE rest == Dropped(members, id)
<1>1. /\ rest \in Seq(ID)
      /\ ToSet(rest) = ToSet(members) \ {id}
      /\ \A i, j \in 1..Len(rest) : i # j => rest[i] # rest[j]
      /\ Len(rest) <= Len(members)
      /\ \A i \in 1..Len(rest) :
           \/ rest[i] = members[i]
           \/ i + 1 <= Len(members) /\ rest[i] = members[i + 1]
  BY DroppedFacts DEF Inv, TypeOK, MembersDistinct
<1>2. /\ IsInfoMap(infoMap', ID)
      /\ NonFailed(infoMap') = NonFailed(infoMap) \ {id}
      /\ revived' \subseteq ID
  BY DEF Inv, TypeOK, RemoveMember, Without, NonFailed, IsInfoMap
<1>3. NonFailed(infoMap') = ToSet(rest) \cup revived'
  BY <1>1, <1>2 DEF Inv, OnlyRevivedUnlisted, RemoveMember
<1>4. CASE /\ members' \in SetToSeqs(ToSet(rest))
           /\ roundRobinIndex' = 0
           /\ asked' = {}
  <2>1. /\ members' \in Seq(ID)
        /\ ToSet(members') = ToSet(rest)
        /\ MembersDistinct'
        /\ members' # <<>> => 0 < Len(members')
    BY <1>1, <1>4, ReshuffleFacts
  <2> QED
    BY <1>2, <1>3, <1>4, <2>1
    DEF Inv, TypeOK, IndexInBounds, NoRepeatInRound, OnlyRevivedUnlisted
<1>5. CASE /\ roundRobinIndex < Len(rest)
           /\ members' = rest
           /\ UNCHANGED <<roundRobinIndex, asked>>
  <2> HIDE DEF rest
  <2>1. Len(members) \in Nat /\ Len(rest) \in Nat /\ roundRobinIndex \in Nat
    BY <1>1, LenProperties DEF Inv, TypeOK
  <2>2. NoRepeatInRound'
    <3> SUFFICES ASSUME NEW i \in (roundRobinIndex + 1)..Len(rest)
                 PROVE  rest[i] \notin asked
      BY <1>5 DEF NoRepeatInRound
    <3>1. i \in 1..Len(rest) /\ i \in Nat
      BY <2>1
    <3>2. CASE rest[i] = members[i]
      BY <1>1, <2>1, <3>2 DEF Inv, NoRepeatInRound
    <3>3. CASE i + 1 <= Len(members) /\ rest[i] = members[i + 1]
      <4>1. i + 1 \in (roundRobinIndex + 1)..Len(members)
        BY <2>1, <3>1, <3>3
      <4> QED
        BY <3>3, <4>1 DEF Inv, NoRepeatInRound
    <3> QED
      BY <1>1, <3>1, <3>2, <3>3
  <2> QED
    BY <1>1, <1>2, <1>3, <1>5, <2>2
    DEF Inv, TypeOK, MembersDistinct, IndexInBounds, OnlyRevivedUnlisted
<1> QED
  BY <1>4, <1>5 DEF RemoveMember

\* A target is asked once; the last one of the list ends the round.
LEMMA GetTargetInv ==
  ASSUME Inv, GetTarget
  PROVE  Inv'
<1>0. /\ members \in Seq(ID) /\ Len(members) \in Nat /\ roundRobinIndex \in Nat
      /\ roundRobinIndex < Len(members)
  BY LenProperties DEF Inv, TypeOK, IndexInBounds, GetTarget
<1>1. CASE /\ members' \in SetToSeqs(ToSet(members))
           /\ roundRobinIndex' = 0
           /\ asked' = {}
  <2>1. /\ members' \in Seq(ID)
        /\ ToSet(members') = ToSet(members)
        /\ MembersDistinct'
        /\ members' # <<>> => 0 < Len(members')
    BY <1>0, <1>1, ReshuffleFacts
  <2> QED
    BY <1>1, <2>1
    DEF Inv, TypeOK, IndexInBounds, NoRepeatInRound, OnlyRevivedUnlisted, GetTarget
<1>2. CASE /\ roundRobinIndex + 1 # Len(members)
           /\ roundRobinIndex' = roundRobinIndex + 1
           /\ asked' = asked \cup {Target}
           /\ UNCHANGED members
  <2>1. Target \in ID
    BY <1>0 DEF Target
  <2>2. NoRepeatInRound'
    BY <1>0, <1>2 DEF Inv, NoRepeatInRound, MembersDistinct, Target
  <2> QED
    BY <1>0, <1>2, <2>1, <2>2
    DEF Inv, TypeOK, MembersDistinct, IndexInBounds, OnlyRevivedUnlisted, GetTarget
<1> QED
  BY <1>1, <1>2 DEF GetTarget

\* A heartbeat changes the own counter only.
LEMMA HeartbeatInv ==
  ASSUME Inv, NEW id \in ID, Heartbeat(id)
  PROVE  Inv'
<1>1. IsInfoMap(infoMap', ID) /\ NonFailed(infoMap') = NonFailed(infoMap)
  BY DEF Inv, TypeOK, Heartbeat, NonFailed, IsInfoMap, Infos
<1> QED
  BY <1>1, KeepListFacts DEF Heartbeat, Inv, TypeOK, OnlyRevivedUnlisted

\* A new incarnation knows only itself.
LEMMA ResetInv ==
  ASSUME Inv, NEW id \in ID, Reset(id)
  PROVE  Inv'
<1>1. IsInfoMap(infoMap', ID) /\ NonFailed(infoMap') = {id}
  BY DEF Reset, IsInfoMap, Infos, States, NonFailed
<1>2. members' = <<id>> /\ ToSet(members') = {id}
  BY DEF Reset, ToSet
<1>3. members' \in Seq(ID) /\ Len(members') = 1
  BY <1>2
<1>4. roundRobinIndex' = 0 /\ asked' = {} /\ revived' = {}
  BY DEF Reset
<1>5. TypeOK' /\ OnlyRevivedUnlisted'
  BY <1>1, <1>2, <1>3, <1>4 DEF TypeOK, OnlyRevivedUnlisted
<1>6. MembersDistinct' /\ IndexInBounds' /\ NoRepeatInRound'
  BY <1>3, <1>4 DEF MembersDistinct, IndexInBounds, NoRepeatInRound
<1> QED
  BY <1>5, <1>6 DEF Inv

\* No method of Membership breaks the invariant.
LEMMA NextInv == Inv /\ [Next]_vars => Inv'
<1> SUFFICES ASSUME Inv, [Next]_vars PROVE Inv'
  OBVIOUS
<1>1. CASE Next
  <2>1. ASSUME NEW id \in ID, Reset(id) PROVE Inv'
    BY <2>1, ResetInv
  <2>2. ASSUME NEW msg \in Messages, Merge(msg) PROVE Inv'
    BY <2>2, MergeInv
  <2>3. ASSUME NEW expired \in SUBSET ID, NEW s \in BOOLEAN,
               UpdateStateGossip(expired, s)
        PROVE  Inv'
    BY <2>3, UpdateStateGossipInv
  <2>4. ASSUME NEW id \in ID, NEW state \in States, NEW s \in BOOLEAN,
               UpdateStateSwim(id, state, s)
        PROVE  Inv'
    BY <2>4, UpdateStateSwimInv
  <2>5. ASSUME NEW expired \in SUBSET ID, Cleanup(expired) PROVE Inv'
    BY <2>5, CleanupInv
  <2>6. ASSUME NEW id \in ID, RemoveMember(id) PROVE Inv'
    BY <2>6, RemoveMemberInv
  <2>7. ASSUME NEW id \in ID, Heartbeat(id) PROVE Inv'
    BY <2>7, HeartbeatInv
  <2> QED
    BY <1>1, <2>1, <2>2, <2>3, <2>4, <2>5, <2>6, <2>7, GetTargetInv DEF Next
<1>2. CASE UNCHANGED vars
  BY <1>2
  DEF vars, Inv, TypeOK, MembersDistinct, IndexInBounds, NoRepeatInRound, OnlyRevivedUnlisted
<1> QED
  BY <1>1, <1>2

\* The inductive invariant holds in every reachable state of Membership.
THEOREM InvHolds == Spec => []Inv
  BY InitInv, NextInv, PTL DEF Spec

\* The variables keep their types under every sequence of method calls.
THEOREM TypeCorrect == Spec => []TypeOK
<1>1. Inv => TypeOK
  BY DEF Inv
<1> QED
  BY <1>1, InvHolds, PTL

\* GetTarget (member.go:593-614) never indexes past Members.
THEOREM IndexSafe == Spec => []IndexInBounds
<1>1. Inv => IndexInBounds
  BY DEF Inv
<1> QED
  BY <1>1, InvHolds, PTL

\* Nobody is asked twice in a round, whatever RemoveMember takes out meanwhile.
THEOREM RoundRobinFair == Spec => []NoRepeatInRound
<1>1. Inv => NoRepeatInRound
  BY DEF Inv
<1> QED
  BY <1>1, InvHolds, PTL

\* InfoMap and Members differ by the resurrected members and by nothing else.
THEOREM ListsAgree == Spec => []OnlyRevivedUnlisted
<1>1. Inv => OnlyRevivedUnlisted
  BY DEF Inv
<1> QED
  BY <1>1, InvHolds, PTL

\* One step of any method leaves a Failed entry Failed, unless it replaces it
\* by one with a higher counter.
LEMMA StickyStep ==
  ASSUME Inv, [Next]_vars, NEW id \in DOMAIN infoMap \cap DOMAIN infoMap',
         infoMap[id].state = "Failed", infoMap'[id].state # "Failed"
  PROVE  infoMap'[id].counter > infoMap[id].counter
<1>0. /\ infoMap \in [DOMAIN infoMap -> Infos]
      /\ id \in ID
  BY DEF Inv, TypeOK, IsInfoMap
<1>1. ASSUME NEW i \in ID, Reset(i) PROVE FALSE
  BY <1>1 DEF Reset
<1>2. ASSUME NEW msg \in Messages, Merge(msg)
      PROVE  infoMap'[id].counter > infoMap[id].counter
  BY <1>0, <1>2 DEF Merge, Merged, Enters, Dies, Beats
<1>3. ASSUME NEW expired \in SUBSET ID, NEW s \in BOOLEAN, UpdateStateGossip(expired, s)
      PROVE  FALSE
  <2>1. TimedOutState("Failed", s) = "Failed"
    BY DEF TimedOutState
  <2>2. infoMap' = TimedOut(infoMap, expired, s)
    BY <1>3 DEF UpdateStateGossip
  <2> QED
    BY <1>0, <2>1, <2>2 DEF TimedOut, Infos
<1>4. ASSUME NEW i \in ID, NEW state \in States, NEW s \in BOOLEAN,
             UpdateStateSwim(i, state, s)
      PROVE  FALSE
  BY <1>0, <1>4 DEF UpdateStateSwim, Updatable, Updated, NonFailed, Infos
<1>5. ASSUME NEW expired \in SUBSET ID, Cleanup(expired) PROVE FALSE
  BY <1>0, <1>5 DEF Cleanup, CleanedUp, Without
<1>6. ASSUME NEW i \in ID, RemoveMember(i) PROVE FALSE
  BY <1>0, <1>6 DEF RemoveMember, Without
<1>7. ASSUME GetTarget PROVE FALSE
  BY <1>7 DEF GetTarget
<1>8. ASSUME NEW i \in ID, Heartbeat(i) PROVE FALSE
  BY <1>0, <1>8 DEF Heartbeat, NonFailed, Infos
<1>9. CASE UNCHANGED vars
  BY <1>9 DEF vars
<1> QED
  BY <1>1, <1>2, <1>3, <1>4, <1>5, <1>6, <1>7, <1>8, <1>9 DEF Next

\* A failure this node knows of is undone only by a higher heartbeat counter.
THEOREM FailureSticks == Spec => FailedIsSticky
<1>1. Inv /\ [Next]_vars =>
        [\A id \in DOMAIN infoMap \cap DOMAIN infoMap' :
           infoMap[id].state = "Failed" /\ infoMap'[id].state # "Failed"
             => infoMap'[id].counter > infoMap[id].counter]_vars
  BY StickyStep
<1> QED
  BY <1>1, InvHolds, PTL DEF Spec, FailedIsSticky
============================================================================
