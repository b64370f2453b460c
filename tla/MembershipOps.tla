--------------------------- MODULE MembershipOps ---------------------------
(***************************************************************************)
(* What the methods of Membership (pkg/membership/member.go) compute on an *)
(* InfoMap, as operators on a partial function from member ids to Info.    *)
(* Hostname, port and version are part of the id (HashInfo hashes all      *)
(* three); timestamps are left out, so whether an entry is older than a    *)
(* threshold is an argument of the operators that ask for it.              *)
(***************************************************************************)
EXTENDS Naturals

\* MemberState (member.go:19-25).
States == {"Alive", "Failed", "Suspected"}

\* Info (member.go:33-40), without the fields that make up the id.
Infos == [state : States, counter : Nat]

IsInfoMap(m, ids) == DOMAIN m \subseteq ids /\ m \in [DOMAIN m -> Infos]

\* The ids every rebuild of Members collects: the ones not Failed.
NonFailed(m) == {id \in DOMAIN m : m[id].state # "Failed"}

Without(m, ids) == [id \in DOMAIN m \ ids |-> m[id]]

----------------------------------------------------------------------------
(* Merge: an incoming Failed always wins over a non-Failed entry, whatever *)
(* the counters; otherwise only a higher counter does, and it also replaces *)
(* a Failed entry. Unknown ids enter unless they come in as Failed.        *)

Dies(m, msg, id) ==
  /\ id \in DOMAIN m \cap DOMAIN msg
  /\ msg[id].state = "Failed"
  /\ m[id].state # "Failed"

\* Mutant: an equal counter wins too.
Beats_OrEqual(m, msg, id) ==
  /\ id \in DOMAIN m \cap DOMAIN msg
  /\ msg[id].state # "Failed"
  /\ msg[id].counter >= m[id].counter

Beats(m, msg, id) ==
  /\ id \in DOMAIN m \cap DOMAIN msg
  /\ msg[id].state # "Failed"
  /\ msg[id].counter > m[id].counter

Enters(m, msg) == NonFailed(msg) \ DOMAIN m

Merged(m, msg) ==
  [id \in DOMAIN m \cup Enters(m, msg) |->
     IF id \in Enters(m, msg) \/ Dies(m, msg, id) \/ Beats(m, msg, id)
     THEN msg[id] ELSE m[id]]

\* Mutant: a new member is no change.
MergeChanges_OnlyDeaths(m, msg) == \E id \in DOMAIN m : Dies(m, msg, id)

\* memberChanged: a counter-only update, a resurrection included, is no change.
MergeChanges(m, msg) ==
  Enters(m, msg) # {} \/ \E id \in DOMAIN m : Dies(m, msg, id)

\* Entries a Merge takes from Failed back to a live state.
Revives(m, msg) == {id \in DOMAIN m : Beats(m, msg, id) /\ m[id].state = "Failed"}

----------------------------------------------------------------------------
(* UpdateStateGossip with the set of ids whose timestamp is older than the *)
(* threshold their state is compared with (Tsuspect or Tfail).             *)

\* Mutant: a timeout raises suspicion in either mode.
TimedOutState_Suspects(s, suspicionEnabled) == IF s = "Alive" THEN "Suspected" ELSE s

TimedOutState(s, suspicionEnabled) ==
  CASE s = "Alive" /\ suspicionEnabled -> "Suspected"
    [] s = "Alive" /\ ~suspicionEnabled -> "Failed"
    [] s = "Suspected" /\ suspicionEnabled -> "Failed"
    [] OTHER -> s

TimedOut(m, expired, suspicionEnabled) ==
  [id \in DOMAIN m |->
     IF id \in expired
     THEN [m[id] EXCEPT !.state = TimedOutState(@, suspicionEnabled)]
     ELSE m[id]]

\* UpdateStateSwim for one id: no effect on unknown and on Failed members.
Updatable(m, id) == id \in NonFailed(m)

UpdatedState(state, suspicionEnabled) ==
  IF state = "Suspected" /\ ~suspicionEnabled THEN "Failed" ELSE state

Updated(m, id, state, suspicionEnabled) ==
  [m EXCEPT ![id].state = UpdatedState(state, suspicionEnabled)]

\* Cleanup: drop the Failed entries older than Tcleanup.
CleanedUp(m, expired) == Without(m, expired \ NonFailed(m))
============================================================================
