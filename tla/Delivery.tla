------------------------------ MODULE Delivery ------------------------------
(***************************************************************************)
(* What a stage promises the stage before it, whatever is late, lost or    *)
(* killed: a tuple is remembered, persisted and acknowledged only after it *)
(* was processed, in that order of trust. The sender hears of a tuple only *)
(* while the running process remembers it, so that sending it once more    *)
(* does no harm. A new process knows what the log says, or nothing if the  *)
(* log cannot be read, and the log never loses what it has.                *)
(*                                                                         *)
(* Stage implements this with handlers, a queue, a buffer and retries.     *)
(***************************************************************************)
CONSTANT Tuples

VARIABLES
  applied,  \* tuples some process of the task was run on
  memory,   \* tuples the process rejects as duplicates
  log,      \* tuples in the state log
  acked     \* tuples the sender takes for delivered

vars == <<applied, memory, log, acked>>

Init == applied = {} /\ memory = {} /\ log = {} /\ acked = {}

Apply(t) == applied' = applied \cup {t} /\ UNCHANGED <<memory, log, acked>>

Remember(t) ==
  /\ t \in applied
  /\ memory' = memory \cup {t}
  /\ UNCHANGED <<applied, log, acked>>

Persist(ids) ==
  /\ ids \subseteq applied
  /\ log' = log \cup ids
  /\ UNCHANGED <<applied, memory, acked>>

Acknowledge(t) ==
  /\ t \in memory
  /\ acked' = acked \cup {t}
  /\ UNCHANGED <<applied, memory, log>>

\* A new process of the task, for the same job or the next one.
StartProcess ==
  /\ memory' \in {log, {}}
  /\ acked' \in {acked, {}}
  /\ UNCHANGED <<applied, log>>

Next ==
  \/ \E t \in Tuples : Apply(t) \/ Remember(t) \/ Acknowledge(t)
  \/ \E ids \in SUBSET Tuples : Persist(ids)
  \/ StartProcess

Spec == Init /\ [][Next]_vars
============================================================================
