-------------------------- MODULE StageRefinement --------------------------
(***************************************************************************)
(* Stage implements Delivery, for any number of sources, tuples, attempts, *)
(* crashes and jobs and any delays. Beside the invariant of StageProofs it *)
(* takes one more: an ack on its way to a source comes from the process    *)
(* that is running, and that process remembers the tuple.                  *)
(***************************************************************************)
EXTENDS StageProofs

AcksAreFresh ==
  \A r \in Requests : handler[r] = "acked" => Running /\ Tuple(r) \in op.processedIDs

\* No ack is under way at first.
LEMMA InitFresh == Init => AcksAreFresh
BY DEF Init, AcksAreFresh

\* The sources send no acks.
LEMMA SourceFresh ==
  ASSUME Inv, AcksAreFresh, NEW s \in Sources, SourceStep(s) \/ AckTimeout(s)
  PROVE  AcksAreFresh'
<1>1. Request(s) \in Requests BY RequestFacts DEF Inv
<1>2. UNCHANGED op
  BY DEF SourceStep, Connect, Send, GetAck, SendEOF, AckTimeout
<1>3. \/ handler' = handler
      \/ \E pc \in {"wire", "none"} : handler' = [handler EXCEPT ![Request(s)] = pc]
      \/ handler' = [handler EXCEPT ![Request(s)] = IF @ = "acked" THEN "none" ELSE @]
  BY DEF SourceStep, Connect, Send, GetAck, SendEOF, AckTimeout
<1>4. \A r \in Requests : handler'[r] = "acked" => handler[r] = "acked"
  BY <1>1, <1>3 DEF Inv, TypeOK
<1>. QED BY <1>2, <1>4 DEF AcksAreFresh, Running

\* A handler acknowledges what is, or has just been, entered into processedIDs.
LEMMA HandlerFresh ==
  ASSUME Inv, AcksAreFresh, NEW r \in Requests, HandlerStep(r)
  PROVE  AcksAreFresh'
<1>0. handler \in [Requests -> HandlerStates] /\ op \in Processes BY DEF Inv, TypeOK
<1>1. CASE Check(r)
  <2>1. op' = op /\ Running BY <1>1 DEF Check
  <2>. DEFINE pc == IF Tuple(r) \in op.processedIDs THEN Acknowledged(r) ELSE "checked"
  <2>2. handler' = [handler EXCEPT ![r] = pc] BY <1>1 DEF Check
  <2>3. pc = "acked" => Tuple(r) \in op.processedIDs OBVIOUS
  <2>. HIDE DEF pc
  <2>. QED BY <1>0, <2>1, <2>2, <2>3 DEF AcksAreFresh, Running
<1>2. CASE Process(r)
  <2>1. op'.status = op.status /\ op'.processedIDs = op.processedIDs
    BY <1>0, <1>2 DEF Process, Processes
  <2>2. handler' = [handler EXCEPT ![r] = "processed"] BY <1>2 DEF Process
  <2>. QED BY <1>0, <2>1, <2>2 DEF AcksAreFresh, Running
<1>3. CASE ProcessEOF(r)
  <2>1. op'.status = op.status /\ op'.processedIDs = op.processedIDs
    <3>1. op' = CountEOF([op EXCEPT !.flushed = TRUE]) BY <1>3 DEF ProcessEOF
    <3>2. /\ [op EXCEPT !.flushed = TRUE] \in Processes
          /\ [op EXCEPT !.flushed = TRUE].status = op.status
          /\ [op EXCEPT !.flushed = TRUE].processedIDs = op.processedIDs
      BY <1>0 DEF Processes
    <3>3. \A p \in Processes : CountEOF(p).status = p.status BY DEF CountEOF, Processes
    <3>. QED BY <3>1, <3>2, <3>3, CountEOFFacts
  <2>2. handler' = [handler EXCEPT ![r] = "none"] BY <1>3 DEF ProcessEOF
  <2>. QED BY <1>0, <2>1, <2>2 DEF AcksAreFresh, Running
<1>4. CASE Checkpoint(r)
  <2>1. op' = op /\ handler' = [handler EXCEPT ![r] = "saved"] BY <1>4 DEF Checkpoint
  <2>. QED BY <1>0, <2>1 DEF AcksAreFresh, Running
<1>5. CASE MarkAndAck(r)
  <2>1. /\ op'.status = op.status /\ Running
        /\ op'.processedIDs = op.processedIDs \cup {Tuple(r)}
    BY <1>0, <1>5 DEF MarkAndAck, Processes
  <2>2. PICK pc : handler' = [handler EXCEPT ![r] = pc] BY <1>5 DEF MarkAndAck
  <2>. QED BY <1>0, <2>1, <2>2 DEF AcksAreFresh, Running
<1>. QED BY <1>1, <1>2, <1>3, <1>4, <1>5 DEF HandlerStep

\* The end of a process takes its acks along; a new one starts without any.
LEMMA ProcessFresh ==
  ASSUME Inv, AcksAreFresh,
         Drain \/ Flush \/ EOFTimeout \/ Stop \/ Exit \/ Crash \/ Restart \/ NextJob
  PROVE  AcksAreFresh'
<1>0. op \in Processes BY DEF Inv, TypeOK
<1>1. CASE Drain \/ Flush BY <1>1 DEF Drain, Flush, AcksAreFresh, Running
<1>2. CASE EOFTimeout
  <2>1. op'.status = op.status /\ op'.processedIDs = op.processedIDs /\ handler' = handler
    BY <1>0, <1>2 DEF EOFTimeout, Processes
  <2>. QED BY <2>1 DEF AcksAreFresh, Running
<1>3. CASE Stop
  <2>1. op'.status = "stopping" /\ op'.processedIDs = op.processedIDs /\ handler' = handler
    BY <1>0, <1>3 DEF Stop, Processes
  <2>. QED BY <2>1 DEF AcksAreFresh, Running
<1>4. CASE Exit \/ Crash BY <1>4 DEF Exit, Crash, Gone, AcksAreFresh
<1>5. CASE Restart \/ NextJob
  <2>1. ~Running /\ handler' = handler BY <1>5 DEF Restart, NextJob, Running
  <2>. QED BY <2>1 DEF AcksAreFresh
<1>. QED BY <1>1, <1>2, <1>3, <1>4, <1>5

\* All steps together: an ack never outruns the memory of the process.
LEMMA NextFresh == Inv /\ AcksAreFresh /\ [Next]_vars => AcksAreFresh'
<1>. SUFFICES ASSUME Inv, AcksAreFresh, [Next]_vars PROVE AcksAreFresh' OBVIOUS
<1>1. CASE UNCHANGED vars BY <1>1 DEF vars, AcksAreFresh, Running
<1>. QED BY <1>1, SourceFresh, HandlerFresh, ProcessFresh DEF Next
----------------------------------------------------------------------------
\* An initial state of the stage is one of Delivery.
LEMMA InitRefines == Init => D!Init
BY DEF Init, D!Init, NewProcess

\* What a source does is a stutter, or an ack it may trust.
LEMMA SourceRefines ==
  ASSUME Inv, AcksAreFresh, NEW s \in Sources, SourceStep(s) \/ AckTimeout(s)
  PROVE  [D!Next]_D!vars
<1>1. CASE GetAck(s)
  <2>1. Request(s) \in Requests /\ Tuple(Request(s)) = <<s, src[s].line>>
    BY RequestFacts DEF Inv
  <2>2. <<s, src[s].line>> \in op.processedIDs BY <1>1, <2>1 DEF GetAck, AcksAreFresh
  <2>3. <<s, src[s].line>> \in Tuples BY <2>2 DEF Inv, TypeOK, Processes
  <2>4. D!Acknowledge(<<s, src[s].line>>) BY <1>1, <2>2 DEF GetAck, D!Acknowledge
  <2>. QED BY <2>3, <2>4 DEF D!Next
<1>2. CASE ~GetAck(s)
  BY <1>2 DEF SourceStep, Connect, Send, SendEOF, AckTimeout, D!vars
<1>. QED BY <1>1, <1>2

\* A handler applies, persists and remembers its tuple one step after the other.
LEMMA HandlerRefines ==
  ASSUME Inv, NEW r \in Requests, HandlerStep(r)
  PROVE  [D!Next]_D!vars
<1>0. op \in Processes BY DEF Inv, TypeOK
<1>1. CASE Check(r) BY <1>1 DEF Check, D!vars
<1>2. CASE Process(r)
  <2>1. Tuple(r) \in Tuples BY <1>2, RequestFacts DEF Inv, Process
  <2>2. op'.processedIDs = op.processedIDs BY <1>0, <1>2 DEF Process, Processes
  <2>3. D!Apply(Tuple(r)) BY <1>2, <2>2 DEF Process, D!Apply
  <2>. QED BY <2>1, <2>3 DEF D!Next
<1>3. CASE ProcessEOF(r)
  <2>1. op'.processedIDs = op.processedIDs
    BY <1>0, <1>3, RecordFacts, CountEOFFacts DEF ProcessEOF
  <2>. QED BY <1>3, <2>1 DEF ProcessEOF, D!vars
<1>4. CASE Checkpoint(r)
  <2>1. Tuple(r) \in applied BY <1>4 DEF Checkpoint, Inv, HandlersKnow
  <2>2. stateLog' = stateLog \cup {Tuple(r)} \/ stateLog' = stateLog
    BY <1>4 DEF Checkpoint, AppendLog
  <2>3. UNCHANGED <<op, acked, applied>> BY <1>4 DEF Checkpoint
  <2>4. CASE stateLog' = stateLog \cup {Tuple(r)}
    <3>1. {Tuple(r)} \in SUBSET Tuples BY <2>1 DEF Inv, TypeOK
    <3>2. D!Persist({Tuple(r)}) BY <2>1, <2>3, <2>4 DEF D!Persist
    <3>. QED BY <3>1, <3>2 DEF D!Next
  <2>5. CASE stateLog' = stateLog BY <2>3, <2>5 DEF D!vars
  <2>. QED BY <2>2, <2>4, <2>5
<1>5. CASE MarkAndAck(r)
  <2>1. Tuple(r) \in applied /\ Tuple(r) \in Tuples
    BY <1>5 DEF MarkAndAck, Inv, HandlersKnow, TypeOK
  <2>2. op'.processedIDs = op.processedIDs \cup {Tuple(r)}
    BY <1>0, <1>5 DEF MarkAndAck, Processes
  <2>3. D!Remember(Tuple(r)) BY <1>5, <2>1, <2>2 DEF MarkAndAck, D!Remember
  <2>. QED BY <2>1, <2>3 DEF D!Next
<1>. QED BY <1>1, <1>2, <1>3, <1>4, <1>5 DEF HandlerStep

\* The append worker persists; a new process starts from the log.
LEMMA ProcessRefines ==
  ASSUME Inv, Drain \/ Flush \/ EOFTimeout \/ Stop \/ Exit \/ Crash \/ Restart \/ NextJob
  PROVE  [D!Next]_D!vars
<1>0. op \in Processes /\ buffer \in SUBSET Tuples /\ buffer \subseteq applied
  BY DEF Inv, TypeOK, LogIsTruthful
<1>1. CASE Drain BY <1>1 DEF Drain, D!vars
<1>2. CASE Flush \/ Exit
  <2>1. op'.processedIDs = op.processedIDs /\ UNCHANGED <<acked, applied>>
    BY <1>0, <1>2 DEF Flush, Exit, Gone, Processes
  <2>2. stateLog' = stateLog \cup buffer \/ stateLog' = stateLog
    BY <1>2 DEF Flush, Exit, AppendLog
  <2>3. CASE stateLog' = stateLog \cup buffer
    <3>1. D!Persist(buffer) BY <1>0, <2>1, <2>3 DEF D!Persist
    <3>. QED BY <1>0, <3>1 DEF D!Next
  <2>4. CASE stateLog' = stateLog BY <2>1, <2>4 DEF D!vars
  <2>. QED BY <2>2, <2>3, <2>4
<1>3. CASE EOFTimeout \/ Stop \/ Crash
  <2>1. op'.processedIDs = op.processedIDs
    BY <1>0, <1>3 DEF EOFTimeout, Stop, Crash, Gone, Processes
  <2>. QED BY <1>3, <2>1 DEF EOFTimeout, Stop, Crash, D!vars
<1>4. CASE Restart \/ NextJob
  <2>1. op'.processedIDs \in {stateLog, {}}
    BY <1>4 DEF Restart, NextJob, Recover, NewProcess
  <2>2. D!StartProcess BY <1>4, <2>1 DEF Restart, NextJob, D!StartProcess
  <2>. QED BY <2>2 DEF D!Next
<1>. QED BY <1>1, <1>2, <1>3, <1>4

\* Every step of the stage is a step of Delivery or a stutter.
LEMMA NextRefines == Inv /\ AcksAreFresh /\ [Next]_vars => [D!Next]_D!vars
<1>. SUFFICES ASSUME Inv, AcksAreFresh, [Next]_vars PROVE [D!Next]_D!vars OBVIOUS
<1>1. CASE UNCHANGED vars BY <1>1 DEF vars, D!vars
<1>. QED BY <1>1, SourceRefines, HandlerRefines, ProcessRefines DEF Next

\* A stage keeps the promise of Delivery: what its sources take for delivered
\* was processed and is remembered, and a restart knows what the log says.
THEOREM StageImplementsDelivery == Spec => ImplementsDelivery
<1>1. Inv /\ AcksAreFresh /\ [Next]_vars => AcksAreFresh' BY NextFresh
<1>2. Spec => []AcksAreFresh BY <1>1, InitFresh, InvHolds, PTL DEF Spec
<1>. QED
  BY <1>2, InvHolds, InitRefines, NextRefines, PTL DEF Spec, ImplementsDelivery, D!Spec
============================================================================
