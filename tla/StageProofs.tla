---------------------------- MODULE StageProofs ----------------------------
(***************************************************************************)
(* Stage, for any number of sources, tuples, attempts and crashes and any  *)
(* delays: the state log and the acknowledgements never claim a tuple that *)
(* the operator has not processed.                                         *)
(*                                                                         *)
(* The properties are not inductive alone: a handler carries a tuple from  *)
(* op.Process to the queue, to processedIDs and to the ack in separate     *)
(* steps, so what it holds at each of them has to be known (HandlersKnow), *)
(* and so does that a source waits for the ack of a line it has            *)
(* (WaitsForLine).                                                         *)
(***************************************************************************)
EXTENDS Stage, TLAPS

HandlersKnow ==
  \A r \in Requests :
    /\ handler[r] \in {"processed", "saved"} => Tuple(r) \in applied
    /\ handler[r] = "acked" => Tuple(r) \in applied

WaitsForLine == \A s \in Sources : src[s].phase = "wait" => src[s].line <= Lines

Inv == TypeOK /\ LogIsTruthful /\ AckMeansApplied /\ HandlersKnow /\ WaitsForLine

\* Requests and tuples are built from each other's parts.
LEMMA RequestFacts ==
  ASSUME TypeOK
  PROVE  /\ \A s \in Sources : Request(s) \in Requests
         /\ \A s \in Sources : src[s].line <= Lines => Tuple(Request(s)) \in Tuples
         /\ \A s \in Sources : Tuple(Request(s)) = <<s, src[s].line>>
         /\ \A r \in Requests : r[1] \in Sources /\ (~IsEOF(r) => Tuple(r) \in Tuples)
<1>1. ASSUME NEW s \in Sources
      PROVE  /\ Request(s) \in Requests
             /\ src[s].line <= Lines => Tuple(Request(s)) \in Tuples
             /\ Tuple(Request(s)) = <<s, src[s].line>>
  <2>1. src[s].line \in 1..EOFLine /\ src[s].try \in 1..MaxTries BY DEF TypeOK, SourceStates
  <2>2. Request(s) \in Requests BY <2>1 DEF Request, Requests
  <2>3. Tuple(Request(s)) = <<s, src[s].line>> BY DEF Request, Tuple
  <2>4. src[s].line <= Lines => src[s].line \in 1..Lines BY <2>1, SizeAssumption DEF EOFLine
  <2>. QED BY <2>2, <2>3, <2>4 DEF Tuples
<1>2. ASSUME NEW r \in Requests PROVE r[1] \in Sources /\ (~IsEOF(r) => Tuple(r) \in Tuples)
  <2>1. r[1] \in Sources /\ r[2] \in 1..EOFLine BY DEF Requests
  <2>2. ~IsEOF(r) => r[2] \in 1..Lines BY <2>1, SizeAssumption DEF IsEOF, EOFLine
  <2>. QED BY <2>1, <2>2 DEF Tuple, Tuples
<1>. QED BY <1>1, <1>2

\* The initial state: nothing sent, nothing claimed.
LEMMA InitInv == Init => Inv
BY SizeAssumption, ModeAssumption
DEF Init, Inv, TypeOK, LogIsTruthful, AckMeansApplied, HandlersKnow, WaitsForLine,
    NewProcess, NewSource, EOFLine, Processes, SourceStates, HandlerStates

\* A source's move to another line, attempt or connection keeps the types.
LEMMA SetSrcType ==
  ASSUME TypeOK, NEW s \in Sources, NEW phase \in {"connect", "send", "wait", "done"},
         NEW line \in 1..EOFLine, NEW try \in 1..MaxTries,
         NEW conn \in {"none", "open", "broken"}, SetSrc(s, phase, line, try, conn),
         phase = "wait" => line <= Lines, WaitsForLine
  PROVE  /\ src' \in [Sources -> SourceStates]
         /\ WaitsForLine'
BY DEF TypeOK, SetSrc, WaitsForLine, SourceStates

\* A failed attempt stays within the bounds of the retry loop.
LEMMA FailAttemptType ==
  ASSUME TypeOK, NEW s \in Sources, src[s].line <= Lines, FailAttempt(s), WaitsForLine
  PROVE  /\ src' \in [Sources -> SourceStates]
         /\ WaitsForLine'
<1>1. src[s].line \in 1..EOFLine /\ src[s].try \in 1..MaxTries BY DEF TypeOK, SourceStates
<1>2. CASE src[s].try < MaxTries
  <2>1. src[s].try + 1 \in 1..MaxTries BY <1>1, <1>2, SizeAssumption
  <2>. QED BY <1>1, <1>2, <2>1, SetSrcType DEF FailAttempt
<1>3. CASE ~(src[s].try < MaxTries)
  <2>1. src[s].line + 1 \in 1..EOFLine /\ 1 \in 1..MaxTries
    BY <1>1, SizeAssumption DEF EOFLine
  <2>. QED BY <1>1, <1>3, <2>1, SetSrcType DEF FailAttempt
<1>. QED BY <1>2, <1>3

\* What the operator process and the logs hold, untouched by the source's steps.
OpSide == <<op, chan, buffer, stateLog, output, applied, crashes, jobs>>

\* A step of a source changes src and handler, and acked for the better.
LEMMA SourceSide ==
  ASSUME Inv, UNCHANGED OpSide, WaitsForLine', HandlersKnow', acked' \subseteq applied,
         acked' \subseteq Tuples,
         src' \in [Sources -> SourceStates],
         handler' \in [Requests -> HandlerStates]
  PROVE  Inv'
BY DEF Inv, OpSide, TypeOK, LogIsTruthful, AckMeansApplied

\* The first connection of a source.
LEMMA ConnectInv == ASSUME Inv, NEW s \in Sources, Connect(s) PROVE Inv'
<1>1. 1 \in 1..EOFLine /\ 1 \in 1..MaxTries BY SizeAssumption DEF EOFLine
<1>2. PICK c \in {"none", "open"} : SetSrc(s, "send", 1, 1, c) BY DEF Connect
<1>3. HandlersKnow' /\ acked' \subseteq applied /\ acked' \subseteq Tuples
  BY DEF Connect, Inv, TypeOK, HandlersKnow, AckMeansApplied
<1>. QED BY <1>1, <1>2, <1>3, SetSrcType, SourceSide DEF Inv, TypeOK, OpSide, Connect

\* One attempt of a source to send its line.
LEMMA SendInv == ASSUME Inv, NEW s \in Sources, Send(s) PROVE Inv'
<1>1. Request(s) \in Requests BY RequestFacts DEF Inv
<1>2. src[s].line \in 1..EOFLine /\ src[s].try \in 1..MaxTries /\ src[s].line <= Lines
  BY DEF Inv, TypeOK, SourceStates, Send
<1>3. /\ handler' \in [Requests -> HandlerStates]
      /\ HandlersKnow'
  BY <1>1 DEF HandlerStates, Send, Inv, TypeOK, HandlersKnow
<1>4. acked' \subseteq applied /\ acked' \subseteq Tuples
  BY DEF Send, Inv, TypeOK, AckMeansApplied
<1>5. FailAttempt(s) \/ SetSrc(s, "wait", src[s].line, src[s].try, "open")
  BY DEF Send
<1>6. CASE FailAttempt(s)
  BY <1>2, <1>3, <1>4, <1>6, FailAttemptType, SourceSide DEF Inv, OpSide, Send
<1>7. CASE SetSrc(s, "wait", src[s].line, src[s].try, "open")
  BY <1>2, <1>3, <1>4, <1>7, SetSrcType, SourceSide DEF Inv, OpSide, Send
<1>. QED BY <1>5, <1>6, <1>7

\* An ack moves its tuple into acked: the handler that sent it had processed it.
LEMMA GetAckInv == ASSUME Inv, NEW s \in Sources, GetAck(s) PROVE Inv'
<1>1. Request(s) \in Requests /\ Tuple(Request(s)) = <<s, src[s].line>>
  BY RequestFacts DEF Inv
<1>2. src[s].line \in 1..EOFLine /\ src[s].line <= Lines
  BY DEF Inv, TypeOK, SourceStates, GetAck, WaitsForLine
<1>3. <<s, src[s].line>> \in applied /\ <<s, src[s].line>> \in Tuples
  BY <1>1, <1>2, RequestFacts DEF GetAck, Inv, HandlersKnow
<1>4. /\ handler' \in [Requests -> HandlerStates]
      /\ HandlersKnow'
  BY <1>1 DEF HandlerStates, GetAck, Inv, TypeOK, HandlersKnow
<1>5. acked' \subseteq applied /\ acked' \subseteq Tuples
  BY <1>3 DEF GetAck, Inv, TypeOK, AckMeansApplied
<1>6. src[s].line + 1 \in 1..EOFLine /\ 1 \in 1..MaxTries
  BY <1>2, SizeAssumption DEF EOFLine
<1>. QED BY <1>4, <1>5, <1>6, SetSrcType, SourceSide DEF Inv, OpSide, GetAck

\* A source gives up on an ack and closes the connection.
LEMMA AckTimeoutInv == ASSUME Inv, NEW s \in Sources, AckTimeout(s) PROVE Inv'
<1>1. Request(s) \in Requests BY RequestFacts DEF Inv
<1>2. src[s].line <= Lines BY DEF Inv, AckTimeout, WaitsForLine
<1>3. /\ handler' \in [Requests -> HandlerStates]
      /\ HandlersKnow'
  BY <1>1 DEF HandlerStates, AckTimeout, Inv, TypeOK, HandlersKnow
<1>4. acked' \subseteq applied /\ acked' \subseteq Tuples
  BY DEF AckTimeout, Inv, TypeOK, AckMeansApplied
<1>5. FailAttempt(s) BY DEF AckTimeout
<1>. QED BY <1>2, <1>3, <1>4, <1>5, FailAttemptType, SourceSide DEF Inv, OpSide, AckTimeout

\* A source ends its stream.
LEMMA SendEOFInv == ASSUME Inv, NEW s \in Sources, SendEOF(s) PROVE Inv'
<1>1. Request(s) \in Requests BY RequestFacts DEF Inv
<1>2. EOFLine \in 1..EOFLine /\ 1 \in 1..MaxTries BY SizeAssumption DEF EOFLine
<1>3. src[s].conn \in {"none", "open", "broken"} BY DEF Inv, TypeOK, SourceStates
<1>4. /\ handler' \in [Requests -> HandlerStates]
      /\ HandlersKnow'
  BY <1>1 DEF HandlerStates, SendEOF, Inv, TypeOK, HandlersKnow
<1>5. acked' \subseteq applied /\ acked' \subseteq Tuples
  BY DEF SendEOF, Inv, TypeOK, AckMeansApplied
<1>. QED BY <1>2, <1>3, <1>4, <1>5, SetSrcType, SourceSide DEF Inv, OpSide, SendEOF

\* What a handler does with its own request; the other requests keep their place.
LEMMA HandlerSide ==
  ASSUME Inv, NEW r \in Requests,
         NEW pc \in HandlerStates,
         handler' = [handler EXCEPT ![r] = pc],
         applied \subseteq applied',
         pc \in {"processed", "saved", "acked"} => Tuple(r) \in applied'
  PROVE  /\ handler' \in [Requests -> HandlerStates]
         /\ HandlersKnow'
BY DEF Inv, TypeOK, HandlersKnow

\* An ack is sent or lost.
LEMMA AcknowledgedType == \A r : Acknowledged(r) \in {"none", "acked"}
BY DEF Acknowledged

\* A duplicate is acknowledged at once: its ID was recorded, so it was processed.
LEMMA CheckInv == ASSUME Inv, NEW r \in Requests, Check(r) PROVE Inv'
<1>. DEFINE pc == IF Tuple(r) \in op.processedIDs THEN Acknowledged(r) ELSE "checked"
<1>1. pc \in {"none", "acked", "checked"} BY AcknowledgedType
<1>2. pc = "acked" => Tuple(r) \in applied BY DEF Inv, LogIsTruthful
<1>3. handler' = [handler EXCEPT ![r] = pc] /\ applied' = applied BY DEF Check
<1>. HIDE DEF pc
<1>4. /\ handler' \in [Requests -> HandlerStates]
      /\ HandlersKnow'
  BY <1>1, <1>2, <1>3, HandlerSide DEF HandlerStates
<1>. QED BY <1>4 DEF Check, Inv, TypeOK, LogIsTruthful, AckMeansApplied, WaitsForLine

\* Updates of the operator's record, field by field.
LEMMA RecordFacts ==
  ASSUME NEW p \in Processes
  PROVE  /\ \A c \in {"up", "stopping", "down", "done"} :
              /\ [p EXCEPT !.status = c] \in Processes
              /\ [p EXCEPT !.status = c].processedIDs = p.processedIDs
         /\ \A t \in Tuples :
              /\ [p EXCEPT !.counts[t] = @ + 1] \in Processes
              /\ [p EXCEPT !.counts[t] = @ + 1].processedIDs = p.processedIDs
         /\ \A ids \in SUBSET Tuples :
              /\ [p EXCEPT !.processedIDs = ids] \in Processes
              /\ [p EXCEPT !.processedIDs = ids].processedIDs = ids
         /\ [p EXCEPT !.flushed = TRUE] \in Processes
         /\ [p EXCEPT !.flushed = TRUE].processedIDs = p.processedIDs
<1>1. ASSUME NEW c \in {"up", "stopping", "down", "done"}
      PROVE  /\ [p EXCEPT !.status = c] \in Processes
             /\ [p EXCEPT !.status = c].processedIDs = p.processedIDs
  BY DEF Processes
<1>2. ASSUME NEW t \in Tuples
      PROVE  /\ [p EXCEPT !.counts[t] = @ + 1] \in Processes
             /\ [p EXCEPT !.counts[t] = @ + 1].processedIDs = p.processedIDs
  BY DEF Processes
<1>3. ASSUME NEW ids \in SUBSET Tuples
      PROVE  /\ [p EXCEPT !.processedIDs = ids] \in Processes
             /\ [p EXCEPT !.processedIDs = ids].processedIDs = ids
  BY DEF Processes
<1>4. /\ [p EXCEPT !.flushed = TRUE] \in Processes
      /\ [p EXCEPT !.flushed = TRUE].processedIDs = p.processedIDs
  BY DEF Processes
<1>. QED BY <1>1, <1>2, <1>3, <1>4

\* The flags the EOF timeout sets.
LEMMA FlagFacts ==
  ASSUME NEW p \in Processes,
         NEW b1 \in BOOLEAN, NEW b2 \in BOOLEAN, NEW b3 \in BOOLEAN
  PROVE  /\ [p EXCEPT !.timer = b1, !.eofBroadcast = b2, !.shutdown = b3] \in Processes
         /\ [p EXCEPT !.timer = b1, !.eofBroadcast = b2, !.shutdown = b3]
               .processedIDs = p.processedIDs
         /\ [p EXCEPT !.timer = b1] \in Processes
         /\ [p EXCEPT !.timer = b1].processedIDs = p.processedIDs
BY DEF Processes

\* Counting an EOF marker leaves the processed IDs alone.
LEMMA CountEOFFacts ==
  ASSUME NEW p \in Processes
  PROVE  CountEOF(p) \in Processes /\ CountEOF(p).processedIDs = p.processedIDs
<1>. DEFINE n == p.eofCount + 1
            b1 == p.shutdown \/ n >= NumSources
            b2 == p.eofBroadcast \/ (~IsSink /\ n >= NumSources)
            b3 == p.timer \/ (~IsSink /\ n = 1 /\ n < NumSources)
<1>1. n \in Nat BY DEF Processes
<1>2. b1 \in BOOLEAN /\ b2 \in BOOLEAN /\ b3 \in BOOLEAN BY Zenon
<1>3. CountEOF(p) =
        [p EXCEPT !.eofCount = n, !.shutdown = b1, !.eofBroadcast = b2, !.timer = b3]
  BY Zenon DEF CountEOF
<1>. HIDE DEF n, b1, b2, b3
<1>4. PICK m \in Nat, c1 \in BOOLEAN, c2 \in BOOLEAN, c3 \in BOOLEAN :
        CountEOF(p) =
          [p EXCEPT !.eofCount = m, !.shutdown = c1, !.eofBroadcast = c2, !.timer = c3]
  BY Zenon, <1>1, <1>2, <1>3
<1>5. CountEOF(p) \in Processes BY <1>4 DEF Processes
<1>6. CountEOF(p).processedIDs = p.processedIDs BY <1>4 DEF Processes
<1>. QED BY <1>5, <1>6

\* op.Process makes its tuple an applied one.
LEMMA ProcessInv == ASSUME Inv, NEW r \in Requests, Process(r) PROVE Inv'
<1>1. Tuple(r) \in Tuples BY RequestFacts DEF Inv, Process
<1>2. applied' = applied \cup {Tuple(r)} BY DEF Process
<1>3. /\ handler' \in [Requests -> HandlerStates]
      /\ HandlersKnow'
  BY <1>2, HandlerSide DEF HandlerStates, Process
<1>4. /\ op' \in Processes
      /\ op'.processedIDs = op.processedIDs
      /\ output' \in [Tuples -> Nat]
  <2>1. op \in Processes /\ output \in [Tuples -> Nat] BY DEF Inv, TypeOK
  <2>2. \/ op' = [op EXCEPT !.counts[Tuple(r)] = @ + 1] /\ output' = output
        \/ op' = op /\ output' = [output EXCEPT ![Tuple(r)] = @ + 1]
    BY DEF Process
  <2>3. CASE op' = [op EXCEPT !.counts[Tuple(r)] = @ + 1] /\ output' = output
    BY <1>1, <2>1, <2>3, RecordFacts
  <2>4. CASE op' = op /\ output' = [output EXCEPT ![Tuple(r)] = @ + 1]
    BY <1>1, <2>1, <2>4
  <2>. QED BY <2>2, <2>3, <2>4
<1>. QED
  BY <1>1, <1>2, <1>3, <1>4
  DEF Process, Inv, TypeOK, LogIsTruthful, AckMeansApplied, WaitsForLine

\* An EOF marker flushes and counts, and claims nothing.
LEMMA ProcessEOFInv == ASSUME Inv, NEW r \in Requests, ProcessEOF(r) PROVE Inv'
<1>1. /\ handler' \in [Requests -> HandlerStates]
      /\ HandlersKnow'
  BY HandlerSide DEF HandlerStates, ProcessEOF
<1>2. /\ op' \in Processes
      /\ op'.processedIDs = op.processedIDs
  BY RecordFacts, CountEOFFacts DEF ProcessEOF, Inv, TypeOK
<1>3. output' \in [Tuples -> Nat] BY DEF ProcessEOF, Inv, TypeOK, Processes
<1>4. UNCHANGED <<src, chan, buffer, stateLog, acked, applied, crashes, jobs>> BY DEF ProcessEOF
<1>. QED
  BY <1>1, <1>2, <1>3, <1>4
  DEF Inv, TypeOK, LogIsTruthful, AckMeansApplied, WaitsForLine

\* Only a processed tuple is queued or written to the state log.
LEMMA CheckpointInv == ASSUME Inv, NEW r \in Requests, Checkpoint(r) PROVE Inv'
<1>1. Tuple(r) \in applied BY DEF Inv, HandlersKnow, Checkpoint
<1>2. Tuple(r) \in Tuples BY <1>1 DEF Inv, TypeOK
<1>3. /\ handler' \in [Requests -> HandlerStates]
      /\ HandlersKnow'
  BY <1>1, HandlerSide DEF HandlerStates, Checkpoint
<1>4. chan' \in Seq(Tuples) /\ \A i \in 1..Len(chan') : chan'[i] \in applied
  <2>1. chan \in Seq(Tuples) /\ \A i \in 1..Len(chan) : chan[i] \in applied
    BY DEF Inv, TypeOK, LogIsTruthful
  <2>2. CASE chan' = chan BY <2>1, <2>2
  <2>3. CASE chan' = Append(chan, Tuple(r)) BY <1>1, <1>2, <2>1, <2>3
  <2>. QED BY <2>2, <2>3 DEF Checkpoint
<1>5. stateLog' \subseteq stateLog \cup {Tuple(r)} BY DEF Checkpoint, AppendLog
<1>. QED
  BY <1>1, <1>2, <1>3, <1>4, <1>5
  DEF Checkpoint, Inv, TypeOK, LogIsTruthful, AckMeansApplied, WaitsForLine

\* Only a processed tuple enters processedIDs and is acknowledged.
LEMMA MarkAndAckInv == ASSUME Inv, NEW r \in Requests, MarkAndAck(r) PROVE Inv'
<1>1. Tuple(r) \in applied BY DEF Inv, HandlersKnow, MarkAndAck
<1>2. Tuple(r) \in Tuples BY <1>1 DEF Inv, TypeOK
<1>3. handler' = [handler EXCEPT ![r] = Acknowledged(r)] /\ applied' = applied BY DEF MarkAndAck
<1>4. /\ handler' \in [Requests -> HandlerStates]
      /\ HandlersKnow'
  BY <1>1, <1>3, AcknowledgedType, HandlerSide DEF HandlerStates
<1>5. op' \in Processes /\ op'.processedIDs = op.processedIDs \cup {Tuple(r)}
  <2>1. op \in Processes /\ op.processedIDs \cup {Tuple(r)} \in SUBSET Tuples
    BY <1>2 DEF Inv, TypeOK, Processes
  <2>. QED BY <2>1, RecordFacts DEF MarkAndAck
<1>. QED
  BY <1>1, <1>2, <1>4, <1>5
  DEF MarkAndAck, Inv, TypeOK, LogIsTruthful, AckMeansApplied, WaitsForLine

\* The append worker moves an ID from the channel to its buffer.
LEMMA DrainInv == ASSUME Inv, Drain PROVE Inv'
<1>1. chan \in Seq(Tuples) /\ chan # <<>> BY DEF Inv, TypeOK, Drain
<1>2. Head(chan) = chan[1] /\ 1 \in 1..Len(chan) BY <1>1
<1>3. Head(chan) \in applied /\ Head(chan) \in Tuples
  BY <1>1, <1>2 DEF Inv, LogIsTruthful
<1>4. Tail(chan) \in Seq(Tuples) BY <1>1
<1>5. \A i \in 1..Len(Tail(chan)) : Tail(chan)[i] = chan[i + 1] /\ i + 1 \in 1..Len(chan)
  BY <1>1
<1>6. \A i \in 1..Len(chan') : chan'[i] \in applied
  BY <1>5 DEF Drain, Inv, LogIsTruthful
<1>. QED
  BY <1>3, <1>4, <1>6
  DEF Drain, Inv, TypeOK, LogIsTruthful, AckMeansApplied, WaitsForLine, HandlersKnow

\* The append worker writes its buffer, or loses it.
LEMMA FlushInv == ASSUME Inv, Flush PROVE Inv'
<1>1. stateLog' \subseteq stateLog \cup buffer BY DEF Flush, AppendLog
<1>. QED
  BY <1>1 DEF Flush, Inv, TypeOK, LogIsTruthful, AckMeansApplied, WaitsForLine, HandlersKnow

\* The EOF timeout sets flags only.
LEMMA EOFTimeoutInv == ASSUME Inv, EOFTimeout PROVE Inv'
<1>1. op' \in Processes /\ op'.processedIDs = op.processedIDs
  BY FlagFacts DEF EOFTimeout, Inv, TypeOK
<1>. QED
  BY <1>1
  DEF EOFTimeout, Inv, TypeOK, LogIsTruthful, AckMeansApplied, WaitsForLine, HandlersKnow

\* The shutdown flag.
LEMMA StopInv == ASSUME Inv, Stop PROVE Inv'
<1>1. op' \in Processes /\ op'.processedIDs = op.processedIDs
  BY RecordFacts DEF Stop, Inv, TypeOK
<1>. QED
  BY <1>1
  DEF Stop, Inv, TypeOK, LogIsTruthful, AckMeansApplied, WaitsForLine, HandlersKnow

\* The end of the process takes the connections and the volatile queues with it.
LEMMA GoneInv ==
  ASSUME Inv, NEW status \in {"down", "done"}, Gone(status),
         stateLog' \subseteq stateLog \cup buffer, crashes' \in 0..MaxCrashes,
         UNCHANGED <<output, acked, applied, jobs>>
  PROVE  Inv'
<1>1. /\ src' \in [Sources -> SourceStates]
      /\ WaitsForLine'
  BY DEF Gone, Inv, TypeOK, WaitsForLine, SourceStates
<1>2. chan' \in Seq(Tuples) /\ Len(chan') = 0 BY DEF Gone
<1>3. op' \in Processes /\ op'.processedIDs = op.processedIDs
  BY RecordFacts DEF Gone, Inv, TypeOK
<1>4. handler' \in [Requests -> HandlerStates] BY DEF Gone, HandlerStates
<1>. QED
  BY <1>1, <1>2, <1>3, <1>4 DEF Gone, Inv, TypeOK, LogIsTruthful, AckMeansApplied, HandlersKnow

\* A regular end, with a last flush.
LEMMA ExitInv == ASSUME Inv, Exit PROVE Inv'
BY GoneInv DEF Exit, AppendLog, Inv, TypeOK

\* A kill.
LEMMA CrashInv == ASSUME Inv, Crash PROVE Inv'
<1>1. crashes' \in 0..MaxCrashes BY SizeAssumption DEF Crash, Inv, TypeOK
<1>. QED BY <1>1, GoneInv DEF Crash

\* A restart recovers what the log says, or nothing.
LEMMA RestartInv == ASSUME Inv, Restart PROVE Inv'
<1>1. PICK ids \in {stateLog, {}} : op' = NewProcess(ids) BY DEF Restart, Recover
<1>. QED
  BY <1>1
  DEF Restart, NewProcess, Processes, Inv, TypeOK, LogIsTruthful, AckMeansApplied, WaitsForLine,
      HandlersKnow

\* The next job starts from the same log and has acknowledged nothing yet.
LEMMA NextJobInv == ASSUME Inv, NextJob PROVE Inv'
<1>1. PICK ids \in {stateLog, {}} : op' = NewProcess(ids) BY DEF NextJob, Recover
<1>2. op' \in Processes /\ op'.processedIDs \subseteq stateLog
  BY <1>1 DEF NewProcess, Processes, Inv, TypeOK
<1>3. /\ src' \in [Sources -> SourceStates]
      /\ WaitsForLine'
  BY SizeAssumption DEF NextJob, NewSource, SourceStates, EOFLine, WaitsForLine
<1>4. jobs' \in 1..MaxJobs BY SizeAssumption DEF NextJob, Inv, TypeOK
<1>. QED
  BY <1>2, <1>3, <1>4
  DEF NextJob, Inv, TypeOK, LogIsTruthful, AckMeansApplied, HandlersKnow

\* Every step keeps the invariant, whatever is late, lost or killed.
LEMMA NextInv == Inv /\ [Next]_vars => Inv'
<1>. SUFFICES ASSUME Inv, [Next]_vars PROVE Inv' OBVIOUS
<1>1. ASSUME NEW s \in Sources, SourceStep(s) PROVE Inv'
  BY <1>1, ConnectInv, SendInv, GetAckInv, SendEOFInv DEF SourceStep
<1>2. ASSUME NEW s \in Sources, AckTimeout(s) PROVE Inv' BY <1>2, AckTimeoutInv
<1>3. ASSUME NEW r \in Requests, HandlerStep(r) PROVE Inv'
  BY <1>3, CheckInv, ProcessInv, ProcessEOFInv, CheckpointInv, MarkAndAckInv DEF HandlerStep
<1>4. CASE Drain \/ Flush \/ EOFTimeout \/ Stop BY <1>4, DrainInv, FlushInv, EOFTimeoutInv, StopInv
<1>5. CASE Exit \/ Crash \/ Restart \/ NextJob
  BY <1>5, ExitInv, CrashInv, RestartInv, NextJobInv
<1>6. CASE UNCHANGED vars
  BY <1>6 DEF vars, Inv, TypeOK, LogIsTruthful, AckMeansApplied, WaitsForLine, HandlersKnow
<1>. QED BY <1>1, <1>2, <1>3, <1>4, <1>5, <1>6 DEF Next

\* The invariant holds in every state a stage can reach.
THEOREM InvHolds == Spec => []Inv
BY InitInv, NextInv, PTL DEF Spec

\* The variables of source, handlers and operator keep their types.
THEOREM TypeCorrect == Spec => []TypeOK
<1>1. Inv => TypeOK BY DEF Inv
<1>. QED BY <1>1, InvHolds, PTL

\* The state log, the queue before it and processedIDs hold only tuples the
\* operator ran on: deduplication never rejects a tuple that no process of this
\* task id was run on.
THEOREM LogTruthful == Spec => []LogIsTruthful
<1>1. Inv => LogIsTruthful BY DEF Inv
<1>. QED BY <1>1, InvHolds, PTL

\* An acknowledged tuple has been processed.
THEOREM AckTruthful == Spec => []AckMeansApplied
<1>1. Inv => AckMeansApplied BY DEF Inv
<1>. QED BY <1>1, InvHolds, PTL
============================================================================
