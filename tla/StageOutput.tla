---------------------------- MODULE StageOutput ----------------------------
(***************************************************************************)
(* What a task puts into its output: no tuple twice in one life, nothing   *)
(* after EOF, and, of a task that is never killed, every tuple once. All   *)
(* three need the code's fixed waits to be long enough: "handler" \notin   *)
(* Slow says that a handler answers before its source gives up after five  *)
(* seconds, "source" \notin Slow that no source ends later than the EOF    *)
(* timeout after another. Acks may always be late.                         *)
(***************************************************************************)
EXTENDS StageRefinement, FiniteSetTheorems

\* A request of some source is with the process, or its ack on the way back.
Busy(r) == handler[r] # "none"

\* One request per source is under way: the tuple its source waits for over an
\* open connection, or the EOF it ended with.
OneRequest ==
  \A r \in Requests : Busy(r) =>
    /\ Running /\ r = Request(r[1])
    /\ IF IsEOF(r) THEN src[r[1]].phase = "done"
                   ELSE src[r[1]].phase = "wait" /\ src[r[1]].conn = "open"

\* Connections are open only to a process, attempts start anew with every
\* line, and a source that has ended has gone through all its lines.
SourcesInOrder ==
  \A s \in Sources :
    /\ src[s].conn = "open" => Running
    /\ src[s].line = EOFLine => src[s].try = 1
    /\ src[s].phase = "done" => src[s].line = EOFLine
    /\ src[s].phase = "connect" => src[s].line = 1

\* The process has run on t: it remembers the ID or a handler is about to.
RanOn(t) ==
  \/ t \in op.processedIDs
  \/ \E r \in Requests : Tuple(r) = t /\ handler[r] \in {"processed", "saved"}

\* A handler that has found its tuple unknown is right until it has dealt with it.
CheckedIsNew ==
  \A r \in Requests : handler[r] = "checked" => Tuple(r) \notin op.processedIDs

\* Counted or, at a sink, written at most once, and only what it ran on.
CountedOnce ==
  \A t \in Tuples :
    /\ op.counts[t] <= 1
    /\ Running /\ op.counts[t] > 0 => RanOn(t)
    /\ Op = "pass" => op.counts[t] = 0

\* The same for the output of a sink, where count writes at its one flush only.
WrittenOnce ==
  IsSink => \A t \in Tuples :
    /\ output[t] <= 1
    /\ Op = "pass" /\ Running /\ output[t] > 0 => RanOn(t)
    /\ Op = "count" /\ ~op.flushed => output[t] = 0

\* Sources that have ended and whose EOF, if it got through, is dealt with.
Ended == {s \in Sources : src[s].phase = "done" /\ \A r \in Requests : r[1] = s => handler[r] = "none"}

\* EOFs are counted once for each source that has ended, so EOF is passed on,
\* and the process shuts down, only when all have.
EndKnown ==
  /\ op.eofCount <= Cardinality(Ended)
  /\ op.eofBroadcast \/ op.shutdown => Ended = Sources
  /\ op.status = "stopping" => op.shutdown

\* In the first life of the process only its shutdown ends it, the sources have
\* moved past remembered lines only, and the output of a stateless task is what
\* it ran on.
FirstLife ==
  crashes = 0 =>
    /\ op.status # "down" /\ (op.status # "up" => op.shutdown)
    /\ \A s \in Sources : src[s].conn = "broken" => op.status = "done"
    /\ \A s \in Sources : \A l \in 1..(src[s].line - 1) : <<s, l>> \in op.processedIDs
    /\ \A t \in Tuples : output[t] = IF RanOn(t) THEN 1 ELSE 0

\* What the assignments of a source's step leave in src.
LEMMA SetSrcEffect ==
  ASSUME Inv, NEW s \in Sources, NEW phase, NEW line, NEW try, NEW conn,
         SetSrc(s, phase, line, try, conn)
  PROVE  /\ \A u \in Sources \ {s} : src'[u] = src[u] /\ Request(u)' = Request(u)
         /\ src'[s].phase = phase /\ src'[s].line = line
         /\ src'[s].try = try /\ src'[s].conn = conn
         /\ Request(s)' = <<s, line, try>>
BY DEF Inv, TypeOK, SetSrc, Request

\* What a source in transit does not disturb.
LEMMA SourceOne ==
  ASSUME Inv, OneRequest, SourcesInOrder, NEW s \in Sources,
         NEW phase, NEW line, NEW try, NEW conn, SetSrc(s, phase, line, try, conn),
         UNCHANGED op,
         \A r \in Requests : r[1] # s => handler'[r] = handler[r],
         \A r \in Requests : r[1] = s /\ handler'[r] # "none" =>
            /\ Running /\ r = <<s, line, try>>
            /\ IF IsEOF(r) THEN phase = "done" ELSE phase = "wait" /\ conn = "open",
         conn = "open" => Running,
         line = EOFLine => try = 1,
         phase = "done" => line = EOFLine,
         phase # "connect"
  PROVE  OneRequest' /\ SourcesInOrder'
<1>1. SourcesInOrder' BY SetSrcEffect DEF SourcesInOrder, Running
<1>2. ASSUME NEW r \in Requests, Busy(r)'
      PROVE  /\ Running' /\ r = Request(r[1])'
             /\ IF IsEOF(r) THEN src'[r[1]].phase = "done"
                ELSE src'[r[1]].phase = "wait" /\ src'[r[1]].conn = "open"
  <2>1. r[1] \in Sources BY RequestFacts DEF Inv
  <2>2. CASE r[1] = s BY <1>2, <2>2, SetSrcEffect DEF Busy, Running
  <2>3. CASE r[1] # s BY <1>2, <2>1, <2>3, SetSrcEffect DEF Busy, Running, OneRequest
  <2>. QED BY <2>2, <2>3
<1>3. OneRequest' BY <1>2 DEF OneRequest, IsEOF
<1>. QED BY <1>1, <1>3

\* startSourceTask's first connection is made before any request.
LEMMA ConnectOne ==
  ASSUME Inv, OneRequest, SourcesInOrder, NEW s \in Sources, Connect(s)
  PROVE  OneRequest' /\ SourcesInOrder'
<1>1. \A r \in Requests : r[1] = s => handler[r] = "none" BY DEF OneRequest, Connect, Busy
<1>2. PICK c : SetSrc(s, "send", 1, 1, c) /\ (c = "open" => Running) BY DEF Connect, Running
<1>3. UNCHANGED <<handler, op>> BY DEF Connect
<1>. QED BY <1>1, <1>2, <1>3, SourceOne

\* A source sends only when it waits for nothing: its one request is the new one.
LEMMA SendOne ==
  ASSUME Inv, OneRequest, SourcesInOrder, NEW s \in Sources, Send(s)
  PROVE  OneRequest' /\ SourcesInOrder'
<1>1. \A r \in Requests : r[1] = s => handler[r] = "none" BY DEF OneRequest, Send, Busy
<1>2. Request(s) \in Requests /\ Request(s)[1] = s /\ UNCHANGED op
  BY RequestFacts DEF Inv, Send, Request
<1>3. src[s].line <= Lines /\ src[s].line \in 1..EOFLine /\ src[s].line # EOFLine
  BY SizeAssumption DEF Send, Inv, TypeOK, SourceStates, EOFLine
<1>4. CASE /\ SetSrc(s, "wait", src[s].line, src[s].try, "open")
           /\ handler' = [handler EXCEPT ![Request(s)] = "wire"]
           /\ src[s].conn = "open" \/ op.status = "up"
  <2>1. Running BY <1>4 DEF Running, SourcesInOrder
  <2>2. \A r \in Requests : r[1] # s => handler'[r] = handler[r] BY <1>2, <1>4 DEF Inv, TypeOK
  <2>3. \A r \in Requests : r[1] = s /\ handler'[r] # "none" => r = Request(s)
    BY <1>1, <1>2, <1>4 DEF Inv, TypeOK
  <2>4. ~IsEOF(Request(s)) BY <1>3 DEF IsEOF, Request
  <2>. QED BY <1>2, <1>3, <1>4, <2>1, <2>2, <2>3, <2>4, SourceOne DEF Request
<1>5. CASE FailAttempt(s) /\ UNCHANGED handler
  <2>1. PICK line, try : /\ SetSrc(s, "send", line, try, "none")
                         /\ line = EOFLine => try = 1
    BY <1>3, <1>5 DEF FailAttempt
  <2>. QED BY <1>1, <1>2, <1>5, <2>1, SourceOne
<1>. QED BY <1>4, <1>5 DEF Send

\* The ack ends the request; the next line starts with its first attempt.
LEMMA GetAckOne ==
  ASSUME Inv, OneRequest, SourcesInOrder, NEW s \in Sources, GetAck(s)
  PROVE  OneRequest' /\ SourcesInOrder'
<1>1. \A r \in Requests : r[1] = s /\ handler[r] # "none" => r = Request(s)
  BY DEF OneRequest, Busy
<1>2. Request(s) \in Requests /\ Request(s)[1] = s /\ UNCHANGED op
  BY RequestFacts DEF Inv, GetAck, Request
<1>3. /\ SetSrc(s, "send", src[s].line + 1, 1, "open")
      /\ handler' = [handler EXCEPT ![Request(s)] = "none"]
      /\ Running
  BY DEF GetAck, SourcesInOrder
<1>4. /\ \A r \in Requests : r[1] # s => handler'[r] = handler[r]
      /\ \A r \in Requests : r[1] = s => handler'[r] = "none"
  BY <1>1, <1>2, <1>3 DEF Inv, TypeOK
<1>. QED BY <1>2, <1>3, <1>4, SourceOne

\* A source that gives up leaves no request behind if handlers are in time: what
\* it drops is a lost or a late ack.
LEMMA AckTimeoutOne ==
  ASSUME "handler" \notin Slow, Inv, OneRequest, SourcesInOrder, NEW s \in Sources, AckTimeout(s)
  PROVE  OneRequest' /\ SourcesInOrder'
<1>1. \A r \in Requests : r[1] = s /\ handler[r] # "none" =>
        r = Request(s) /\ src[s].conn = "open"
  BY DEF OneRequest, Busy, AckTimeout
<1>2. Request(s) \in Requests /\ Request(s)[1] = s /\ UNCHANGED op
  BY RequestFacts DEF Inv, AckTimeout, Request
<1>3. src[s].line <= Lines /\ src[s].line \in 1..EOFLine /\ src[s].line # EOFLine
  BY SizeAssumption DEF AckTimeout, Inv, WaitsForLine, TypeOK, SourceStates, EOFLine
<1>4. handler' = [handler EXCEPT ![Request(s)] = IF @ = "acked" THEN "none" ELSE @]
  BY DEF AckTimeout
<1>5. handler[Request(s)] \in {"none", "acked"} BY <1>1, <1>2 DEF AckTimeout
<1>6. /\ \A r \in Requests : r[1] # s => handler'[r] = handler[r]
      /\ \A r \in Requests : r[1] = s => handler'[r] = "none"
  BY <1>1, <1>2, <1>4, <1>5 DEF Inv, TypeOK
<1>7. PICK line, try : SetSrc(s, "send", line, try, "none") /\ (line = EOFLine => try = 1)
  BY <1>3 DEF FailAttempt, AckTimeout
<1>. QED BY <1>2, <1>6, <1>7, SourceOne

\* EOF is sent once, after the last line.
LEMMA SendEOFOne ==
  ASSUME Inv, OneRequest, SourcesInOrder, NEW s \in Sources, SendEOF(s)
  PROVE  OneRequest' /\ SourcesInOrder'
<1>1. \A r \in Requests : r[1] = s => handler[r] = "none" BY DEF OneRequest, SendEOF, Busy
<1>2. Request(s) \in Requests /\ Request(s)[1] = s /\ UNCHANGED op
  BY RequestFacts DEF Inv, SendEOF, Request
<1>3. src[s].line = EOFLine /\ src[s].try = 1 BY DEF SendEOF, SourcesInOrder
<1>4. IsEOF(Request(s)) /\ Request(s) = <<s, EOFLine, 1>> BY <1>3 DEF IsEOF, Request
<1>5. SetSrc(s, "done", EOFLine, 1, src[s].conn) /\ (src[s].conn = "open" => Running)
  BY DEF SendEOF, SourcesInOrder
<1>6. \A r \in Requests : r[1] # s => handler'[r] = handler[r]
  BY <1>2 DEF SendEOF, Inv, TypeOK
<1>7. \A r \in Requests : r[1] = s /\ handler'[r] # "none" => Running /\ r = Request(s)
  BY <1>1, <1>2, <1>5 DEF SendEOF, Inv, TypeOK
<1>. QED BY <1>2, <1>4, <1>5, <1>6, <1>7, SourceOne

\* The operator's record after the steps of the process.
LEMMA ProcessFields ==
  ASSUME Inv, NEW r \in Requests, Process(r)
  PROVE  /\ op'.status = op.status /\ op'.processedIDs = op.processedIDs
         /\ op'.flushed = op.flushed /\ op'.eofCount = op.eofCount
         /\ op'.eofBroadcast = op.eofBroadcast /\ op'.shutdown = op.shutdown
         /\ \A t \in Tuples : t # Tuple(r) => op'.counts[t] = op.counts[t] /\ output'[t] = output[t]
         /\ Op = "count" => op'.counts[Tuple(r)] = op.counts[Tuple(r)] + 1 /\ output' = output
         /\ Op = "pass" => op' = op /\ output'[Tuple(r)] = output[Tuple(r)] + 1
<1>1. Tuple(r) \in Tuples BY RequestFacts DEF Inv, Process
<1>2. op \in Processes /\ output \in [Tuples -> Nat] BY DEF Inv, TypeOK
<1>3. CASE Op = "count"
  <2>1. op' = [op EXCEPT !.counts[Tuple(r)] = @ + 1] /\ output' = output BY <1>3 DEF Process
  <2>. QED BY <1>1, <1>2, <1>3, <2>1 DEF Processes
<1>4. CASE Op = "pass"
  <2>1. op' = op /\ output' = [output EXCEPT ![Tuple(r)] = @ + 1] BY <1>4 DEF Process
  <2>. QED BY <1>1, <1>2, <1>4, <2>1
<1>. QED BY <1>3, <1>4, ModeAssumption

\* The record after an EOF: one more is counted, and the flags follow the count.
LEMMA ProcessEOFFields ==
  ASSUME Inv, NEW r \in Requests, ProcessEOF(r)
  PROVE  /\ op'.status = op.status /\ op'.processedIDs = op.processedIDs
         /\ op'.flushed = TRUE /\ op'.eofCount = op.eofCount + 1 /\ op'.counts = op.counts
         /\ op'.shutdown = (op.shutdown \/ op'.eofCount >= NumSources)
         /\ op'.eofBroadcast = (op.eofBroadcast \/ (~IsSink /\ op'.eofCount >= NumSources))
<1>1. op \in Processes BY DEF Inv, TypeOK
<1>2. op' = CountEOF([op EXCEPT !.flushed = TRUE]) BY DEF ProcessEOF
<1>. QED BY <1>1, <1>2 DEF CountEOF, Processes

\* A handler's step changes its own request only, and no request comes to life.
LEMMA HandlerEffect ==
  ASSUME Inv, NEW r \in Requests, HandlerStep(r)
  PROVE  /\ \A q \in Requests \ {r} : handler'[q] = handler[q]
         /\ Running /\ handler[r] # "none" /\ op'.status = op.status /\ src' = src
<1>0. handler \in [Requests -> HandlerStates] /\ op \in Processes BY DEF Inv, TypeOK
<1>1. Running /\ handler[r] # "none" /\ src' = src
  BY DEF HandlerStep, Check, Process, ProcessEOF, Checkpoint, MarkAndAck
<1>2. \A q \in Requests \ {r} : handler'[q] = handler[q]
  BY <1>0 DEF HandlerStep, Check, Process, ProcessEOF, Checkpoint, MarkAndAck
<1>3. op'.status = op.status
  <2>1. CASE Check(r) \/ Checkpoint(r) BY <2>1 DEF Check, Checkpoint
  <2>2. CASE MarkAndAck(r) BY <1>0, <2>2 DEF MarkAndAck, Processes
  <2>. QED BY <2>1, <2>2, ProcessFields, ProcessEOFFields DEF HandlerStep
<1>. QED BY <1>1, <1>2, <1>3

\* A handler's step adds no request.
LEMMA HandlerOne ==
  ASSUME Inv, OneRequest, SourcesInOrder, NEW r \in Requests, HandlerStep(r)
  PROVE  OneRequest' /\ SourcesInOrder'
<1>1. SourcesInOrder' BY HandlerEffect DEF SourcesInOrder, Running
<1>2. \A q \in Requests : Busy(q)' => Busy(q) BY HandlerEffect DEF Busy
<1>3. OneRequest' BY <1>2, HandlerEffect DEF OneRequest, Running, Request, IsEOF
<1>. QED BY <1>1, <1>3

\* EOF timeout and shutdown leave the rest of the process alone.
LEMMA FlagFields ==
  ASSUME Inv, EOFTimeout \/ Stop
  PROVE  /\ op'.processedIDs = op.processedIDs /\ op'.flushed = op.flushed
         /\ op'.eofCount = op.eofCount /\ op'.counts = op.counts
         /\ UNCHANGED <<src, handler, output, crashes>>
         /\ Running /\ Running'
         /\ EOFTimeout => op'.status = op.status
         /\ Stop => /\ op.shutdown /\ op'.shutdown /\ op'.status = "stopping"
                    /\ op'.eofBroadcast = op.eofBroadcast
<1>1. op \in Processes BY DEF Inv, TypeOK
<1>2. CASE EOFTimeout BY <1>1, <1>2 DEF EOFTimeout, Processes, Running, Stop
<1>3. CASE Stop BY <1>1, <1>3 DEF Stop, Processes, Running, EOFTimeout
<1>. QED BY <1>2, <1>3

\* A process that ends keeps its record for the history, and breaks every
\* connection.
LEMMA GoneFields ==
  ASSUME Inv, NEW status, Gone(status)
  PROVE  /\ op'.status = status
         /\ op'.processedIDs = op.processedIDs /\ op'.flushed = op.flushed
         /\ op'.eofCount = op.eofCount /\ op'.counts = op.counts
         /\ op'.eofBroadcast = op.eofBroadcast /\ op'.shutdown = op.shutdown
         /\ \A r \in Requests : handler'[r] = "none"
         /\ \A s \in Sources : /\ src'[s].phase = src[s].phase /\ src'[s].line = src[s].line
                               /\ src'[s].try = src[s].try /\ src'[s].conn # "open"
<1>1. op \in Processes /\ src \in [Sources -> SourceStates] BY DEF Inv, TypeOK
<1>2. /\ op'.status = status
      /\ op'.processedIDs = op.processedIDs /\ op'.flushed = op.flushed
      /\ op'.eofCount = op.eofCount /\ op'.counts = op.counts
      /\ op'.eofBroadcast = op.eofBroadcast /\ op'.shutdown = op.shutdown
  BY <1>1 DEF Gone, Processes
<1>3. ASSUME NEW s \in Sources
      PROVE  /\ src'[s].phase = src[s].phase /\ src'[s].line = src[s].line
             /\ src'[s].try = src[s].try /\ src'[s].conn # "open"
  <2>1. src[s] \in SourceStates BY <1>1
  <2>2. src'[s] = IF src[s].conn = "open" THEN [src[s] EXCEPT !.conn = "broken"] ELSE src[s]
    BY DEF Gone
  <2>. QED BY <2>1, <2>2 DEF SourceStates
<1>4. \A r \in Requests : handler'[r] = "none" BY DEF Gone
<1>. QED BY <1>2, <1>3, <1>4

\* A new process, in the place of a dead one or for the next job.
LEMMA NewProcessFields ==
  ASSUME Inv, Restart \/ NextJob
  PROVE  /\ op'.status = "up" /\ op'.flushed = FALSE /\ op'.eofCount = 0
         /\ op'.eofBroadcast = FALSE /\ op'.shutdown = FALSE
         /\ \A t \in Tuples : op'.counts[t] = 0
         /\ ~Running /\ Running' /\ handler' = handler
         /\ Restart => src' = src
         /\ NextJob => src' = [s \in Sources |-> NewSource]
         /\ IsSink => \A t \in Tuples : output'[t] = 0
<1>1. PICK ids : op' = NewProcess(ids) BY DEF Restart, NextJob, Recover
<1>2. /\ op'.status = "up" /\ op'.flushed = FALSE /\ op'.eofCount = 0
      /\ op'.eofBroadcast = FALSE /\ op'.shutdown = FALSE
      /\ \A t \in Tuples : op'.counts[t] = 0
  BY <1>1 DEF NewProcess
<1>. QED BY <1>2 DEF Restart, NextJob, Running

\* Neither do the steps of the process: an end of it takes all requests along.
LEMMA ProcessOne ==
  ASSUME Inv, OneRequest, SourcesInOrder,
         Drain \/ Flush \/ EOFTimeout \/ Stop \/ Exit \/ Crash \/ Restart \/ NextJob
  PROVE  OneRequest' /\ SourcesInOrder'
<1>1. CASE Drain \/ Flush
  BY <1>1 DEF Drain, Flush, OneRequest, SourcesInOrder, Busy, Running, Request, IsEOF
<1>2. CASE EOFTimeout \/ Stop
  BY <1>2, FlagFields DEF OneRequest, SourcesInOrder, Busy, Running, Request, IsEOF
<1>3. CASE Exit \/ Crash
  BY <1>3, GoneFields DEF Exit, Crash, OneRequest, SourcesInOrder, Busy
<1>4. CASE Restart
  <2>1. \A r \in Requests : ~Busy(r)' BY <1>4, NewProcessFields DEF OneRequest, Busy
  <2>. QED BY <1>4, <2>1, NewProcessFields DEF OneRequest, SourcesInOrder
<1>5. CASE NextJob
  <2>1. \A r \in Requests : ~Busy(r)' BY <1>5, NewProcessFields DEF OneRequest, Busy
  <2>2. \A s \in Sources : src'[s] = NewSource BY <1>5, NewProcessFields
  <2>. QED BY <1>5, <2>1, <2>2, NewProcessFields DEF OneRequest, SourcesInOrder, NewSource
<1>. QED BY <1>1, <1>2, <1>3, <1>4, <1>5

\* Every step keeps one request per source if handlers are in time.
LEMMA NextOne ==
  ASSUME "handler" \notin Slow, Inv, OneRequest, SourcesInOrder, [Next]_vars
  PROVE  OneRequest' /\ SourcesInOrder'
<1>1. ASSUME NEW s \in Sources, SourceStep(s) \/ AckTimeout(s)
      PROVE  OneRequest' /\ SourcesInOrder'
  BY <1>1, ConnectOne, SendOne, GetAckOne, SendEOFOne, AckTimeoutOne DEF SourceStep
<1>2. CASE UNCHANGED vars
  BY <1>2 DEF vars, OneRequest, SourcesInOrder, Busy, Running, Request, IsEOF
<1>. QED BY <1>1, <1>2, HandlerOne, ProcessOne DEF Next

\* A source's step touches neither process nor output, and of the handlers only
\* those that wait for nothing but their source.
LEMMA SourceQuiet ==
  ASSUME "handler" \notin Slow, Inv, OneRequest, NEW s \in Sources, SourceStep(s) \/ AckTimeout(s)
  PROVE  /\ UNCHANGED <<op, output, crashes>>
         /\ \A r \in Requests :
              /\ r[1] # s => handler'[r] = handler[r]
              /\ handler[r] # handler'[r] =>
                   handler[r] \in {"none", "acked"} /\ handler'[r] \in {"none", "wire"}
<1>1. Request(s) \in Requests /\ Request(s)[1] = s BY RequestFacts DEF Inv, Request
<1>2. handler \in [Requests -> HandlerStates] BY DEF Inv, TypeOK
<1>3. UNCHANGED <<op, output, crashes>>
  BY DEF SourceStep, Connect, Send, GetAck, SendEOF, AckTimeout
<1>4. CASE Connect(s) BY <1>3, <1>4 DEF Connect
<1>5. CASE Send(s) \/ SendEOF(s)
  <2>1. handler[Request(s)] = "none" BY <1>1, <1>5 DEF OneRequest, Busy, Send, SendEOF
  <2>2. handler' = handler \/ handler' = [handler EXCEPT ![Request(s)] = "wire"]
    BY <1>5 DEF Send, SendEOF
  <2>. QED BY <1>1, <1>2, <1>3, <2>1, <2>2
<1>6. CASE GetAck(s) BY <1>1, <1>2, <1>3, <1>6 DEF GetAck
<1>7. CASE AckTimeout(s)
  <2>1. handler' = [handler EXCEPT ![Request(s)] = IF @ = "acked" THEN "none" ELSE @]
    BY <1>7 DEF AckTimeout
  <2>. QED BY <1>1, <1>2, <1>3, <2>1
<1>. QED BY <1>4, <1>5, <1>6, <1>7 DEF SourceStep

\* Two requests under way are of different tuples.
LEMMA RequestsDiffer ==
  ASSUME Inv, OneRequest, NEW r \in Requests, NEW q \in Requests, Busy(r), Busy(q),
         Tuple(r) = Tuple(q)
  PROVE  r = q
BY DEF OneRequest, Tuple

\* An EOF marker is in nobody's memory.
LEMMA EOFIsNoTuple == ASSUME NEW r \in Requests, IsEOF(r) PROVE Tuple(r) \notin Tuples
BY SizeAssumption DEF IsEOF, Tuple, Tuples, EOFLine, Requests

\* The record after the steps that neither process a tuple nor count an EOF.
LEMMA CheckFields ==
  ASSUME Inv, NEW r \in Requests, Check(r) \/ Checkpoint(r) \/ MarkAndAck(r)
  PROVE  /\ op'.counts = op.counts /\ op'.flushed = op.flushed /\ output' = output
         /\ op'.eofCount = op.eofCount /\ op'.eofBroadcast = op.eofBroadcast
         /\ op'.shutdown = op.shutdown
         /\ Check(r) => /\ op' = op /\ handler'[r] \in {"none", "acked", "checked"}
                        /\ handler'[r] = "checked" => Tuple(r) \notin op.processedIDs
         /\ Checkpoint(r) => op' = op /\ handler[r] = "processed" /\ handler'[r] = "saved"
         /\ MarkAndAck(r) => /\ op'.processedIDs = op.processedIDs \cup {Tuple(r)}
                             /\ handler[r] = "saved" /\ handler'[r] \in {"none", "acked"}
<1>1. op \in Processes /\ handler \in [Requests -> HandlerStates] BY DEF Inv, TypeOK
<1>2. CASE Check(r)
  <2>1. handler'[r] = IF Tuple(r) \in op.processedIDs THEN Acknowledged(r) ELSE "checked"
    BY <1>1, <1>2 DEF Check
  <2>2. UNCHANGED <<op, output>> /\ handler[r] = "wire" BY <1>2 DEF Check
  <2>. QED BY <1>2, <2>1, <2>2, AcknowledgedType DEF Checkpoint, MarkAndAck
<1>3. CASE Checkpoint(r)
  <2>1. UNCHANGED <<op, output>> /\ handler[r] = "processed" /\ handler'[r] = "saved"
    BY <1>1, <1>3 DEF Checkpoint
  <2>. QED BY <1>3, <2>1 DEF Check, MarkAndAck
<1>4. CASE MarkAndAck(r)
  <2>1. handler'[r] = Acknowledged(r) /\ handler[r] = "saved" /\ UNCHANGED output
    BY <1>1, <1>4 DEF MarkAndAck
  <2>2. op' = [op EXCEPT !.processedIDs = @ \cup {Tuple(r)}] BY <1>4 DEF MarkAndAck
  <2>. QED BY <1>1, <1>4, <2>1, <2>2, AcknowledgedType DEF Check, Checkpoint, Processes
<1>. QED BY <1>2, <1>3, <1>4

\* What has been run on stays so as long as the process lives.
LEMMA RanOnStays ==
  ASSUME Inv, OneRequest, NEW r \in Requests, HandlerStep(r), NEW t \in Tuples
  PROVE  /\ RanOn(t) => RanOn(t)'
         /\ Process(r) /\ t = Tuple(r) => RanOn(t)'
         /\ ~Process(r) => (RanOn(t)' => RanOn(t))
         /\ Process(r) /\ t # Tuple(r) => (RanOn(t)' => RanOn(t))
         /\ op.processedIDs \subseteq op'.processedIDs
<1>0. handler \in [Requests -> HandlerStates] BY DEF Inv, TypeOK
<1>1. CASE Process(r)
  <2>1. handler'[r] = "processed" /\ handler[r] = "checked" BY <1>0, <1>1 DEF Process
  <2>. QED BY <1>1, <2>1, HandlerEffect, ProcessFields DEF RanOn
<1>2. CASE ProcessEOF(r)
  <2>1. handler'[r] = "none" /\ handler[r] = "checked" /\ ~Process(r)
    BY <1>0, <1>2 DEF ProcessEOF, Process
  <2>. QED BY <2>1, <1>2, HandlerEffect, ProcessEOFFields DEF RanOn
<1>3. CASE Check(r)
  <2>1. handler[r] = "wire" /\ ~Process(r) BY <1>3 DEF Check, Process
  <2>. QED BY <2>1, <1>3, HandlerEffect, CheckFields DEF RanOn
<1>4. CASE Checkpoint(r)
  <2>1. ~Process(r) BY <1>4 DEF Checkpoint, Process
  <2>. QED BY <2>1, <1>4, HandlerEffect, CheckFields DEF RanOn
<1>5. CASE MarkAndAck(r)
  <2>1. ~Process(r) BY <1>5 DEF MarkAndAck, Process
  <2>. QED BY <2>1, <1>5, HandlerEffect, CheckFields DEF RanOn
<1>. QED BY <1>1, <1>2, <1>3, <1>4, <1>5 DEF HandlerStep

\* A tuple that is about to be processed has not been before.
LEMMA CheckedHasNotRun ==
  ASSUME Inv, OneRequest, CheckedIsNew, NEW r \in Requests, handler[r] = "checked"
  PROVE  ~RanOn(Tuple(r))
<1>1. Tuple(r) \notin op.processedIDs BY DEF CheckedIsNew
<1>2. \A q \in Requests : Tuple(q) = Tuple(r) /\ Busy(q) => q = r
  BY RequestsDiffer DEF Busy
<1>. QED BY <1>1, <1>2 DEF RanOn, Busy

\* What NoDoubleCount rests on.
Once == CheckedIsNew /\ CountedOnce /\ WrittenOnce

\* A source's step makes no handler check, process or save.
LEMMA SourceOnce ==
  ASSUME "handler" \notin Slow, Inv, OneRequest, Once, NEW s \in Sources,
         SourceStep(s) \/ AckTimeout(s)
  PROVE  Once'
<1>1. \A r \in Requests, pc \in {"checked", "processed", "saved"} :
        handler'[r] = pc <=> handler[r] = pc
  BY SourceQuiet
<1>2. op' = op /\ output' = output BY SourceQuiet
<1>3. \A t : RanOn(t)' <=> RanOn(t) BY <1>1, <1>2 DEF RanOn, Tuple
<1>4. CheckedIsNew' BY <1>1, <1>2 DEF Once, CheckedIsNew, Tuple
<1>. QED BY <1>2, <1>3, <1>4 DEF Once, CountedOnce, WrittenOnce, Running

\* ProcessTuple counts or writes a tuple for the first time in this life.
LEMMA ProcessOnce ==
  ASSUME Inv, OneRequest, Once, NEW r \in Requests, Process(r)
  PROVE  Once'
<1>0. HandlerStep(r) /\ Tuple(r) \in Tuples BY RequestFacts DEF HandlerStep, Inv, Process
<1>1. handler[r] = "checked" /\ handler'[r] = "processed" BY DEF Process, Inv, TypeOK
<1>2. ~RanOn(Tuple(r)) BY <1>1, CheckedHasNotRun DEF Once
<1>3. Running /\ Running' BY <1>0, HandlerEffect DEF Running
<1>4. CheckedIsNew'
  BY <1>0, <1>1, HandlerEffect, ProcessFields DEF Once, CheckedIsNew, Tuple
<1>5. op.counts \in [Tuples -> Nat] /\ output \in [Tuples -> Nat] BY DEF Inv, TypeOK, Processes
<1>6. ASSUME NEW t \in Tuples
      PROVE  /\ op'.counts[t] <= 1 /\ (op'.counts[t] > 0 => RanOn(t)')
             /\ Op = "pass" => op'.counts[t] = 0
             /\ IsSink => /\ output'[t] <= 1
                          /\ Op = "pass" /\ output'[t] > 0 => RanOn(t)'
                          /\ Op = "count" /\ ~op'.flushed => output'[t] = 0
  <2>1. CASE t = Tuple(r)
    <3>1. op.counts[t] = 0 /\ (IsSink /\ Op = "pass" => output[t] = 0)
      BY <1>2, <1>3, <1>5, <2>1 DEF Once, CountedOnce, WrittenOnce
    <3>2. RanOn(t)' BY <1>0, <2>1, RanOnStays
    <3>. QED BY <1>5, <2>1, <3>1, <3>2, ProcessFields, ModeAssumption DEF Once, CountedOnce, WrittenOnce
  <2>2. CASE t # Tuple(r)
    <3>1. op'.counts[t] = op.counts[t] /\ output'[t] = output[t] /\ op'.flushed = op.flushed
      BY <2>2, ProcessFields
    <3>2. RanOn(t) => RanOn(t)' BY <1>0, RanOnStays
    <3>. QED BY <1>3, <3>1, <3>2 DEF Once, CountedOnce, WrittenOnce
  <2>. QED BY <2>1, <2>2
<1>. QED BY <1>4, <1>6 DEF Once, CountedOnce, WrittenOnce

\* The flush at the first EOF writes each count, which is at most 1.
LEMMA ProcessEOFOnce ==
  ASSUME Inv, OneRequest, Once, NEW r \in Requests, ProcessEOF(r)
  PROVE  Once'
<1>0. HandlerStep(r) BY DEF HandlerStep
<1>1. handler[r] = "checked" /\ handler'[r] = "none" /\ ~Process(r)
  BY DEF ProcessEOF, Process, Inv, TypeOK
<1>2. Running /\ Running' BY <1>0, HandlerEffect DEF Running
<1>3. CheckedIsNew' BY <1>0, <1>1, HandlerEffect, ProcessEOFFields DEF Once, CheckedIsNew, Tuple
<1>4. \A t \in Tuples : RanOn(t) => RanOn(t)' BY <1>0, RanOnStays
<1>5. CountedOnce' BY <1>2, <1>4, ProcessEOFFields DEF Once, CountedOnce
<1>6. op.counts \in [Tuples -> Nat] /\ output \in [Tuples -> Nat] BY DEF Inv, TypeOK, Processes
<1>7. \A t \in Tuples :
        \/ output'[t] = output[t]
        \/ Op = "count" /\ ~op.flushed /\ output'[t] = output[t] + op.counts[t]
  BY DEF ProcessEOF
<1>8. WrittenOnce'
  <2>1. op'.flushed BY ProcessEOFFields
  <2>2. ASSUME IsSink, NEW t \in Tuples
        PROVE  output'[t] <= 1 /\ (Op = "pass" /\ output'[t] > 0 => RanOn(t)')
    BY <1>2, <1>4, <1>6, <1>7, <2>2 DEF Once, CountedOnce, WrittenOnce
  <2>. QED BY <2>1, <2>2 DEF WrittenOnce
<1>. QED BY <1>3, <1>5, <1>8 DEF Once

\* Check, checkpoint and mark change neither counts nor output.
LEMMA CheckOnce ==
  ASSUME Inv, OneRequest, Once, NEW r \in Requests, Check(r) \/ Checkpoint(r) \/ MarkAndAck(r)
  PROVE  Once'
<1>0. HandlerStep(r) BY DEF HandlerStep
<1>1. Running /\ Running' BY <1>0, HandlerEffect DEF Running
<1>2. \A t \in Tuples : RanOn(t) => RanOn(t)' BY <1>0, RanOnStays
<1>3. CheckedIsNew'
  <2>1. SUFFICES ASSUME NEW q \in Requests, handler'[q] = "checked"
                 PROVE  Tuple(q) \notin op'.processedIDs
    BY DEF CheckedIsNew, Tuple
  <2>2. CASE q = r BY <2>1, <2>2, CheckFields
  <2>3. CASE q # r
    <3>1. handler[q] = "checked" BY <1>0, <2>1, <2>3, HandlerEffect
    <3>2. Tuple(q) # Tuple(r) BY <1>0, <2>3, <3>1, HandlerEffect, RequestsDiffer DEF Busy
    <3>3. op'.processedIDs \subseteq op.processedIDs \cup {Tuple(r)} BY CheckFields
    <3>. QED BY <3>1, <3>2, <3>3 DEF Once, CheckedIsNew
  <2>. QED BY <2>2, <2>3
<1>. QED BY <1>1, <1>2, <1>3, CheckFields DEF Once, CountedOnce, WrittenOnce

\* A new process starts with nothing counted, and a sink with an empty output.
LEMMA OtherOnce ==
  ASSUME Inv, OneRequest, Once,
         Drain \/ Flush \/ EOFTimeout \/ Stop \/ Exit \/ Crash \/ Restart \/ NextJob
  PROVE  Once'
<1>1. CASE Drain \/ Flush
  BY <1>1 DEF Drain, Flush, Once, CheckedIsNew, CountedOnce, WrittenOnce, RanOn, Running, Tuple
<1>2. CASE EOFTimeout \/ Stop
  <2>1. \A t \in Tuples : RanOn(t) => RanOn(t)' BY <1>2, FlagFields DEF RanOn, Tuple
  <2>. QED BY <1>2, <2>1, FlagFields DEF Once, CheckedIsNew, CountedOnce, WrittenOnce, Tuple
<1>3. CASE Exit \/ Crash
  <2>1. ~Running' /\ output' = output BY <1>3, GoneFields DEF Exit, Crash, Running
  <2>. QED BY <1>3, <2>1, GoneFields DEF Exit, Crash, Once, CheckedIsNew, CountedOnce, WrittenOnce
<1>4. CASE Restart \/ NextJob
  <2>1. \A r \in Requests : handler'[r] = "none" BY <1>4, NewProcessFields DEF OneRequest, Busy
  <2>2. CheckedIsNew' BY <2>1 DEF CheckedIsNew
  <2>3. \A t \in Tuples : op'.counts[t] = 0 BY <1>4, NewProcessFields
  <2>4. IsSink => \A t \in Tuples : output'[t] = 0 BY <1>4, NewProcessFields
  <2>. QED BY <2>2, <2>3, <2>4 DEF Once, CountedOnce, WrittenOnce
<1>. QED BY <1>1, <1>2, <1>3, <1>4

\* Every step keeps counts and output of a sink at 1 if handlers are in time.
LEMMA NextOnce ==
  ASSUME "handler" \notin Slow, Inv, OneRequest, Once, [Next]_vars
  PROVE  Once'
<1>1. CASE UNCHANGED vars
  BY <1>1 DEF vars, Once, CheckedIsNew, CountedOnce, WrittenOnce, RanOn, Running, Tuple
<1>2. ASSUME NEW r \in Requests, HandlerStep(r) PROVE Once'
  BY <1>2, ProcessOnce, ProcessEOFOnce, CheckOnce DEF HandlerStep
<1>. QED BY <1>1, <1>2, SourceOnce, OtherOnce DEF Next

\* Nothing is under way, counted or written at first.
LEMMA InitOnce == Init => OneRequest /\ SourcesInOrder /\ Once
<1>. SUFFICES ASSUME Init PROVE OneRequest /\ SourcesInOrder /\ Once OBVIOUS
<1>1. \A r \in Requests : handler[r] = "none" BY DEF Init
<1>2. \A s \in Sources : src[s] = NewSource BY DEF Init
<1>3. \A t \in Tuples : op.counts[t] = 0 /\ output[t] = 0 BY DEF Init, NewProcess
<1>. QED BY <1>1, <1>2, <1>3
         DEF OneRequest, Busy, SourcesInOrder, NewSource, Once, CheckedIsNew, CountedOnce, WrittenOnce

\* Between two starts of the process no tuple is counted twice, nor written twice
\* at a sink, however late acks are, whatever crashes come between and however
\* often a source retries, as long as a handler answers before its source gives up.
THEOREM CountsOnce ==
  ASSUME "handler" \notin Slow PROVE Spec => []NoDoubleCount
<1>. DEFINE I == Inv /\ OneRequest /\ SourcesInOrder /\ Once
<1>1. Init => I BY InitInv, InitOnce
<1>2. I /\ [Next]_vars => I' BY NextInv, NextOne, NextOnce
<1>3. I => NoDoubleCount BY DEF Once, CountedOnce, WrittenOnce, NoDoubleCount
<1>. QED BY <1>1, <1>2, <1>3, PTL DEF Spec

----------------------------------------------------------------------------
\* Steps that leave the EOF count and the flags alone keep what is known of the end.
LEMMA EndedGrows ==
  ASSUME EndKnown, Ended \subseteq Ended',
         op.eofCount \in Nat, op'.eofCount = op.eofCount,
         op'.eofBroadcast = op.eofBroadcast, op'.shutdown = op.shutdown,
         op'.status = "stopping" => op.status = "stopping"
  PROVE  EndKnown'
<1>1. Ended' \subseteq Sources BY DEF Ended
<1>2. IsFiniteSet(Ended') BY <1>1, FS_Subset, SizeAssumption
<1>3. /\ Cardinality(Ended) <= Cardinality(Ended')
      /\ Cardinality(Ended) \in Nat /\ Cardinality(Ended') \in Nat
  BY <1>2, FS_Subset, FS_CardinalityType
<1>. QED BY <1>1, <1>3 DEF EndKnown

\* A source's step is one of a source that has not ended.
LEMMA SourceEnd ==
  ASSUME "handler" \notin Slow, Inv, OneRequest, EndKnown, NEW s \in Sources,
         SourceStep(s) \/ AckTimeout(s)
  PROVE  EndKnown'
<1>1. s \notin Ended BY DEF SourceStep, Connect, Send, GetAck, SendEOF, AckTimeout, Ended
<1>2. \A u \in Sources \ {s} : src'[u] = src[u]
  BY DEF SourceStep, Connect, Send, GetAck, SendEOF, AckTimeout, SetSrc, FailAttempt, Inv, TypeOK
<1>3. Ended \subseteq Ended' BY <1>1, <1>2, SourceQuiet DEF Ended
<1>4. op.eofCount \in Nat BY DEF Inv, TypeOK, Processes
<1>. QED BY <1>3, <1>4, SourceQuiet, EndedGrows

\* An EOF is counted for a source that was not among the ended before.
LEMMA ProcessEOFEnd ==
  ASSUME Inv, OneRequest, EndKnown, NEW r \in Requests, ProcessEOF(r)
  PROVE  EndKnown'
<1>0. HandlerStep(r) BY DEF HandlerStep
<1>1. r[1] \in Sources /\ IsEOF(r) /\ handler[r] = "checked" /\ handler'[r] = "none"
  BY RequestFacts DEF ProcessEOF, Inv, TypeOK
<1>2. src[r[1]].phase = "done" BY <1>1 DEF OneRequest, Busy
<1>3. \A q \in Requests : q[1] = r[1] => handler'[q] = "none"
  BY <1>0, <1>1, HandlerEffect DEF OneRequest, Busy
<1>4. r[1] \notin Ended BY <1>1 DEF Ended
<1>5. r[1] \in Ended' BY <1>0, <1>1, <1>2, <1>3, HandlerEffect DEF Ended
<1>6. Ended \subseteq Ended' BY <1>0, <1>1, HandlerEffect DEF Ended
<1>7. Ended' \subseteq Sources /\ Ended \subseteq Sources BY DEF Ended
<1>8. IsFiniteSet(Ended) /\ IsFiniteSet(Ended') BY <1>7, FS_Subset, SizeAssumption
<1>9. Cardinality(Ended \cup {r[1]}) = Cardinality(Ended) + 1 BY <1>4, <1>8, FS_AddElement
<1>10. Cardinality(Ended \cup {r[1]}) <= Cardinality(Ended')
  BY <1>5, <1>6, <1>8, FS_Subset
<1>11. /\ Cardinality(Ended') <= NumSources
       /\ Cardinality(Ended') = NumSources => Ended' = Sources
  BY <1>7, FS_Subset, SizeAssumption DEF NumSources
<1>12. /\ Cardinality(Ended) \in Nat /\ Cardinality(Ended') \in Nat /\ NumSources \in Nat
       /\ op.eofCount \in Nat
  BY <1>8, FS_CardinalityType, SizeAssumption DEF NumSources, Inv, TypeOK, Processes
<1>13. op'.eofCount = op.eofCount + 1 BY ProcessEOFFields
<1>14. op'.eofCount <= Cardinality(Ended') BY <1>9, <1>10, <1>12, <1>13 DEF EndKnown
<1>15. op'.eofCount >= NumSources => Ended' = Sources BY <1>11, <1>12, <1>13, <1>14
<1>16. Ended = Sources => Ended' = Sources BY <1>6, <1>7
<1>17. op'.eofBroadcast \/ op'.shutdown => Ended' = Sources
  BY <1>15, <1>16, ProcessEOFFields DEF EndKnown
<1>18. op'.status = "stopping" => op'.shutdown BY ProcessEOFFields DEF EndKnown
<1>. QED BY <1>14, <1>17, <1>18 DEF EndKnown

\* The other steps of a handler count no EOF.
LEMMA HandlerEnd ==
  ASSUME Inv, OneRequest, EndKnown, NEW r \in Requests, HandlerStep(r)
  PROVE  EndKnown'
<1>1. Ended \subseteq Ended' BY HandlerEffect DEF Ended
<1>2. op.eofCount \in Nat BY DEF Inv, TypeOK, Processes
<1>3. CASE Process(r) BY <1>1, <1>2, <1>3, ProcessFields, EndedGrows
<1>4. CASE Check(r) \/ Checkpoint(r) \/ MarkAndAck(r)
  BY <1>1, <1>2, <1>4, CheckFields, HandlerEffect, EndedGrows
<1>. QED BY <1>3, <1>4, ProcessEOFEnd DEF HandlerStep

\* The EOF timeout acts only after every source has ended if sources are in time;
\* a new process has counted nothing.
LEMMA OtherEnd ==
  ASSUME "source" \notin Slow, Inv, OneRequest, EndKnown,
         Drain \/ Flush \/ EOFTimeout \/ Stop \/ Exit \/ Crash \/ Restart \/ NextJob
  PROVE  EndKnown'
<1>0. op.eofCount \in Nat /\ op \in Processes BY DEF Inv, TypeOK, Processes
<1>1. CASE Drain \/ Flush BY <1>1 DEF Drain, Flush, EndKnown, Ended
<1>2. CASE EOFTimeout
  <2>1. \A s \in Sources : src[s].phase = "done" BY <1>2 DEF EOFTimeout
  <2>2. \A r \in Requests : handler[r] = "none"
    BY <1>2, <2>1, RequestFacts DEF EOFTimeout, OneRequest, Busy, Inv
  <2>3. Ended = Sources BY <2>1, <2>2 DEF Ended
  <2>4. Ended' = Ended BY <1>2, FlagFields DEF Ended
  <2>5. op.status = "stopping" => op'.shutdown BY <1>0, <1>2 DEF EOFTimeout, EndKnown, Processes
  <2>. QED BY <1>2, <2>3, <2>4, <2>5, FlagFields DEF EndKnown
<1>3. CASE Stop
  <2>1. Ended' = Ended BY <1>3, FlagFields DEF Ended
  <2>. QED BY <1>3, <2>1, FlagFields DEF EndKnown
<1>4. CASE Exit \/ Crash
  <2>1. PICK status \in {"down", "done"} : Gone(status) BY <1>4 DEF Exit, Crash
  <2>2. Ended \subseteq Ended' BY <2>1, GoneFields DEF Ended
  <2>3. op'.status # "stopping" BY <2>1, GoneFields
  <2>. QED BY <1>0, <2>1, <2>2, <2>3, GoneFields, EndedGrows
<1>5. CASE Restart \/ NextJob
  <2>1. Ended' \subseteq Sources BY DEF Ended
  <2>2. Cardinality(Ended') \in Nat BY <2>1, FS_Subset, FS_CardinalityType, SizeAssumption
  <2>3. op'.eofCount = 0 /\ ~op'.eofBroadcast /\ ~op'.shutdown /\ op'.status = "up"
    BY <1>5, NewProcessFields
  <2>. QED BY <2>2, <2>3 DEF EndKnown
<1>. QED BY <1>1, <1>2, <1>3, <1>4, <1>5

\* No EOF is known at first.
LEMMA InitEnd == Init => EndKnown
<1>. SUFFICES ASSUME Init PROVE EndKnown OBVIOUS
<1>1. Ended \subseteq Sources BY DEF Ended
<1>2. Cardinality(Ended) \in Nat BY <1>1, FS_Subset, FS_CardinalityType, SizeAssumption
<1>3. op.eofCount = 0 /\ ~op.eofBroadcast /\ ~op.shutdown /\ op.status = "up"
  BY DEF Init, NewProcess
<1>. QED BY <1>2, <1>3 DEF EndKnown

\* Every step keeps the end known if handlers and sources are in time.
LEMMA NextEnd ==
  ASSUME "handler" \notin Slow, "source" \notin Slow, Inv, OneRequest, EndKnown, [Next]_vars
  PROVE  EndKnown'
<1>1. CASE UNCHANGED vars BY <1>1 DEF vars, EndKnown, Ended
<1>. QED BY <1>1, SourceEnd, HandlerEnd, OtherEnd DEF Next

\* With EOF passed on there is no handler left that could write.
LEMMA SilentStep ==
  ASSUME "handler" \notin Slow, Inv, OneRequest, EndKnown, [Next]_vars,
         op.eofBroadcast, op'.eofBroadcast
  PROVE  output' = output
<1>1. \A r \in Requests : handler[r] = "none"
  BY RequestFacts DEF EndKnown, Ended, Inv
<1>2. ASSUME NEW r \in Requests, HandlerStep(r) PROVE FALSE
  BY <1>1, <1>2, HandlerEffect
<1>3. ~(Restart \/ NextJob) BY NewProcessFields
<1>4. CASE Drain \/ Flush \/ Stop \/ EOFTimeout \/ Exit \/ Crash
  BY <1>4 DEF Drain, Flush, Stop, EOFTimeout, Exit, Crash
<1>5. CASE UNCHANGED vars BY <1>5 DEF vars
<1>. QED BY <1>2, <1>3, <1>4, <1>5, SourceQuiet DEF Next

\* A stage emits nothing after the EOF it passes on, for any number of sources,
\* if handlers answer in time and no source is silent for the whole EOF timeout.
THEOREM EOFLast ==
  ASSUME "handler" \notin Slow, "source" \notin Slow PROVE Spec => NothingAfterEOF
<1>. DEFINE I == Inv /\ OneRequest /\ SourcesInOrder /\ EndKnown
<1>1. Init => I BY InitInv, InitOnce, InitEnd
<1>2. I /\ [Next]_vars => I' BY NextInv, NextOne, NextEnd
<1>3. I /\ [Next]_vars => [op.eofBroadcast /\ op'.eofBroadcast => output' = output]_vars
  BY SilentStep
<1>. QED BY <1>1, <1>2, <1>3, PTL DEF Spec, NothingAfterEOF

----------------------------------------------------------------------------
\* A source that has ended in the first life has had every tuple remembered.
LEMMA EndedIsProcessed ==
  ASSUME Inv, SourcesInOrder, FirstLife, crashes = 0, Ended = Sources, NEW t \in Tuples
  PROVE  t \in op.processedIDs
<1>1. PICK s \in Sources, l \in 1..Lines : t = <<s, l>> BY DEF Tuples
<1>2. src[s].line = EOFLine BY DEF Ended, SourcesInOrder
<1>3. l \in 1..(src[s].line - 1) BY <1>2, SizeAssumption DEF EOFLine
<1>. QED BY <1>1, <1>3 DEF FirstLife

\* A source advances only after an ack, whose tuple is remembered: it never gives
\* a line up while the process is up.
LEMMA SourceFirst ==
  ASSUME "handler" \notin Slow, Inv, OneRequest, SourcesInOrder, AcksAreFresh, EndKnown, FirstLife,
         NEW s \in Sources, SourceStep(s) \/ AckTimeout(s), crashes = 0
  PROVE  FirstLife'
<1>0. src \in [Sources -> SourceStates] BY DEF Inv, TypeOK
<1>1. src[s].line \in Nat BY <1>0, SizeAssumption DEF SourceStates, EOFLine
<1>2. src[s].phase # "done" BY DEF SourceStep, Connect, Send, GetAck, SendEOF, AckTimeout
<1>3. op.status = "up" /\ src[s].conn # "broken"
  <2>1. Ended # Sources BY <1>2 DEF Ended
  <2>2. ~op.shutdown BY <2>1 DEF EndKnown
  <2>. QED BY <2>2 DEF FirstLife
<1>4. UNCHANGED <<op, output, crashes>> BY SourceQuiet
<1>5. \A t : RanOn(t)' <=> RanOn(t) BY <1>4, SourceQuiet DEF RanOn, Tuple
<1>6. \A u \in Sources \ {s} : src'[u] = src[u]
  BY <1>0 DEF SourceStep, Connect, Send, GetAck, SendEOF, AckTimeout, SetSrc, FailAttempt
<1>7. /\ src'[s].conn # "broken"
      /\ \/ src'[s].line = src[s].line \/ src'[s].line = 1
         \/ src'[s].line = src[s].line + 1 /\ <<s, src[s].line>> \in op.processedIDs
  <2>1. CASE Connect(s) BY <1>0, <2>1, SetSrcEffect DEF Connect
  <2>2. CASE Send(s)
    <3>1. SetSrc(s, "wait", src[s].line, src[s].try, "open")
      BY <1>0, <1>3, <2>2 DEF Send, SourceStates
    <3>. QED BY <3>1, SetSrcEffect
  <2>3. CASE GetAck(s)
    <3>1. <<s, src[s].line>> \in op.processedIDs
      BY <2>3, RequestFacts DEF GetAck, AcksAreFresh, Inv
    <3>2. SetSrc(s, "send", src[s].line + 1, 1, "open") BY <2>3 DEF GetAck
    <3>. QED BY <3>1, <3>2, SetSrcEffect
  <2>4. CASE AckTimeout(s)
    <3>1. <<s, src[s].line>> \in op.processedIDs
      BY <1>3, <2>4, RequestFacts DEF AckTimeout, AcksAreFresh, Inv
    <3>2. PICK line, try : /\ SetSrc(s, "send", line, try, "none")
                           /\ line = src[s].line \/ line = src[s].line + 1
      BY <2>4 DEF AckTimeout, FailAttempt
    <3>. QED BY <3>1, <3>2, SetSrcEffect
  <2>5. CASE SendEOF(s)
    <3>1. SetSrc(s, "done", EOFLine, 1, src[s].conn) /\ src[s].line = EOFLine BY <2>5 DEF SendEOF
    <3>. QED BY <1>3, <3>1, SetSrcEffect
  <2>. QED BY <2>1, <2>2, <2>3, <2>4, <2>5 DEF SourceStep
<1>8. \A u \in Sources : src'[u].conn # "broken" \/ src[u].conn = "broken" BY <1>6, <1>7
<1>9. ASSUME NEW u \in Sources, NEW l \in 1..(src'[u].line - 1)
      PROVE  <<u, l>> \in op.processedIDs
  <2>1. CASE u # s BY <1>6, <1>9, <2>1 DEF FirstLife
  <2>2. CASE u = s /\ l \in 1..(src[s].line - 1) BY <2>2 DEF FirstLife
  <2>3. CASE u = s /\ l \notin 1..(src[s].line - 1)
    <3>1. l = src[s].line /\ <<s, src[s].line>> \in op.processedIDs BY <1>1, <1>7, <1>9, <2>3
    <3>. QED BY <2>3, <3>1
  <2>. QED BY <2>1, <2>2, <2>3
<1>. QED BY <1>4, <1>5, <1>8, <1>9 DEF FirstLife

\* ProcessTuple writes a tuple when the process runs on it, once.
LEMMA HandlerFirst ==
  ASSUME Op = "pass", Inv, OneRequest, CheckedIsNew, FirstLife, NEW r \in Requests,
         HandlerStep(r), crashes = 0
  PROVE  FirstLife'
<1>0. output \in [Tuples -> Nat] BY DEF Inv, TypeOK
<1>1. op'.status = op.status /\ src' = src BY HandlerEffect
<1>2. op.shutdown => op'.shutdown
  BY ProcessFields, ProcessEOFFields, CheckFields DEF HandlerStep
<1>3. op.processedIDs \subseteq op'.processedIDs
  BY ProcessFields, ProcessEOFFields, CheckFields DEF HandlerStep
<1>4. ASSUME NEW t \in Tuples
      PROVE  output'[t] = IF RanOn(t)' THEN 1 ELSE 0
  <2>1. CASE Process(r)
    <3>1. CASE t = Tuple(r)
      <4>1. ~RanOn(t) BY <2>1, <3>1, CheckedHasNotRun DEF Process
      <4>2. RanOn(t)' BY <2>1, <3>1, RanOnStays
      <4>3. output'[t] = output[t] + 1 BY <2>1, <3>1, ProcessFields
      <4>. QED BY <1>0, <4>1, <4>2, <4>3 DEF FirstLife
    <3>2. CASE t # Tuple(r)
      <4>1. RanOn(t)' <=> RanOn(t) BY <2>1, <3>2, RanOnStays
      <4>2. output'[t] = output[t] BY <2>1, <3>2, ProcessFields
      <4>. QED BY <4>1, <4>2 DEF FirstLife
    <3>. QED BY <3>1, <3>2
  <2>2. CASE ~Process(r)
    <3>1. RanOn(t)' <=> RanOn(t) BY <2>2, RanOnStays
    <3>2. output' = output
      BY <2>2, CheckFields DEF HandlerStep, ProcessEOF
    <3>. QED BY <3>1, <3>2 DEF FirstLife
  <2>. QED BY <2>1, <2>2
<1>. QED BY <1>1, <1>2, <1>3, <1>4 DEF FirstLife

\* The first life ends with a shutdown, when every tuple is remembered.
LEMMA OtherFirst ==
  ASSUME MaxJobs = 1, Inv, SourcesInOrder, EndKnown, FirstLife,
         Drain \/ Flush \/ EOFTimeout \/ Stop \/ Exit \/ Crash \/ Restart \/ NextJob
  PROVE  FirstLife'
<1>0. op \in Processes /\ crashes \in Nat /\ jobs \in 1..MaxJobs BY SizeAssumption DEF Inv, TypeOK
<1>. SUFFICES ASSUME crashes' = 0 PROVE FirstLife' BY DEF FirstLife
<1>1. crashes = 0 /\ ~Crash
  BY <1>0 DEF Drain, Flush, EOFTimeout, Stop, Exit, Crash, Restart, NextJob
<1>2. CASE Drain \/ Flush BY <1>1, <1>2 DEF Drain, Flush, FirstLife, RanOn, Tuple
<1>3. CASE EOFTimeout \/ Stop
  <2>1. \A t : RanOn(t)' <=> RanOn(t) BY <1>3, FlagFields DEF RanOn, Tuple
  <2>2. op'.status # "down" /\ (op'.status # "up" => op'.shutdown)
    <3>1. CASE EOFTimeout BY <1>0, <1>1, <3>1 DEF EOFTimeout, FirstLife, Processes
    <3>2. CASE Stop BY <3>2, FlagFields
    <3>. QED BY <1>3, <3>1, <3>2
  <2>3. op.status # "done" BY <1>3, FlagFields DEF Running
  <2>. QED BY <1>1, <1>3, <2>1, <2>2, <2>3, FlagFields DEF FirstLife
<1>4. CASE Exit
  <2>1. Gone("done") /\ output' = output /\ op.status = "stopping" BY <1>4 DEF Exit
  <2>2. op.shutdown /\ Ended = Sources BY <2>1 DEF EndKnown
  <2>3. \A t \in Tuples : t \in op.processedIDs BY <1>1, <2>2, EndedIsProcessed
  <2>4. op'.status = "done" /\ op'.shutdown /\ op'.processedIDs = op.processedIDs
    BY <2>1, <2>2, GoneFields
  <2>5. \A t \in Tuples : RanOn(t) /\ RanOn(t)' BY <2>3, <2>4 DEF RanOn
  <2>6. \A s \in Sources : src'[s].line = src[s].line BY <2>1, GoneFields
  <2>. QED BY <1>1, <2>1, <2>4, <2>5, <2>6 DEF FirstLife
<1>5. ~Restart BY <1>1 DEF Restart, FirstLife
<1>6. ~NextJob BY <1>0 DEF NextJob
<1>. QED BY <1>1, <1>2, <1>3, <1>4, <1>5, <1>6

\* The first process has run on nothing and written nothing.
LEMMA InitFirst == Init => FirstLife
<1>. SUFFICES ASSUME Init PROVE FirstLife OBVIOUS
<1>1. op.status = "up" /\ op.processedIDs = {} BY DEF Init, NewProcess
<1>2. \A t : ~RanOn(t) BY <1>1 DEF Init, RanOn
<1>3. \A s \in Sources : src[s].line = 1 /\ src[s].conn = "none" BY DEF Init, NewSource
<1>4. \A t \in Tuples : output[t] = 0 BY DEF Init
<1>. QED BY <1>1, <1>2, <1>3, <1>4 DEF FirstLife

\* Every step keeps the account of the first life.
LEMMA NextFirst ==
  ASSUME Op = "pass", MaxJobs = 1, "handler" \notin Slow, Inv, OneRequest, SourcesInOrder, Once,
         AcksAreFresh, EndKnown, FirstLife, [Next]_vars
  PROVE  FirstLife'
<1>1. CASE UNCHANGED vars BY <1>1 DEF vars, FirstLife, RanOn, Tuple
<1>2. ASSUME NEW s \in Sources, SourceStep(s) \/ AckTimeout(s) PROVE FirstLife'
  <2>1. crashes' = crashes BY <1>2, SourceQuiet
  <2>. QED BY <1>2, <2>1, SourceFirst DEF FirstLife
<1>3. ASSUME NEW r \in Requests, HandlerStep(r) PROVE FirstLife'
  <2>1. crashes' = crashes
    BY <1>3 DEF HandlerStep, Check, Process, ProcessEOF, Checkpoint, MarkAndAck
  <2>. QED BY <1>3, <2>1, HandlerFirst DEF FirstLife, Once
<1>. QED BY <1>1, <1>2, <1>3, OtherFirst DEF Next

\* Exactly-once output of a stateless stage: in the first job, a task that was
\* never killed and whose handlers and sources keep the code's waits has written
\* every tuple once when it exits, however late acks are and however often a
\* source retries. A second job is left out because its first process may recover
\* the log of the job before.
THEOREM ExactlyOnce ==
  ASSUME Op = "pass", MaxJobs = 1, "handler" \notin Slow, "source" \notin Slow
  PROVE  Spec => []ExactlyOnceOutput
<1>. DEFINE I == /\ Inv /\ OneRequest /\ SourcesInOrder /\ Once
                 /\ AcksAreFresh /\ EndKnown /\ FirstLife
<1>1. Init => I BY InitInv, InitOnce, InitFresh, InitEnd, InitFirst
<1>2. I /\ [Next]_vars => I' BY NextInv, NextOne, NextOnce, NextFresh, NextEnd, NextFirst
<1>3. I => ExactlyOnceOutput
  <2>. SUFFICES ASSUME I, op.status = "done", crashes = 0, NEW t \in Tuples PROVE output[t] = 1
    BY DEF ExactlyOnceOutput
  <2>1. Ended = Sources BY DEF FirstLife, EndKnown
  <2>. QED BY <2>1, EndedIsProcessed DEF FirstLife, RanOn
<1>. QED BY <1>1, <1>2, <1>3, PTL DEF Spec

=============================================================================
