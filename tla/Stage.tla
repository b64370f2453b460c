------------------------------- MODULE Stage -------------------------------
(***************************************************************************)
(* One operator task of a RainStorm job with the source tasks that feed    *)
(* it: runSourceTask (pkg/rainstorm/worker.go) sends its lines with        *)
(* stop-and-wait, StartOperation (pkg/rainstorm/api.go) deduplicates,      *)
(* processes, checkpoints and acknowledges them, counts the EOF markers    *)
(* and shuts down. The process may be killed at any step and is restarted  *)
(* under the same task id.                                                 *)
(*                                                                         *)
(* A tuple is <<source, line>>, as its ID is. Stop-and-wait keeps at most  *)
(* one unanswered tuple on a connection, so a connection is known by the   *)
(* request it carries: <<source, line, try>>. The dial to the leader that  *)
(* precedes a reconnect finds the one target there is. Emitted tuples are  *)
(* taken to reach the output file or the next stage.                       *)
(***************************************************************************)
EXTENDS Naturals, Sequences, FiniteSets

CONSTANTS
  Sources,     \* the source tasks of the job, numSources of them
  Lines,       \* tuples each source has to send
  MaxTries,    \* attempts per tuple (10 in the code)
  ChanCap,     \* capacity of stateLogChan (1000 in the code)
  FlushSize,   \* lines that make the append worker flush at once (50)
  Op,          \* "count" (ops/count) or "pass" (the operators without state)
  IsSink,      \* no targets: the last stage
  MaxCrashes,  \* bound: deaths of the operator process
  MaxJobs,     \* bound: jobs submitted one after the other
  HydfsFails,  \* may the state log be out of reach?
  Slow         \* what may take longer than the code's fixed waits

ASSUME SizeAssumption ==
  /\ IsFiniteSet(Sources) /\ Lines \in Nat /\ MaxTries \in Nat \ {0}
  /\ ChanCap \in Nat /\ FlushSize \in Nat \ {0} /\ MaxCrashes \in Nat
  /\ MaxJobs \in Nat \ {0}
ASSUME ModeAssumption ==
  /\ Op \in {"count", "pass"} /\ IsSink \in BOOLEAN /\ HydfsFails \in BOOLEAN
  \* an ack, a handler, the last source (compared with the first)
  /\ Slow \subseteq {"ack", "handler", "source"}

VARIABLES
  src,       \* the source goroutines: phase, line, try, conn
  handler,   \* where the connection handler stands with each request
  op,        \* the operator process, see NewProcess
  chan,      \* stateLogChan
  buffer,    \* what hydfsAppendWorker has taken from it
  stateLog,  \* IDs in the task's state file on HyDFS
  output,    \* how often each tuple went, or was counted, into the output
  acked,     \* history: tuples whose source has seen the ack
  applied,   \* history: tuples op.Process was ever run on
  crashes,   \* history: deaths of the process so far
  jobs       \* history: jobs submitted so far

vars ==
  <<src, handler, op, chan, buffer, stateLog, output, acked, applied, crashes, jobs>>

NumSources == Cardinality(Sources)
Tuples == Sources \X (1..Lines)
EOFLine == Lines + 1
Requests == Sources \X (1..EOFLine) \X (1..MaxTries)
Tuple(r) == <<r[1], r[2]>>
IsEOF(r) == r[2] = EOFLine
Request(s) == <<s, src[s].line, src[s].try>>

\* The state StartOperation sets up, with the IDs recovered from the log.
\* counts is CountOp's map, kept per tuple rather than per key.
NewProcess(ids) ==
  [status |-> "up", processedIDs |-> ids, counts |-> [t \in Tuples |-> 0],
   flushed |-> FALSE, eofCount |-> 0, timer |-> FALSE, eofBroadcast |-> FALSE,
   shutdown |-> FALSE]

Processes ==
  [status : {"up", "stopping", "down", "done"}, processedIDs : SUBSET Tuples,
   counts : [Tuples -> Nat], flushed : BOOLEAN, eofCount : Nat, timer : BOOLEAN,
   eofBroadcast : BOOLEAN, shutdown : BOOLEAN]

SourceStates ==
  [phase : {"connect", "send", "wait", "done"}, line : 1..EOFLine, try : 1..MaxTries,
   conn : {"none", "open", "broken"}]

HandlerStates == {"none", "wire", "checked", "processed", "saved", "acked"}

\* "up" listens, "stopping" has closed the listener, "down" was killed.
Running == op.status \in {"up", "stopping"}
----------------------------------------------------------------------------
(* The source task. *)

NewSource == [phase |-> "connect", line |-> 1, try |-> 1, conn |-> "none"]

SetSrc(s, phase, line, try, conn) ==
  src' = [src EXCEPT ![s] = [phase |-> phase, line |-> line, try |-> try, conn |-> conn]]

\* The five first dials, before the first tuple.
Connect(s) ==
  /\ src[s].phase = "connect"
  /\ SetSrc(s, "send", 1, 1, IF op.status = "up" THEN "open" ELSE "none")
  /\ UNCHANGED <<handler, op, chan, buffer, stateLog, output, acked, applied, crashes, jobs>>

\* Mutant: the retry loop has no end.
FailAttempt_NoLimit(s) == SetSrc(s, "send", src[s].line, src[s].try + 1, "none")

\* Every failed attempt closes and forgets the connection. After the last one
\* the tuple is given up ("CRITICAL") and the next line is taken.
FailAttempt(s) ==
  IF src[s].try < MaxTries
  THEN SetSrc(s, "send", src[s].line, src[s].try + 1, "none")
  ELSE SetSrc(s, "send", src[s].line + 1, 1, "none")

\* One attempt: reconnect if there is no connection, then write the tuple. A
\* connection to a dead process may take the bytes, but no ack will come.
Send(s) ==
  LET connected == src[s].conn = "open" \/ (src[s].conn = "none" /\ op.status = "up") IN
  /\ src[s].phase = "send" /\ src[s].line <= Lines
  /\ \/ /\ connected
        /\ SetSrc(s, "wait", src[s].line, src[s].try, "open")
        /\ handler' = [handler EXCEPT ![Request(s)] = "wire"]
     \/ ~connected /\ FailAttempt(s) /\ UNCHANGED handler
  /\ UNCHANGED <<op, chan, buffer, stateLog, output, acked, applied, crashes, jobs>>

GetAck(s) ==
  /\ src[s].phase = "wait" /\ src[s].conn = "open" /\ handler[Request(s)] = "acked"
  /\ SetSrc(s, "send", src[s].line + 1, 1, "open")
  /\ handler' = [handler EXCEPT ![Request(s)] = "none"]
  /\ acked' = acked \cup {<<s, src[s].line>>}
  /\ UNCHANGED <<op, chan, buffer, stateLog, output, applied, crashes, jobs>>

\* No ack within 5 seconds, or a read error because the process is gone.
AckTimeout(s) ==
  LET r == Request(s) IN
  /\ src[s].phase = "wait"
  /\ \/ src[s].conn = "broken"
     \/ "ack" \in Slow /\ handler[r] = "acked"
     \/ "handler" \in Slow /\ handler[r] # "acked"
  /\ FailAttempt(s)
  /\ handler' = [handler EXCEPT ![r] = IF @ = "acked" THEN "none" ELSE @]
  /\ UNCHANGED <<op, chan, buffer, stateLog, output, acked, applied, crashes, jobs>>

\* The EOF marker goes out once, to the connections open at that moment; the
\* task then reports its completion.
SendEOF(s) ==
  /\ src[s].phase = "send" /\ src[s].line = EOFLine
  /\ SetSrc(s, "done", EOFLine, 1, src[s].conn)
  /\ handler' = IF src[s].conn = "open"
                THEN [handler EXCEPT ![Request(s)] = "wire"] ELSE handler
  /\ UNCHANGED <<op, chan, buffer, stateLog, output, acked, applied, crashes, jobs>>
----------------------------------------------------------------------------
(* The connection handlers of the operator process, one per connection. *)

\* An ack on a connection its source has closed is lost and ends the handler.
Acknowledged(r) ==
  IF src[r[1]].phase = "wait" /\ Request(r[1]) = r THEN "acked" ELSE "none"

\* Mutants: the ID is recorded, or the ack sent, when the tuple arrives.
Check_RecordsAtOnce(r) ==
  /\ Running /\ handler[r] = "wire"
  /\ handler' = [handler EXCEPT ![r] =
                   IF Tuple(r) \in op.processedIDs THEN Acknowledged(r) ELSE "checked"]
  /\ op' = [op EXCEPT !.processedIDs = IF IsEOF(r) THEN @ ELSE @ \cup {Tuple(r)}]
  /\ UNCHANGED <<src, chan, buffer, stateLog, output, acked, applied, crashes, jobs>>

Check_AcksAtOnce(r) ==
  /\ Running /\ handler[r] = "wire"
  /\ handler' = [handler EXCEPT ![r] = Acknowledged(r)]
  /\ UNCHANGED <<src, op, chan, buffer, stateLog, output, acked, applied, crashes, jobs>>

\* Decode and deduplication check; the lock is released before the tuple is
\* processed. EOF markers are never in processedIDs.
Check(r) ==
  /\ Running /\ handler[r] = "wire"
  /\ handler' = [handler EXCEPT ![r] =
                   IF Tuple(r) \in op.processedIDs THEN Acknowledged(r) ELSE "checked"]
  /\ UNCHANGED <<src, op, chan, buffer, stateLog, output, acked, applied, crashes, jobs>>

\* op.Process on a tuple: counted in memory, or emitted. CountOpWrapper makes its
\* CountOp on the first call, without a lock; that two first calls may each make
\* one, so that counts get lost, is left out.
Process(r) ==
  /\ Running /\ handler[r] = "checked" /\ ~IsEOF(r)
  /\ handler' = [handler EXCEPT ![r] = "processed"]
  /\ \/ /\ Op = "count"
        /\ op' = [op EXCEPT !.counts[Tuple(r)] = @ + 1]
        /\ UNCHANGED output
     \/ /\ Op = "pass"
        /\ output' = [output EXCEPT ![Tuple(r)] = @ + 1]
        /\ UNCHANGED op
  /\ applied' = applied \cup {Tuple(r)}
  /\ UNCHANGED <<src, chan, buffer, stateLog, acked, crashes, jobs>>

\* Mutants: EOF is passed on at the first marker; the task shuts down one
\* marker early; it waits for one too many.
CountEOF_First(p) ==
  LET n == p.eofCount + 1 IN
  [p EXCEPT !.eofCount = n, !.shutdown = @ \/ n >= NumSources,
            !.eofBroadcast = @ \/ ~IsSink]

CountEOF_OneShort(p) ==
  LET n == p.eofCount + 1 IN
  [p EXCEPT !.eofCount = n, !.shutdown = @ \/ n + 1 >= NumSources]

CountEOF_Strict(p) ==
  LET n == p.eofCount + 1 IN
  [p EXCEPT !.eofCount = n,
            !.shutdown = @ \/ n > NumSources,
            !.eofBroadcast = @ \/ (~IsSink /\ n > NumSources),
            !.timer = @ \/ (~IsSink /\ n = 1 /\ n < NumSources)]

\* What emit does with one more EOF marker.
CountEOF(p) ==
  LET n == p.eofCount + 1 IN
  [p EXCEPT !.eofCount = n,
            !.shutdown = @ \/ n >= NumSources,
            !.eofBroadcast = @ \/ (~IsSink /\ n >= NumSources),
            !.timer = @ \/ (~IsSink /\ n = 1 /\ n < NumSources)]

\* op.Process on an EOF marker: count flushes at the first one. The ack that
\* follows is never read.
ProcessEOF(r) ==
  /\ Running /\ handler[r] = "checked" /\ IsEOF(r)
  /\ handler' = [handler EXCEPT ![r] = "none"]
  /\ op' = CountEOF([op EXCEPT !.flushed = TRUE])
  /\ output' = IF Op = "count" /\ ~op.flushed
               THEN [t \in Tuples |-> output[t] + op.counts[t]] ELSE output
  /\ UNCHANGED <<src, chan, buffer, stateLog, acked, applied, crashes, jobs>>

\* An append to the state log; nothing is reported back if it fails.
AppendLog(ids) ==
  \/ stateLog' = stateLog \cup ids
  \/ HydfsFails /\ UNCHANGED stateLog

\* Queue the ID; with the channel full, append it from the handler; while
\* shutting down, neither.
Checkpoint(r) ==
  /\ Running /\ handler[r] = "processed"
  /\ handler' = [handler EXCEPT ![r] = "saved"]
  /\ \/ /\ op.status = "up" /\ Len(chan) < ChanCap
        /\ chan' = Append(chan, Tuple(r))
        /\ UNCHANGED stateLog
     \/ op.status = "up" /\ Len(chan) >= ChanCap /\ AppendLog({Tuple(r)}) /\ UNCHANGED chan
     \/ op.status = "stopping" /\ UNCHANGED <<chan, stateLog>>
  /\ UNCHANGED <<src, op, buffer, output, acked, applied, crashes, jobs>>

\* Mutant: the ID is not entered.
MarkAndAck_Forgets(r) ==
  /\ Running /\ handler[r] = "saved"
  /\ handler' = [handler EXCEPT ![r] = Acknowledged(r)]
  /\ UNCHANGED <<src, op, chan, buffer, stateLog, output, acked, applied, crashes, jobs>>

\* Enter the ID into processedIDs, whether shutting down or not, and acknowledge.
MarkAndAck(r) ==
  /\ Running /\ handler[r] = "saved"
  /\ op' = [op EXCEPT !.processedIDs = @ \cup {Tuple(r)}]
  /\ handler' = [handler EXCEPT ![r] = Acknowledged(r)]
  /\ UNCHANGED <<src, chan, buffer, stateLog, output, acked, applied, crashes, jobs>>
----------------------------------------------------------------------------
(* The other goroutines of the process. *)

\* hydfsAppendWorker on the state log: it takes IDs from the channel and
\* flushes at every tick, or at once when the buffer is full.
Drain ==
  /\ Running /\ chan # <<>> /\ Cardinality(buffer) < FlushSize
  /\ chan' = Tail(chan)
  /\ buffer' = buffer \cup {Head(chan)}
  /\ UNCHANGED <<src, handler, op, stateLog, output, acked, applied, crashes, jobs>>

Flush ==
  /\ Running /\ buffer # {}
  /\ AppendLog(buffer)
  /\ buffer' = {}
  /\ UNCHANGED <<src, handler, op, chan, output, acked, applied, crashes, jobs>>

\* The goroutine started at the first EOF of a middle stage, after 5 seconds.
EOFTimeout ==
  /\ Running /\ op.timer
  /\ "source" \in Slow \/ \A s \in Sources : src[s].phase = "done"
  /\ "source" \in Slow \/ \A r \in Requests : IsEOF(r) => handler[r] = "none"
  /\ op' = IF op.eofCount > 0 /\ op.eofCount < NumSources
           THEN [op EXCEPT !.timer = FALSE, !.eofBroadcast = TRUE, !.shutdown = TRUE]
           ELSE [op EXCEPT !.timer = FALSE]
  /\ UNCHANGED <<src, handler, chan, buffer, stateLog, output, acked, applied, crashes, jobs>>

\* The main goroutine: first the flag and the listener, then half a second for
\* the handlers, one last flush of the buffer (not of the channel) and the end.
Stop ==
  /\ op.status = "up" /\ op.shutdown
  /\ op' = [op EXCEPT !.status = "stopping"]
  /\ UNCHANGED <<src, handler, chan, buffer, stateLog, output, acked, applied, crashes, jobs>>

Gone(status) ==
  /\ op' = [op EXCEPT !.status = status]
  /\ src' = [s \in Sources |-> IF src[s].conn = "open" THEN [src[s] EXCEPT !.conn = "broken"]
                               ELSE src[s]]
  /\ handler' = [r \in Requests |-> "none"]
  /\ chan' = <<>>
  /\ buffer' = {}

Exit ==
  /\ op.status = "stopping"
  /\ "handler" \in Slow \/ \A r \in Requests : handler[r] \in {"none", "acked"}
  /\ Gone("done")
  /\ AppendLog(buffer)
  /\ UNCHANGED <<output, acked, applied, crashes, jobs>>

\* kill_task or the loss of the worker's process.
Crash ==
  /\ Running /\ crashes < MaxCrashes
  /\ Gone("down")
  /\ crashes' = crashes + 1
  /\ UNCHANGED <<stateLog, output, acked, applied, jobs>>

\* A process starts with the IDs in the log of its task id, if it can be read.
Recover ==
  \/ op' = NewProcess(stateLog)
  \/ HydfsFails /\ op' = NewProcess({})

\* The leader has the task started again. A sink truncates its output file.
Restart ==
  /\ op.status = "down"
  /\ Recover
  /\ output' = IF IsSink THEN [t \in Tuples |-> 0] ELSE output
  /\ UNCHANGED <<src, handler, chan, buffer, stateLog, acked, applied, crashes, jobs>>

\* The next job: new processes and a new output, but task ids, hence the log's
\* name, and tuple IDs do not tell jobs apart.
NextJob ==
  /\ op.status = "done" /\ \A s \in Sources : src[s].phase = "done"
  /\ jobs < MaxJobs
  /\ jobs' = jobs + 1
  /\ Recover
  /\ src' = [s \in Sources |-> NewSource]
  /\ output' = [t \in Tuples |-> 0]
  /\ acked' = {}
  /\ UNCHANGED <<handler, chan, buffer, stateLog, applied, crashes>>
----------------------------------------------------------------------------
Init ==
  /\ src = [s \in Sources |-> NewSource]
  /\ handler = [r \in Requests |-> "none"]
  /\ op = NewProcess({})
  /\ chan = <<>>
  /\ buffer = {}
  /\ stateLog = {}
  /\ output = [t \in Tuples |-> 0]
  /\ acked = {}
  /\ applied = {}
  /\ crashes = 0
  /\ jobs = 1

SourceStep(s) == Connect(s) \/ Send(s) \/ GetAck(s) \/ SendEOF(s)

HandlerStep(r) ==
  Check(r) \/ Process(r) \/ ProcessEOF(r) \/ Checkpoint(r) \/ MarkAndAck(r)

Next ==
  \/ \E s \in Sources : SourceStep(s) \/ AckTimeout(s)
  \/ \E r \in Requests : HandlerStep(r)
  \/ Drain \/ Flush \/ EOFTimeout \/ Stop \/ Exit \/ Crash \/ Restart \/ NextJob

Spec == Init /\ [][Next]_vars

\* Every goroutine keeps running and every wait ends; nothing must crash.
Fairness ==
  /\ \A s \in Sources : WF_vars(SourceStep(s)) /\ WF_vars(AckTimeout(s))
  /\ \A r \in Requests : WF_vars(HandlerStep(r))
  /\ WF_vars(Drain) /\ WF_vars(Flush) /\ WF_vars(EOFTimeout)
  /\ WF_vars(Stop) /\ WF_vars(Exit) /\ WF_vars(Restart)

FairSpec == Spec /\ Fairness
----------------------------------------------------------------------------
\* The variables hold what the Go types and the loops' bounds let them hold.
TypeOK ==
  /\ src \in [Sources -> SourceStates]
  /\ handler \in [Requests -> HandlerStates]
  /\ op \in Processes
  /\ chan \in Seq(Tuples) /\ buffer \subseteq Tuples /\ stateLog \subseteq Tuples
  /\ output \in [Tuples -> Nat]
  /\ acked \subseteq Tuples /\ applied \subseteq Tuples
  /\ crashes \in 0..MaxCrashes /\ jobs \in 1..MaxJobs

\* An ID is remembered or logged only after the operator ran on its tuple, in
\* this process of the task, an earlier one or an earlier job: what a task
\* rejects as a duplicate was processed once under its task id.
LogIsTruthful ==
  op.processedIDs \cup stateLog \cup buffer \cup {chan[i] : i \in 1..Len(chan)} \subseteq applied

\* A source moves on, or gives up, but what it takes for delivered was
\* processed by the task, whatever is lost or killed in between.
AckMeansApplied == acked \subseteq applied

\* In one life of the process no tuple is processed twice, however often a
\* source retries because an ack is late or the process was replaced.
NoDoubleCount ==
  \A t \in Tuples : op.counts[t] <= 1 /\ (IsSink => output[t] <= 1)

\* The task keeps the promise of module Delivery: processedIDs is its memory,
\* the file on HyDFS its log.
D == INSTANCE Delivery WITH memory <- op.processedIDs, log <- stateLog
ImplementsDelivery == D!Spec

\* A stage that has passed EOF on emits nothing more.
NothingAfterEOF == [][op.eofBroadcast /\ op'.eofBroadcast => output' = output]_vars

\* A task that ends without ever having been killed has put every tuple into
\* its output exactly once.
ExactlyOnceOutput ==
  op.status = "done" /\ crashes = 0 => \A t \in Tuples : output[t] = 1

\* The end of the stream reaches the task: in every job it exits on its own.
Finishes == []<>(op.status = "done")
----------------------------------------------------------------------------
(* What the repository says of checkpoints, recovery and EOF and the code  *)
(* does not keep: see section 5 of the README.                             *)

\* "Checkpoint to HyDFS BEFORE sending ACK": the ID of an acknowledged tuple
\* is in the state log.
AckedIsPersisted == acked \subseteq stateLog

\* "a restarted task resumes without dropping or double-counting tuples": a
\* tuple the restarted task will reject as processed is in its counts, or
\* already in its output.
RecoveredIsCounted ==
  op.status = "up" => \A t \in op.processedIDs : op.counts[t] + output[t] > 0

\* FlushCounts "should be called at end of stream": after it, no more is counted.
FlushedAtEndOfStream == [][op.flushed /\ op'.flushed => op'.counts = op.counts]_vars

\* The EOF timeout is there because "if a source died, we may never get all
\* EOFs": with all sources alive, EOF is passed on when all have ended.
EOFOnlyWhenAllEnded == op.eofBroadcast => \A s \in Sources : src[s].phase = "done"
============================================================================
