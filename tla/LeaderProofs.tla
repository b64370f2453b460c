---------------------------- MODULE LeaderProofs ----------------------------
(***************************************************************************)
(* Proofs about the leader (Leader), for any workers, any stages and any   *)
(* bounds on kills, deaths and scaling decisions.                          *)
(*                                                                         *)
(* The argument follows tokens. A task has a token wherever its next       *)
(* process is in the making: in the submission loop, in a schedule_task    *)
(* message, as the process itself, in the report of its failure, in the    *)
(* handler of that report. Every handler moves a token or drops it, and    *)
(* only a kill or a scaling decision pays for one more launch. That bounds *)
(* the launches of a task (TypeCorrect); as long as nothing is scaled it   *)
(* keeps the token unique and routed (OneProcess, Routed), and as long as  *)
(* nothing is killed either, a counted task has none left (EndsComplete).  *)
(***************************************************************************)
EXTENDS Leader, FiniteSetTheorems, SequenceTheorems, TLAPS

\* The two port ranges: submission and addTaskToStage.
Ports == {"base", "added"}
\* A task as HandleSubmitJob, HandleTaskFailure and addTaskToStage make it.
Tasks == [id : IDs, port : Ports, worker : Workers]
\* A running task on its worker.
Processes == [id : IDs, port : Ports, worker : Workers, pid : Nat]
\* What AllTasks holds under an id.
Entries == [port : Ports, worker : Workers, pid : Nat,
            state : {"Idle", "Running", "Failed", "Completed"}]
\* What HandleTaskFailure remembers between its two halves.
Failures == [vm : Workers, pid : Nat, id : IDs, port : Ports]
\* A goroutine scaleStage has started.
Goroutines == [act : {"add", "remove", "forget"}, index : 0..(NumTasks + MaxScales), nr : Nat]
\* A message from a worker to the leader.
Reports == [type : {"task_started", "task_completed", "task_completed_failed", "task_failed"},
            proc : Processes]
\* Every message under way.
Messages == [type : {"schedule_task"}, task : Tasks, nr : Nat] \cup Reports

\* The shape of every variable: the typing half of the inductive invariant. TypeOK
\* bounds the pids too, which takes LaunchBound below.
Shapes ==
  /\ allTasks \in [DOMAIN allTasks -> Entries] /\ DOMAIN allTasks \subseteq IDs
  /\ routing \subseteq IDs \X Ports \X Workers
  /\ expected \in Nat /\ completedIDs \subseteq IDs /\ upscaled \subseteq IDs
  /\ originalsDone \in BOOLEAN /\ jobEnded \in BOOLEAN
  /\ unsent \in Seq(Tasks) /\ tracking \subseteq Tasks
  /\ restarting \subseteq Failures /\ ending \subseteq IDs \X Nat
  /\ scaling \subseteq Goroutines
  /\ msgs \subseteq Messages /\ procs \subseteq Processes
  /\ launches \in [IDs -> Nat] /\ dead \subseteq Workers
  /\ kills \in Nat /\ duds \in Nat /\ kills <= MaxKills /\ scales \in 0..MaxScales
  /\ stageCount \in 1..(NumTasks + scales) /\ runEnds \in Nat

\* sendScheduleTask keeps the shapes when it fills AllTasks ...
LEMMA TrackShapes == ASSUME Shapes, NEW t \in tracking, Track(t) PROVE Shapes'
<1>1. t \in Tasks BY DEF Shapes
<1>2. unsent' \in Seq(Tasks) BY DEF Shapes, Track
<1>3. Entry(t, 0, "Idle") \in Entries /\ t.id \in IDs BY <1>1 DEF Entry, Entries, Tasks
<1>4. allTasks' \in [DOMAIN allTasks' -> Entries] /\ DOMAIN allTasks' \subseteq IDs
  BY <1>3 DEF Track, Shapes, With
<1>. QED BY <1>2, <1>4 DEF Track, Shapes, jobVars, history

\* ... and so does the submission loop,
LEMMA ScheduleNextShapes == ASSUME Shapes, ScheduleNext PROVE Shapes'
<1>1. Head(unsent) \in Tasks /\ Tail(unsent) \in Seq(Tasks) BY DEF Shapes, ScheduleNext
<1>2. Schedule(Head(unsent), 0) \in Messages BY <1>1 DEF Messages, Schedule
<1>. QED BY <1>1, <1>2 DEF ScheduleNext, Shapes, jobVars, history

\* the launch of a task on its worker,
LEMMA LaunchShapes == ASSUME Shapes, NEW m \in msgs, Launch(m) PROVE Shapes'
<1>1. m.task \in Tasks BY DEF Shapes, Launch, Messages, Reports
<1>2. m.task.id \in IDs /\ launches[m.task.id] \in Nat BY <1>1 DEF Tasks, Shapes
<1>3. launches' \in [IDs -> Nat] BY <1>2 DEF Launch, Shapes
<1>. DEFINE p == [id |-> m.task.id, port |-> m.task.port, worker |-> m.task.worker,
                  pid |-> launches[m.task.id] + 1]
<1>4. p \in Processes BY <1>1, <1>2 DEF Processes, Tasks
<1>5. Report("task_started", p) \in Messages BY <1>4 DEF Messages, Reports, Report
<1>6. procs' \subseteq Processes /\ msgs' \subseteq Messages BY <1>4, <1>5 DEF Launch, Shapes
<1>. QED BY <1>3, <1>6 DEF Launch, Shapes, jobVars, history

\* a launch that comes to nothing,
LEMMA LaunchFailsShapes == ASSUME Shapes, NEW m \in msgs, LaunchFails(m) PROVE Shapes'
<1>1. m.task \in Tasks BY DEF Shapes, LaunchFails, Messages, Reports
<1>. DEFINE p == [id |-> m.task.id, port |-> m.task.port, worker |-> m.task.worker, pid |-> 0]
<1>4. p \in Processes BY <1>1 DEF Processes, Tasks
<1>5. Report("task_started", p) \in Messages BY <1>4 DEF Messages, Reports, Report
<1>6. msgs' \subseteq Messages BY <1>5 DEF LaunchFails, Shapes
<1>. QED BY <1>6, SMTT(30) DEF LaunchFails, Shapes, jobVars

\* A report about a process is a message.
LEMMA ReportShape ==
  ASSUME NEW p \in Processes,
         NEW type \in {"task_started", "task_completed", "task_completed_failed", "task_failed"}
  PROVE  Report(type, p) \in Messages
BY DEF Messages, Reports, Report

\* The end of a task keeps the shapes,
LEMMA ExitShapes == ASSUME Shapes, NEW p \in procs, Exit(p) PROVE Shapes'
<1>1. msgs' \subseteq Messages BY ReportShape DEF Exit, Shapes
<1>. QED BY <1>1 DEF Exit, Shapes, jobVars, history

\* and so do the death of a task,
LEMMA KillShapes == ASSUME Shapes, NEW p \in procs, Kill(p) PROVE Shapes'
<1>1. msgs' \subseteq Messages BY ReportShape DEF Kill, Shapes
<1>2. kills' \in Nat /\ kills' <= MaxKills BY CountsAssumption, SMTT(30) DEF Kill, Shapes
<1>3. procs' \subseteq Processes BY DEF Kill, Shapes
<1>. QED BY <1>1, <1>2, <1>3 DEF Kill, Shapes, jobVars

\* the failure of a worker,
LEMMA WorkerFailsShapes == ASSUME Shapes, NEW w \in Workers, WorkerFails(w) PROVE Shapes'
<1>1. msgs' \subseteq Messages /\ procs' \subseteq Processes BY DEF WorkerFails, Shapes
<1>. QED BY <1>1 DEF WorkerFails, Shapes, jobVars, history

\* What a report carries.
LEMMA ReportFacts ==
  ASSUME Shapes, NEW m \in msgs, m.type # "schedule_task"
  PROVE  /\ m.proc \in Processes /\ m.proc.id \in IDs /\ m.proc.pid \in Nat
         /\ m.proc.worker \in Workers /\ m.proc.port \in Ports
BY DEF Shapes, Messages, Reports, Processes

\* HandleTaskStarted,
LEMMA HandleTaskStartedShapes == ASSUME Shapes, NEW m \in msgs, HandleTaskStarted(m) PROVE Shapes'
<1>1. m.proc.pid \in Nat BY ReportFacts DEF HandleTaskStarted
<1>2. allTasks' \in [DOMAIN allTasks -> Entries] /\ DOMAIN allTasks' = DOMAIN allTasks
  BY <1>1, ZenonT(60) DEF HandleTaskStarted, Shapes, Entries
<1>3. msgs' \subseteq Messages BY DEF HandleTaskStarted, Shapes
<1>. QED BY <1>2, <1>3 DEF HandleTaskStarted, Shapes, jobVars, history

\* HandleTaskCompleted,
LEMMA HandleTaskCompletedShapes ==
  ASSUME Shapes, NEW m \in msgs, HandleTaskCompleted(m) PROVE Shapes'
<1>1. m.proc.pid \in Nat /\ m.proc.id \in IDs BY ReportFacts DEF HandleTaskCompleted
<1>2. allTasks' \in [DOMAIN allTasks -> Entries] /\ DOMAIN allTasks' = DOMAIN allTasks
  BY ZenonT(60) DEF HandleTaskCompleted, Shapes, Entries
<1>3. msgs' \subseteq Messages BY DEF HandleTaskCompleted, Shapes
<1>4. completedIDs' \subseteq IDs /\ ending' \subseteq IDs \X Nat
  BY <1>1 DEF HandleTaskCompleted, Shapes
<1>5. originalsDone' \in BOOLEAN BY DEF HandleTaskCompleted, Shapes
<1>. QED BY <1>2, <1>3, <1>4, <1>5 DEF HandleTaskCompleted, Shapes, history

\* its second lock section,
LEMMA EndJobShapes == ASSUME Shapes, NEW e \in ending, EndJob(e) PROVE Shapes'
<1>1. runEnds' \in Nat BY DEF EndJob, Shapes
<1>. QED BY <1>1 DEF EndJob, Shapes, jobVars

\* and the first half of HandleTaskFailure.
LEMMA HandleTaskFailureShapes ==
  ASSUME Shapes, NEW m \in msgs, HandleTaskFailure(m) PROVE Shapes'
<1>1. m.proc.pid \in Nat /\ m.proc.id \in IDs /\ m.proc.worker \in Workers
  BY ReportFacts DEF HandleTaskFailure
<1>2. allTasks' \in [DOMAIN allTasks -> Entries] /\ DOMAIN allTasks' = DOMAIN allTasks
  <2>1. CASE allTasks' = allTasks BY <2>1 DEF Shapes
  <2>2. CASE allTasks' = [allTasks EXCEPT ![m.proc.id].state = "Failed"]
    BY <2>2 DEF Shapes, Entries
  <2>. QED BY <2>1, <2>2 DEF HandleTaskFailure
<1>3. msgs' \subseteq Messages BY DEF HandleTaskFailure, Shapes
<1>4. m.proc.id \in DOMAIN allTasks => allTasks[m.proc.id].port \in Ports BY DEF Shapes, Entries
<1>5. restarting' \subseteq Failures BY <1>1, <1>4 DEF HandleTaskFailure, Shapes, Failures
<1>. QED BY <1>2, <1>3, <1>5 DEF HandleTaskFailure, Shapes, jobVars, history

\* sendScheduleTask's message and the copy it will keep.
LEMMA ScheduleShape ==
  ASSUME NEW t \in Tasks, NEW nr \in Nat
  PROVE  /\ Schedule(t, nr) \in Messages /\ Entry(t, 0, "Idle") \in Entries /\ t.id \in IDs
         /\ Address(t) \in IDs \X Ports \X Workers
BY DEF Messages, Schedule, Entry, Entries, Tasks, Address

\* A restart keeps the shapes.
LEMMA RestartTaskShapes ==
  ASSUME Shapes, NEW f \in restarting, NEW w \in Workers, RestartTask(f, w) PROVE Shapes'
<1>. DEFINE t == NewTask(f.id, f.port, w)
<1>1. t \in Tasks /\ f.pid \in Nat /\ t.id = f.id BY DEF Shapes, Failures, NewTask, Tasks
<1>2. msgs' \subseteq Messages BY <1>1, ScheduleShape DEF RestartTask, Shapes
<1>3. Entry(t, 0, "Idle") \in Entries /\ f.id \in IDs /\ Address(t) \in IDs \X Ports \X Workers
  BY <1>1, ScheduleShape
<1>4. allTasks' \in [DOMAIN allTasks' -> Entries] /\ DOMAIN allTasks' \subseteq IDs
  BY <1>3 DEF RestartTask, Shapes, With
<1>5. routing' \subseteq IDs \X Ports \X Workers BY <1>3 DEF RestartTask, Shapes, Rerouted
<1>6. tracking' \subseteq Tasks /\ restarting' \subseteq Failures BY <1>1 DEF RestartTask, Shapes
<1>. QED BY <1>2, <1>4, <1>5, <1>6 DEF RestartTask, Shapes, jobVars, history

\* The indices of a stage are task ids.
LEMMA IndexIsID ==
  ASSUME Shapes, NEW g \in scaling
  PROVE  /\ g.index \in Nat /\ g.index \in IDs /\ g.nr \in Nat
         /\ g.act \in {"add", "remove", "forget"}
BY CountsAssumption, SMTT(30) DEF Shapes, Goroutines, IDs

\* addTaskToStage keeps the shapes,
LEMMA AddTaskShapes ==
  ASSUME Shapes, NEW g \in scaling, NEW w \in Workers, AddTaskToStage(g, w) PROVE Shapes'
<1>. DEFINE t == NewTask(g.index, "added", w)
<1>1. t \in Tasks /\ g.nr \in Nat /\ t.id = g.index BY IndexIsID DEF NewTask, Tasks, Ports
<1>2. msgs' \subseteq Messages BY <1>1, ScheduleShape DEF AddTaskToStage, Shapes
<1>3. Entry(t, 0, "Idle") \in Entries /\ t.id \in IDs /\ Address(t) \in IDs \X Ports \X Workers
  BY <1>1, ScheduleShape
<1>4. allTasks' \in [DOMAIN allTasks' -> Entries] /\ DOMAIN allTasks' \subseteq IDs
  BY <1>3 DEF AddTaskToStage, Shapes, With
<1>5. routing' \subseteq IDs \X Ports \X Workers /\ upscaled' \subseteq IDs
  BY <1>3 DEF AddTaskToStage, Shapes
<1>6. tracking' \subseteq Tasks /\ expected' \in Nat /\ scaling' \subseteq Goroutines
  BY <1>1 DEF AddTaskToStage, Shapes
<1>. QED BY <1>2, <1>4, <1>5, <1>6 DEF AddTaskToStage, Shapes, history

\* so does scaleStage, whose count stays within what was submitted and decided,
LEMMA ScaleShapes == ASSUME Shapes, ScaleUp \/ ScaleDown PROVE Shapes'
<1>1. scales' = scales + 1 /\ scales' \in 0..MaxScales /\ scales \in Nat
  BY CountsAssumption, SMTT(30) DEF Shapes, ScaleUp, ScaleDown
<1>2. /\ stageCount' \in 1..(NumTasks + scales')
      /\ stageCount \in 0..(NumTasks + MaxScales) /\ stageCount - 1 \in 0..(NumTasks + MaxScales)
  <2>1. stageCount \in 1..(NumTasks + scales) /\ scales \in Nat /\ scales <= MaxScales BY DEF Shapes
  <2>2. stageCount' = stageCount + 1 \/ (stageCount > 1 /\ stageCount' = stageCount - 1)
    BY DEF ScaleUp, ScaleDown
  <2>. QED BY <1>1, <2>1, <2>2, CountsAssumption
<1>3. scaling' \subseteq Goroutines BY <1>1, <1>2 DEF Shapes, ScaleUp, ScaleDown, Goroutines
<1>4. UNCHANGED <<unsent, allTasks, routing, jobVars, jobEnded, tracking, restarting, ending, msgs,
                  procs, launches, dead, kills, duds, runEnds>>
  BY DEF ScaleUp, ScaleDown
<1>. QED BY <1>1, <1>2, <1>3, <1>4 DEF Shapes, jobVars

\* removeTaskFromStage,
LEMMA RemoveTaskShapes ==
  ASSUME Shapes, NEW g \in scaling, RemoveTaskFromStage(g) PROVE Shapes'
<1>0. g \in Goroutines BY DEF Shapes
<1>1. [g EXCEPT !.act = "forget"] \in Goroutines BY <1>0 DEF Goroutines
<1>2. g.index \in IDs BY IndexIsID
<1>3. /\ routing' \subseteq routing /\ completedIDs' \subseteq completedIDs \cup {g.index}
      /\ scaling' \subseteq scaling \cup {[g EXCEPT !.act = "forget"]}
  BY <1>0 DEF RemoveTaskFromStage, Goroutines
<1>4. UNCHANGED <<unsent, allTasks, expected, upscaled, originalsDone, jobEnded, stageCount,
                 tracking, restarting, ending, msgs, procs, launches, dead, history>>
  BY DEF RemoveTaskFromStage, Shapes, Goroutines
<1>. QED BY <1>1, <1>2, <1>3, <1>4 DEF Shapes, history

\* and its end after the grace period.
LEMMA ForgetTaskShapes == ASSUME Shapes, NEW g \in scaling, ForgetTask(g) PROVE Shapes'
<1>1. msgs' \subseteq Messages BY ReportShape DEF ForgetTask, Shapes
<1>2. procs' \subseteq Processes /\ scaling' \subseteq Goroutines BY DEF ForgetTask, Shapes
<1>3. allTasks' \in [DOMAIN allTasks' -> Entries] /\ DOMAIN allTasks' \subseteq IDs
  BY DEF ForgetTask, Shapes
<1>. QED BY <1>1, <1>2, <1>3 DEF ForgetTask, Shapes, jobVars, history

----------------------------------------------------------------------------
\* The stages are finite, and so are the tasks there can ever be.
LEMMA IDsFinite ==
  /\ IsFiniteSet(Original) /\ OriginalTaskCount \in Nat
  /\ OriginalTaskCount = Cardinality(Fixed) + NumTasks /\ Cardinality(Fixed) \in Nat
  /\ IsFiniteSet(IDs) /\ Original \subseteq IDs /\ 0 \in IDs
<1>1. /\ IsFiniteSet(0..(NumTasks - 1)) /\ Cardinality(0..(NumTasks - 1)) = NumTasks
      /\ IsFiniteSet(0..(NumTasks + MaxScales))
  BY FS_Interval, CountsAssumption
<1>2. Fixed \cap 0..(NumTasks - 1) = {} BY CountsAssumption
<1>3. IsFiniteSet(Fixed) /\ Cardinality(Fixed) \in Nat BY CountsAssumption, FS_CardinalityType
<1>. DEFINE stage == 0..(NumTasks - 1)
<1>4. /\ IsFiniteSet(Fixed \cup stage)
      /\ Cardinality(Fixed \cup stage) = Cardinality(Fixed) + NumTasks - Cardinality({})
  <2>. HIDE DEF stage
  <2>1. Cardinality(Fixed \cup stage) =
          Cardinality(Fixed) + Cardinality(stage) - Cardinality(Fixed \cap stage)
    BY <1>1, <1>3, FS_Union DEF stage
  <2>2. IsFiniteSet(Fixed \cup stage) BY <1>1, <1>3, FS_Union DEF stage
  <2>. QED BY <1>1, <1>2, <2>1, <2>2 DEF stage
<1>5. IsFiniteSet(IDs) BY <1>1, <1>4, FS_Union DEF IDs, Original
<1>6. 0 \in 0..(NumTasks + MaxScales) BY CountsAssumption
<1>. QED BY <1>3, <1>4, <1>5, <1>6, FS_EmptySet, CountsAssumption DEF OriginalTaskCount, IDs, Original

\* HandleSubmitJob's list has every task once.
LEMMA SubmittedList ==
  LET list == SetToSeq(Fixed) \o [i \in 1..NumTasks |-> i - 1] IN
  /\ list \in [1..OriginalTaskCount -> Original]
  /\ \A i, j \in 1..OriginalTaskCount : list[i] = list[j] => i = j
  /\ \A id \in Original : \E i \in 1..OriginalTaskCount : list[i] = id
<1>. DEFINE n == Cardinality(Fixed)
            first == SetToSeq(Fixed)
            second == [i \in 1..NumTasks |-> i - 1]
            list == first \o second
<1>1. n \in Nat /\ NumTasks \in Nat /\ OriginalTaskCount = n + NumTasks BY IDsFinite, CountsAssumption
<1>2. \E f \in [1..n -> Fixed] : IsInjective(f)
  BY FS_CardinalityType, CountsAssumption DEF ExistsBijection, Bijection, Injection
<1>3. first \in [1..n -> Fixed] /\ IsInjective(first) BY <1>2 DEF SetToSeq
<1>4. first \in Injection(1..n, Fixed) BY <1>3 DEF Injection
<1>5. Cardinality(1..n) = n BY <1>1, FS_Interval
<1>6. first \in Surjection(1..n, Fixed)
  BY <1>4, <1>5, FS_Injection, CountsAssumption
<1>7. first \in Seq(Original) /\ Len(first) = n BY <1>1, <1>3 DEF Original
<1>8. second \in Seq(Original) /\ Len(second) = NumTasks BY <1>1 DEF Original
<1>9. /\ list \in Seq(Original) /\ Len(list) = OriginalTaskCount
      /\ \A i \in 1..OriginalTaskCount : list[i] = IF i <= n THEN first[i] ELSE second[i - n]
  <2>. HIDE DEF first, second
  <2>1. /\ list \in Seq(Original) /\ Len(list) = Len(first) + Len(second)
        /\ \A i \in 1..(Len(first) + Len(second)) :
             list[i] = IF i <= Len(first) THEN first[i] ELSE second[i - Len(first)]
    BY <1>7, <1>8, ConcatProperties
  <2>. HIDE DEF list
  <2>. QED BY <1>1, <1>7, <1>8, <2>1
<1>10. \A i \in 1..OriginalTaskCount :
         list[i] = IF i <= n THEN first[i] ELSE i - n - 1
  <2>. HIDE DEF first, second, list
  <2>1. \A k \in 1..NumTasks : second[k] = k - 1 BY DEF second
  <2>2. \A i \in 1..OriginalTaskCount : ~(i <= n) => i - n \in 1..NumTasks BY <1>1
  <2>. QED BY <1>1, <1>9, <2>1, <2>2
<1>. HIDE DEF first, second, list
<1>11. list \in [1..OriginalTaskCount -> Original] BY <1>9
<1>12. \A i \in 1..n : first[i] \notin Nat BY <1>3, CountsAssumption
<1>13. ASSUME NEW i \in 1..OriginalTaskCount, NEW j \in 1..OriginalTaskCount, list[i] = list[j]
       PROVE  i = j
  <2>1. i <= n <=> j <= n BY <1>1, <1>10, <1>12, <1>13
  <2>2. CASE i <= n BY <1>1, <1>3, <1>10, <1>13, <2>1, <2>2 DEF IsInjective
  <2>3. CASE ~(i <= n) BY <1>1, <1>10, <1>13, <2>1, <2>3
  <2>. QED BY <2>2, <2>3
<1>14. ASSUME NEW id \in Original PROVE \E i \in 1..OriginalTaskCount : list[i] = id
  <2>1. CASE id \in Fixed
    <3>1. PICK i \in 1..n : first[i] = id BY <1>6, <2>1 DEF Surjection
    <3>2. i \in 1..OriginalTaskCount /\ i <= n BY <1>1
    <3>. QED BY <1>10, <3>1, <3>2
  <2>2. CASE id \in 0..(NumTasks - 1)
    <3>1. n + id + 1 \in 1..OriginalTaskCount /\ ~(n + id + 1 <= n) /\ (n + id + 1) - n - 1 = id
      BY <1>1, <2>2
    <3>. QED BY <1>10, <3>1
  <2>. QED BY <2>1, <2>2 DEF Original
<1>. QED BY <1>11, <1>13, <1>14 DEF list, first, second

\* ... and so have the tasks it is about to send and the routing table it made.
LEMMA Submitted ==
  ASSUME Init
  PROVE  /\ unsent \in Seq(Tasks) /\ Len(unsent) = OriginalTaskCount
         /\ \A i \in 1..OriginalTaskCount : unsent[i].port = "base" /\ unsent[i].id \in Original
         /\ \A i, j \in 1..OriginalTaskCount : unsent[i].id = unsent[j].id => i = j
         /\ \A id \in Original : \E i \in 1..OriginalTaskCount : unsent[i].id = id
         /\ routing = {Address(unsent[i]) : i \in 1..OriginalTaskCount}
<1>. DEFINE list == SetToSeq(Fixed) \o [i \in 1..NumTasks |-> i - 1]
            N == OriginalTaskCount
<1>1. PICK on \in [Original -> Workers] :
        /\ unsent = [i \in 1..N |-> NewTask(list[i], "base", on[list[i]])]
        /\ routing = {Address(t) : t \in ToSet(unsent)}
  BY DEF Init
<1>2. /\ list \in [1..N -> Original]
      /\ \A i, j \in 1..N : list[i] = list[j] => i = j
      /\ \A id \in Original : \E i \in 1..N : list[i] = id
  BY SubmittedList
<1>. HIDE DEF list
<1>3. N \in Nat /\ Original \subseteq IDs BY IDsFinite
<1>. HIDE DEF N
<1>4. \A i \in 1..N : /\ unsent[i] = NewTask(list[i], "base", on[list[i]])
                      /\ unsent[i].id = list[i] /\ unsent[i].port = "base"
                      /\ unsent[i] \in Tasks
  BY <1>1, <1>2, <1>3 DEF NewTask, Tasks, Ports
<1>5. unsent \in [1..N -> Tasks] BY <1>1, <1>4
<1>6. unsent \in Seq(Tasks) /\ Len(unsent) = N /\ DOMAIN unsent = 1..N BY <1>3, <1>5
<1>7. routing = {Address(unsent[i]) : i \in 1..N} BY <1>1, <1>6 DEF ToSet
<1>. QED BY <1>2, <1>4, <1>6, <1>7 DEF N

\* HandleSubmitJob establishes the shapes.
LEMMA InitShapes == Init => Shapes
<1>. SUFFICES ASSUME Init PROVE Shapes OBVIOUS
<1>1. unsent \in Seq(Tasks) BY Submitted
<1>2. \A i \in 1..OriginalTaskCount : unsent[i] \in Tasks BY Submitted
<1>3. routing \subseteq IDs \X Ports \X Workers BY <1>2, Submitted DEF Address, Tasks
<1>4. expected \in Nat BY IDsFinite DEF Init
<1>5. allTasks \in [DOMAIN allTasks -> Entries] /\ DOMAIN allTasks = {} BY DEF Init
<1>6. launches \in [IDs -> Nat] BY DEF Init
<1>7. stageCount \in 1..(NumTasks + scales) /\ scales \in 0..MaxScales /\ 0 <= MaxKills
      /\ kills = 0
  BY CountsAssumption DEF Init
<1>8. /\ tracking = {} /\ restarting = {} /\ ending = {} /\ scaling = {} /\ msgs = {} /\ procs = {}
      /\ dead = {} /\ duds = 0 /\ runEnds = 0 /\ upscaled = {} /\ completedIDs = {}
      /\ originalsDone = FALSE /\ jobEnded = FALSE
  BY DEF Init
<1>. QED BY <1>1, <1>3, <1>4, <1>5, <1>6, <1>7, <1>8 DEF Shapes

\* Every step keeps the shapes.
LEMMA NextShapes == Shapes /\ [Next]_vars => Shapes'
<1>. SUFFICES ASSUME Shapes, [Next]_vars PROVE Shapes' OBVIOUS
<1>1. CASE UNCHANGED vars BY <1>1 DEF vars, Shapes
<1>2. CASE LeaderStep
  BY <1>2, ScheduleNextShapes, TrackShapes, HandleTaskStartedShapes, HandleTaskCompletedShapes,
     HandleTaskFailureShapes, EndJobShapes, RestartTaskShapes, AddTaskShapes, RemoveTaskShapes,
     ForgetTaskShapes DEF LeaderStep
<1>. QED BY <1>1, <1>2, LaunchShapes, ExitShapes, LaunchFailsShapes, KillShapes, WorkerFailsShapes,
            ScaleShapes DEF Next, WorkerStep

----------------------------------------------------------------------------
\* Task 0 of the scaled stage has an address, and no goroutine is about to take
\* it away: scaleStage never goes below one task and removes the highest index.
StageInv ==
  /\ \E a \in routing : a[1] = 0
  /\ \A g \in scaling : g.act # "add" => g.index >= 1

\* HandleSubmitJob gives task 0 an address.
LEMMA InitStage == Init => StageInv
<1>. SUFFICES ASSUME Init PROVE StageInv OBVIOUS
<1>1. 0 \in Original BY CountsAssumption DEF Original
<1>2. PICK i \in 1..OriginalTaskCount : unsent[i].id = 0 BY <1>1, Submitted
<1>3. Address(unsent[i]) \in routing /\ Address(unsent[i])[1] = 0 BY <1>2, Submitted DEF Address
<1>4. scaling = {} BY DEF Init
<1>. QED BY <1>3, <1>4 DEF StageInv

\* Steps that touch neither the routing table nor the autoscaler's goroutines.
LEMMA RoutingFrame ==
  ASSUME \/ ScheduleNext
         \/ \E t \in tracking : Track(t)
         \/ \E m \in msgs : HandleTaskStarted(m) \/ HandleTaskCompleted(m) \/ HandleTaskFailure(m)
         \/ \E e \in ending : EndJob(e)
         \/ \E m \in msgs : Launch(m) \/ LaunchFails(m)
         \/ \E p \in procs : Exit(p) \/ Kill(p)
         \/ \E w \in Workers : WorkerFails(w)
         \/ UNCHANGED vars
  PROVE  UNCHANGED <<routing, scaling, scales, stageCount, expected>>
<1>1. CASE ScheduleNext \/ \E t \in tracking : Track(t)
  BY <1>1 DEF ScheduleNext, Track, history, jobVars
<1>2. CASE \E m \in msgs : HandleTaskStarted(m) BY <1>2 DEF HandleTaskStarted, history, jobVars
<1>3. CASE \E m \in msgs : HandleTaskCompleted(m) BY <1>3 DEF HandleTaskCompleted, history
<1>4. CASE \E m \in msgs : HandleTaskFailure(m) BY <1>4 DEF HandleTaskFailure, history, jobVars
<1>5. CASE \E e \in ending : EndJob(e) BY <1>5 DEF EndJob, jobVars
<1>6. CASE \E m \in msgs : Launch(m) \/ LaunchFails(m) BY <1>6 DEF Launch, LaunchFails, history, jobVars
<1>7. CASE \E p \in procs : Exit(p) \/ Kill(p) BY <1>7 DEF Exit, Kill, history, jobVars
<1>8. CASE \E w \in Workers : WorkerFails(w) BY <1>8 DEF WorkerFails, history, jobVars
<1>9. CASE UNCHANGED vars BY <1>9 DEF vars
<1>. QED BY <1>1, <1>2, <1>3, <1>4, <1>5, <1>6, <1>7, <1>8, <1>9

\* No step takes the last address of the stage away.
LEMMA NextStage == Shapes /\ StageInv /\ [Next]_vars => StageInv'
<1>. SUFFICES ASSUME Shapes, StageInv, [Next]_vars PROVE StageInv' OBVIOUS
<1>1. CASE UNCHANGED <<routing, scaling>> BY <1>1 DEF StageInv
<1>2. ASSUME NEW f \in restarting, NEW w \in Workers, RestartTask(f, w) PROVE StageInv'
  <2>1. Address(NewTask(f.id, f.port, w))[1] = f.id BY DEF Address, NewTask
  <2>2. scaling' = scaling BY <1>2 DEF RestartTask
  <2>3. PICK a \in routing : a[1] = 0 BY DEF StageInv
  <2>4. \E b \in routing' : b[1] = 0 BY <1>2, <2>1, <2>3 DEF RestartTask, Rerouted
  <2>. QED BY <2>2, <2>4 DEF StageInv
<1>3. ASSUME NEW g \in scaling, NEW w \in Workers, AddTaskToStage(g, w) PROVE StageInv'
  <2>1. routing \subseteq routing' /\ scaling' \subseteq scaling BY <1>3 DEF AddTaskToStage
  <2>. QED BY <2>1 DEF StageInv
<1>4. ASSUME NEW g \in scaling, RemoveTaskFromStage(g) PROVE StageInv'
  <2>0. g \in Goroutines BY DEF Shapes
  <2>1. [g EXCEPT !.act = "forget"].index = g.index /\ g.index >= 1
    BY <1>4, <2>0 DEF Goroutines, RemoveTaskFromStage, StageInv
  <2>2. /\ scaling' \subseteq scaling \cup {[g EXCEPT !.act = "forget"]}
        /\ \/ routing' = routing
           \/ \E p, w : routing' = routing \ {<<g.index, p, w>>}
    BY <1>4, <2>0 DEF RemoveTaskFromStage, Goroutines
  <2>3. PICK a \in routing : a[1] = 0 BY DEF StageInv
  <2>4. a \in routing' BY <2>0, <2>1, <2>2, <2>3 DEF Goroutines
  <2>5. \A h \in scaling' : h.act # "add" => h.index >= 1
    BY <2>0, <2>1, <2>2 DEF StageInv, Goroutines
  <2>. QED BY <2>3, <2>4, <2>5 DEF StageInv
<1>5. ASSUME NEW g \in scaling, ForgetTask(g) PROVE StageInv'
  <2>1. routing' = routing /\ scaling' \subseteq scaling BY <1>5 DEF ForgetTask
  <2>. QED BY <2>1 DEF StageInv
<1>6. CASE ScaleUp
  <2>1. routing' = routing BY <1>6 DEF ScaleUp
  <2>2. \A h \in scaling' : h \in scaling \/ h.act = "add" BY <1>6 DEF ScaleUp
  <2>. QED BY <2>1, <2>2 DEF StageInv
<1>7. CASE ScaleDown
  <2>1. routing' = routing /\ stageCount - 1 >= 1 BY <1>7, CountsAssumption DEF ScaleDown, Shapes
  <2>2. \A h \in scaling' : h \in scaling \/ h.index = stageCount - 1 BY <1>7 DEF ScaleDown
  <2>. QED BY <2>1, <2>2 DEF StageInv
<1>. QED BY <1>1, <1>2, <1>3, <1>4, <1>5, <1>6, <1>7, RoutingFrame DEF Next, LeaderStep, WorkerStep

\* Downscaling always leaves a target to send tuples to...
THEOREM KeepsTarget == Spec => []StageKeepsTarget
<1>1. StageInv => StageKeepsTarget BY DEF StageInv, StageKeepsTarget
<1>. QED BY <1>1, InitShapes, InitStage, NextShapes, NextStage, PTL DEF Spec

----------------------------------------------------------------------------
\* The tasks the submission loop has still to send: each once, with the ports of
\* the submission. AllTasks and the restarts know none of these under that port
\* (an added task may reuse an index, under another port), and only the first may
\* be between the two halves of sendScheduleTask.
UnsentInv ==
  /\ \A i, j \in 1..Len(unsent) : unsent[i].id = unsent[j].id => i = j
  /\ \A i \in 1..Len(unsent) :
       /\ unsent[i].port = "base"
       /\ \A t \in tracking : t.id = unsent[i].id /\ t.port = "base" => i = 1 /\ t = unsent[1]
       /\ \A f \in restarting : f.id = unsent[i].id => f.port # "base"
       /\ unsent[i].id \in DOMAIN allTasks => allTasks[unsent[i].id].port # "base"

\* HandleTaskStarted leaves the address of every task alone.
LEMMA StartedFields ==
  ASSUME Shapes, NEW m \in msgs, HandleTaskStarted(m)
  PROVE  /\ DOMAIN allTasks' = DOMAIN allTasks
         /\ \A id \in DOMAIN allTasks :
              /\ allTasks'[id].port = allTasks[id].port
              /\ allTasks'[id].pid = IF id = m.proc.id THEN m.proc.pid ELSE allTasks[id].pid
<1>1. CASE m.proc.id \in DOMAIN allTasks
  <2>1. allTasks' = [allTasks EXCEPT ![m.proc.id].pid = m.proc.pid, ![m.proc.id].state = "Running"]
    BY <1>1 DEF HandleTaskStarted
  <2>. QED BY <1>1, <2>1 DEF Shapes, Entries
<1>2. CASE m.proc.id \notin DOMAIN allTasks BY <1>2 DEF HandleTaskStarted
<1>. QED BY <1>1, <1>2

\* HandleTaskCompleted and HandleTaskFailure leave address and pid alone.
LEMMA EndedFields ==
  ASSUME Shapes, NEW m \in msgs, HandleTaskCompleted(m) \/ HandleTaskFailure(m)
  PROVE  /\ DOMAIN allTasks' = DOMAIN allTasks
         /\ \A id \in DOMAIN allTasks : /\ allTasks'[id].port = allTasks[id].port
                                        /\ allTasks'[id].pid = allTasks[id].pid
<1>1. PICK s : allTasks' = allTasks \/ allTasks' = [allTasks EXCEPT ![m.proc.id].state = s]
  BY DEF HandleTaskCompleted, HandleTaskFailure
<1>2. CASE allTasks' = [allTasks EXCEPT ![m.proc.id].state = s] BY <1>2 DEF Shapes, Entries
<1>. QED BY <1>1, <1>2

\* UnsentInv survives a step that adds nothing about a task still to be sent.
LEMMA UnsentStays ==
  ASSUME UnsentInv, UNCHANGED unsent,
         \A i \in 1..Len(unsent) :
           /\ \A t \in tracking' : t.id = unsent[i].id /\ t.port = "base" =>
                t \in tracking \/ (i = 1 /\ t = unsent[1])
           /\ \A f \in restarting' : f.id = unsent[i].id => f \in restarting \/ f.port # "base"
           /\ unsent[i].id \in DOMAIN allTasks' =>
                \/ allTasks'[unsent[i].id].port # "base"
                \/ unsent[i].id \in DOMAIN allTasks
                   /\ allTasks'[unsent[i].id].port = allTasks[unsent[i].id].port
  PROVE  UnsentInv'
BY DEF UnsentInv

\* UnsentInv survives the loop going on to the next task.
LEMMA UnsentMoves ==
  ASSUME Shapes, UnsentInv, unsent # <<>>, unsent' = Tail(unsent),
         tracking' \subseteq tracking, restarting' = restarting,
         \A id \in DOMAIN allTasks' : id # unsent[1].id => 
            id \in DOMAIN allTasks /\ allTasks'[id].port = allTasks[id].port
  PROVE  UnsentInv'
<1>1. Len(unsent') = Len(unsent) - 1 /\ Len(unsent) \in Nat /\ 1 \in 1..Len(unsent)
  BY DEF Shapes
<1>2. \A i \in 1..Len(unsent') : unsent'[i] = unsent[i + 1] /\ i + 1 \in 1..Len(unsent) /\ i + 1 # 1
  BY <1>1 DEF Shapes
<1>3. \A i, j \in 1..Len(unsent') : unsent'[i].id = unsent'[j].id => i = j
  BY <1>1, <1>2 DEF UnsentInv
<1>4. ASSUME NEW i \in 1..Len(unsent')
      PROVE  /\ unsent'[i].port = "base"
             /\ \A t \in tracking' : ~(t.id = unsent'[i].id /\ t.port = "base")
             /\ \A f \in restarting' : f.id = unsent'[i].id => f.port # "base"
             /\ unsent'[i].id \in DOMAIN allTasks' => allTasks'[unsent'[i].id].port # "base"
  <2>. DEFINE k == i + 1
  <2>1. k \in 1..Len(unsent) /\ k # 1 /\ unsent'[i] = unsent[k] BY <1>2
  <2>2. unsent[k].id # unsent[1].id BY <1>1, <2>1 DEF UnsentInv
  <2>. HIDE DEF k
  <2>. QED BY <2>1, <2>2 DEF UnsentInv
<1>. QED BY <1>3, <1>4 DEF UnsentInv

\* Every step keeps UnsentInv.
LEMMA NextUnsent == Shapes /\ UnsentInv /\ [Next]_vars => UnsentInv'
<1>. SUFFICES ASSUME Shapes, UnsentInv, [Next]_vars PROVE UnsentInv' OBVIOUS
<1>1. CASE UNCHANGED <<unsent, tracking, restarting, allTasks>> BY <1>1 DEF UnsentInv
<1>2. ASSUME NEW t \in tracking, Track(t) PROVE UnsentInv'
  <2>0. t \in Tasks /\ t.port \in Ports BY DEF Shapes, Tasks
  <2>1. allTasks' = With(t.id, Entry(t, 0, "Idle")) BY <1>2 DEF Track
  <2>2. CASE unsent # <<>> /\ t = Head(unsent)
    <3>1. unsent' = Tail(unsent) /\ tracking' \subseteq tracking /\ restarting' = restarting
          /\ t = unsent[1]
      BY <1>2, <2>2 DEF Track, Shapes
    <3>2. \A id \in DOMAIN allTasks' : id # t.id =>
            id \in DOMAIN allTasks /\ allTasks'[id].port = allTasks[id].port
      BY <2>1 DEF With, Entry
    <3>. QED BY <2>2, <3>1, <3>2, UnsentMoves
  <2>3. CASE ~(unsent # <<>> /\ t = Head(unsent))
    <3>1. UNCHANGED unsent /\ tracking' \subseteq tracking /\ restarting' = restarting
      BY <1>2, <2>3 DEF Track
    <3>2. \A i \in 1..Len(unsent) : t.port = "base" => t.id # unsent[i].id
      BY <2>3 DEF UnsentInv, Shapes
    <3>3. \A i \in 1..Len(unsent) :
            /\ \A u \in tracking' : u.id = unsent[i].id /\ u.port = "base" =>
                 u \in tracking \/ (i = 1 /\ u = unsent[1])
            /\ unsent[i].id \in DOMAIN allTasks' =>
                 \/ allTasks'[unsent[i].id].port # "base"
                 \/ unsent[i].id \in DOMAIN allTasks
                    /\ allTasks'[unsent[i].id].port = allTasks[unsent[i].id].port
      BY <2>1, <3>1, <3>2 DEF With, Entry
    <3>. QED BY <3>1, <3>3, UnsentStays
  <2>. QED BY <2>2, <2>3
<1>3. CASE ScheduleNext
  <2>1. CASE /\ tracking' = tracking \cup {Head(unsent)} /\ UNCHANGED unsent
    <3>1. UNCHANGED <<restarting, allTasks>> BY <1>3 DEF ScheduleNext
    <3>2. Head(unsent) = unsent[1] /\ 1 \in 1..Len(unsent) BY <1>3 DEF ScheduleNext, Shapes
    <3>3. \A i \in 1..Len(unsent) : unsent[1].id = unsent[i].id => i = 1 BY <3>2 DEF UnsentInv
    <3>. QED BY <2>1, <3>1, <3>2, <3>3, UnsentStays
  <2>2. CASE unsent' = Tail(unsent) /\ UNCHANGED tracking
    <3>1. UNCHANGED <<restarting, allTasks>> /\ unsent # <<>> BY <1>3 DEF ScheduleNext
    <3>. QED BY <2>2, <3>1, UnsentMoves
  <2>. QED BY <1>3, <2>1, <2>2 DEF ScheduleNext
<1>4. ASSUME NEW m \in msgs, HandleTaskStarted(m) PROVE UnsentInv'
  <2>1. UNCHANGED <<unsent, tracking, restarting>> BY <1>4 DEF HandleTaskStarted
  <2>. QED BY <1>4, <2>1, StartedFields, UnsentStays
<1>5. ASSUME NEW m \in msgs, HandleTaskCompleted(m) PROVE UnsentInv'
  <2>1. UNCHANGED <<unsent, tracking, restarting>> BY <1>5 DEF HandleTaskCompleted
  <2>. QED BY <1>5, <2>1, EndedFields, UnsentStays
<1>6. ASSUME NEW m \in msgs, HandleTaskFailure(m) PROVE UnsentInv'
  <2>1. UNCHANGED <<unsent, tracking>> BY <1>6 DEF HandleTaskFailure
  <2>2. \A f \in restarting' : \/ f \in restarting
                               \/ f.id \in DOMAIN allTasks /\ f.port = allTasks[f.id].port
    <3>1. CASE restarting' = restarting BY <3>1
    <3>2. CASE /\ m.proc.id \in DOMAIN allTasks
               /\ restarting' = restarting \cup {[vm |-> m.proc.worker, pid |-> m.proc.pid,
                                        id |-> m.proc.id, port |-> allTasks[m.proc.id].port]}
      BY <3>2
    <3>. QED BY <1>6, <3>1, <3>2 DEF HandleTaskFailure
  <2>3. \A i \in 1..Len(unsent) : \A f \in restarting' :
          f.id = unsent[i].id => f \in restarting \/ f.port # "base"
    BY <2>2 DEF UnsentInv
  <2>. QED BY <1>6, <2>1, <2>3, EndedFields, UnsentStays
<1>7. ASSUME NEW f \in restarting, NEW w \in Workers, RestartTask(f, w) PROVE UnsentInv'
  <2>. DEFINE t == NewTask(f.id, f.port, w)
  <2>1. /\ UNCHANGED unsent /\ restarting' \subseteq restarting
        /\ tracking' = tracking \cup {t} /\ allTasks' = With(f.id, Entry(t, 0, "Idle"))
    BY <1>7 DEF RestartTask
  <2>2. t.id = f.id /\ t.port = f.port BY DEF NewTask
  <2>. HIDE DEF t
  <2>3. \A i \in 1..Len(unsent) : f.id = unsent[i].id => f.port # "base" BY DEF UnsentInv
  <2>4. \A i \in 1..Len(unsent) :
           /\ \A u \in tracking' : u.id = unsent[i].id /\ u.port = "base" =>
                u \in tracking \/ (i = 1 /\ u = unsent[1])
           /\ unsent[i].id \in DOMAIN allTasks' =>
                \/ allTasks'[unsent[i].id].port # "base"
                \/ unsent[i].id \in DOMAIN allTasks
                   /\ allTasks'[unsent[i].id].port = allTasks[unsent[i].id].port
    BY <2>1, <2>2, <2>3 DEF With, Entry
  <2>. QED BY <2>1, <2>4, UnsentStays
<1>8. ASSUME NEW g \in scaling, NEW w \in Workers, AddTaskToStage(g, w) PROVE UnsentInv'
  <2>. DEFINE t == NewTask(g.index, "added", w)
  <2>1. /\ UNCHANGED <<unsent, restarting>>
        /\ tracking' = tracking \cup {t} /\ allTasks' = With(t.id, Entry(t, 0, "Idle"))
    BY <1>8 DEF AddTaskToStage
  <2>2. t.port = "added" BY DEF NewTask
  <2>. HIDE DEF t
  <2>3. \A i \in 1..Len(unsent) :
           /\ \A u \in tracking' : u.id = unsent[i].id /\ u.port = "base" =>
                u \in tracking \/ (i = 1 /\ u = unsent[1])
           /\ unsent[i].id \in DOMAIN allTasks' =>
                \/ allTasks'[unsent[i].id].port # "base"
                \/ unsent[i].id \in DOMAIN allTasks
                   /\ allTasks'[unsent[i].id].port = allTasks[unsent[i].id].port
    BY <2>1, <2>2 DEF With, Entry
  <2>. QED BY <2>1, <2>3, UnsentStays
<1>9. ASSUME NEW g \in scaling, ForgetTask(g) PROVE UnsentInv'
  <2>1. UNCHANGED <<unsent, tracking, restarting>> BY <1>9 DEF ForgetTask
  <2>2. DOMAIN allTasks' \subseteq DOMAIN allTasks
        /\ \A i \in DOMAIN allTasks' : allTasks'[i] = allTasks[i]
    BY <1>9 DEF ForgetTask
  <2>. QED BY <2>1, <2>2, UnsentStays
<1>10. CASE \/ \E e \in ending : EndJob(e)
            \/ \E m \in msgs : Launch(m) \/ LaunchFails(m)
            \/ \E p \in procs : Exit(p) \/ Kill(p)
            \/ \E w \in Workers : WorkerFails(w)
  BY <1>1, <1>10 DEF EndJob, Launch, LaunchFails, Exit, Kill, WorkerFails
<1>11. CASE ScaleUp \/ ScaleDown BY <1>1, <1>11 DEF ScaleUp, ScaleDown
<1>12. ASSUME NEW g \in scaling, RemoveTaskFromStage(g) PROVE UnsentInv'
  BY <1>1, <1>12 DEF RemoveTaskFromStage
<1>13. CASE UNCHANGED vars BY <1>1, <1>13 DEF vars
<1>. QED BY <1>2, <1>3, <1>4, <1>5, <1>6, <1>7, <1>8, <1>9, <1>10, <1>11, <1>12, <1>13
         DEF Next, LeaderStep, WorkerStep

\* HandleSubmitJob establishes UnsentInv.
LEMMA InitUnsent == Init => UnsentInv
<1>. SUFFICES ASSUME Init PROVE UnsentInv OBVIOUS
<1>1. tracking = {} /\ restarting = {} /\ DOMAIN allTasks = {} BY DEF Init
<1>. QED BY <1>1, Submitted DEF UnsentInv
----------------------------------------------------------------------------
\* A pid anybody knows is the pid of a launch that took place.
PidInv ==
  /\ \A id \in DOMAIN allTasks : allTasks[id].pid <= launches[id]
  /\ \A p \in procs : p.pid \in 1..launches[p.id]
  /\ \A m \in msgs : m.type # "schedule_task" => m.proc.pid \in 0..launches[m.proc.id]
  /\ \A m \in msgs : m.type \notin {"schedule_task", "task_started"} => m.proc.pid # 0
  /\ \A e \in ending : e[2] \in 1..launches[e[1]]

\* Steps that launch nothing keep every pid below the count if what is new is.
LEMMA PidsStay ==
  ASSUME PidInv, launches' = launches,
         \A id \in DOMAIN allTasks' :
           \/ allTasks'[id].pid <= launches[id]
           \/ id \in DOMAIN allTasks /\ allTasks'[id].pid = allTasks[id].pid,
         procs' \subseteq procs,
         \A m \in msgs' : \/ m \in msgs \/ m.type = "schedule_task"
                          \/ m.proc.pid \in 1..launches[m.proc.id]
                          \/ m.proc.pid \in 0..launches[m.proc.id] /\ m.type = "task_started",
         \A e \in ending' : e \in ending \/ e[2] \in 1..launches[e[1]]
  PROVE  PidInv'
<1>1. \A m \in msgs' : m.type # "schedule_task" => m.proc.pid \in 0..launches[m.proc.id]
  BY DEF PidInv
<1>2. \A m \in msgs' : m.type \notin {"schedule_task", "task_started"} => m.proc.pid # 0
  BY DEF PidInv
<1>. QED BY <1>1, <1>2 DEF PidInv

\* Every step keeps PidInv.
LEMMA NextPids == Shapes /\ PidInv /\ [Next]_vars => PidInv'
<1>. SUFFICES ASSUME Shapes, PidInv, [Next]_vars PROVE PidInv' OBVIOUS
<1>0. \A id \in IDs : launches[id] \in Nat BY DEF Shapes
<1>1. ASSUME NEW t \in tracking, Track(t) PROVE PidInv'
  <2>1. UNCHANGED <<procs, msgs, ending, launches>> BY <1>1 DEF Track
  <2>2. t.id \in IDs BY DEF Shapes, Tasks
  <2>3. \A id \in DOMAIN allTasks' : \/ allTasks'[id].pid <= launches[id]
                                     \/ id \in DOMAIN allTasks /\ allTasks'[id].pid = allTasks[id].pid
    BY <1>0, <1>1, <2>2 DEF Track, With, Entry
  <2>. QED BY <2>1, <2>3, PidsStay
<1>2. CASE ScheduleNext
  <2>1. UNCHANGED <<procs, ending, launches, allTasks>> BY <1>2 DEF ScheduleNext
  <2>2. \A m \in msgs' : m \in msgs \/ m.type = "schedule_task" BY <1>2 DEF ScheduleNext, Schedule
  <2>. QED BY <2>1, <2>2, PidsStay
<1>3. ASSUME NEW m \in msgs, HandleTaskStarted(m) PROVE PidInv'
  <2>1. UNCHANGED <<procs, ending, launches>> /\ msgs' \subseteq msgs BY <1>3 DEF HandleTaskStarted
  <2>2. m.proc.pid <= launches[m.proc.id] BY <1>3 DEF HandleTaskStarted, PidInv
  <2>3. \A id \in DOMAIN allTasks' : \/ allTasks'[id].pid <= launches[id]
                                     \/ id \in DOMAIN allTasks /\ allTasks'[id].pid = allTasks[id].pid
    BY <1>3, <2>2, StartedFields
  <2>. QED BY <2>1, <2>3, PidsStay
<1>4. ASSUME NEW m \in msgs, HandleTaskCompleted(m) PROVE PidInv'
  <2>1. UNCHANGED <<procs, launches>> /\ msgs' \subseteq msgs BY <1>4 DEF HandleTaskCompleted
  <2>2. m.proc.pid \in 1..launches[m.proc.id]
    BY <1>0, <1>4, ReportFacts DEF HandleTaskCompleted, PidInv
  <2>3. \A e \in ending' : e \in ending \/ e[2] \in 1..launches[e[1]]
    BY <1>4, <2>2 DEF HandleTaskCompleted
  <2>. QED BY <1>4, <2>1, <2>3, EndedFields, PidsStay
<1>5. ASSUME NEW m \in msgs, HandleTaskFailure(m) PROVE PidInv'
  <2>1. UNCHANGED <<procs, launches, ending>> /\ msgs' \subseteq msgs BY <1>5 DEF HandleTaskFailure
  <2>. QED BY <1>5, <2>1, EndedFields, PidsStay
<1>6. ASSUME NEW f \in restarting, NEW w \in Workers, RestartTask(f, w) PROVE PidInv'
  <2>1. UNCHANGED <<procs, ending, launches>> BY <1>6 DEF RestartTask
  <2>2. f.id \in IDs BY DEF Shapes, Failures
  <2>3. \A id \in DOMAIN allTasks' : \/ allTasks'[id].pid <= launches[id]
                                     \/ id \in DOMAIN allTasks /\ allTasks'[id].pid = allTasks[id].pid
    BY <1>0, <1>6, <2>2 DEF RestartTask, With, Entry
  <2>4. \A m \in msgs' : m \in msgs \/ m.type = "schedule_task" BY <1>6 DEF RestartTask, Schedule
  <2>. QED BY <2>1, <2>3, <2>4, PidsStay
<1>7. ASSUME NEW g \in scaling, NEW w \in Workers, AddTaskToStage(g, w) PROVE PidInv'
  <2>1. UNCHANGED <<procs, ending, launches>> BY <1>7 DEF AddTaskToStage
  <2>2. NewTask(g.index, "added", w).id \in IDs BY IndexIsID DEF NewTask
  <2>3. \A id \in DOMAIN allTasks' : \/ allTasks'[id].pid <= launches[id]
                                     \/ id \in DOMAIN allTasks /\ allTasks'[id].pid = allTasks[id].pid
    BY <1>0, <1>7, <2>2 DEF AddTaskToStage, With, Entry
  <2>4. \A m \in msgs' : m \in msgs \/ m.type = "schedule_task" BY <1>7 DEF AddTaskToStage, Schedule
  <2>. QED BY <2>1, <2>3, <2>4, PidsStay
<1>8. ASSUME NEW g \in scaling, ForgetTask(g) PROVE PidInv'
  <2>1. UNCHANGED <<launches, ending>> /\ procs' \subseteq procs BY <1>8 DEF ForgetTask
  <2>2. \A m \in msgs' : m \in msgs \/ m.proc \in procs BY <1>8 DEF ForgetTask, Report
  <2>3. \A id \in DOMAIN allTasks' : id \in DOMAIN allTasks /\ allTasks'[id].pid = allTasks[id].pid
    BY <1>8 DEF ForgetTask
  <2>4. \A m \in msgs' : m \in msgs \/ m.proc.pid \in 1..launches[m.proc.id] BY <2>2 DEF PidInv
  <2>. QED BY <2>1, <2>3, <2>4, PidsStay
<1>9. ASSUME NEW p \in procs, Exit(p) \/ Kill(p) PROVE PidInv'
  <2>1. UNCHANGED <<launches, ending, allTasks>> /\ procs' \subseteq procs BY <1>9 DEF Exit, Kill
  <2>2. \A m \in msgs' : m \in msgs \/ m.proc = p BY <1>9 DEF Exit, Kill, Report
  <2>3. \A m \in msgs' : m \in msgs \/ m.proc.pid \in 1..launches[m.proc.id] BY <2>2 DEF PidInv
  <2>. QED BY <2>1, <2>3, PidsStay
<1>10. ASSUME NEW w \in Workers, WorkerFails(w) PROVE PidInv'
  <2>1. UNCHANGED <<launches, ending, allTasks>> /\ procs' \subseteq procs /\ msgs' \subseteq msgs
    BY <1>10 DEF WorkerFails
  <2>. QED BY <2>1, PidsStay
<1>11. ASSUME NEW e \in ending, EndJob(e) PROVE PidInv'
  <2>1. UNCHANGED <<launches, procs, msgs, allTasks>> /\ ending' \subseteq ending
    BY <1>11 DEF EndJob
  <2>. QED BY <2>1, PidsStay
<1>12. ASSUME NEW m \in msgs, LaunchFails(m) PROVE PidInv'
  <2>1. UNCHANGED <<launches, procs, ending, allTasks>> BY <1>12 DEF LaunchFails
  <2>2. m.task.id \in IDs BY <1>12 DEF LaunchFails, Shapes, Messages, Reports, Tasks
  <2>3. \A n \in msgs' : n \in msgs \/ (n.type = "task_started" /\ n.proc.pid = 0 /\ n.proc.id = m.task.id)
    BY <1>12 DEF LaunchFails, Report
  <2>4. \A n \in msgs' : n \in msgs \/ (n.type = "task_started" /\ n.proc.pid \in 0..launches[n.proc.id])
    BY <1>0, <2>2, <2>3
  <2>. QED BY <2>1, <2>4, PidsStay
<1>13. ASSUME NEW m \in msgs, Launch(m) PROVE PidInv'
  <2>. DEFINE id == m.task.id
              p == [id |-> m.task.id, port |-> m.task.port, worker |-> m.task.worker,
                    pid |-> launches[m.task.id] + 1]
  <2>1. id \in IDs BY <1>13 DEF Launch, Shapes, Messages, Reports, Tasks
  <2>2. /\ launches' = [launches EXCEPT ![id] = @ + 1] /\ procs' = procs \cup {p}
        /\ msgs' = (msgs \ {m}) \cup {Report("task_started", p)} /\ UNCHANGED <<allTasks, ending>>
    BY <1>13 DEF Launch
  <2>3. p.id = id /\ p.pid = launches[id] + 1 OBVIOUS
  <2>. HIDE DEF p, id
  <2>4. launches[id] \in Nat /\ launches'[id] = launches[id] + 1
        /\ \A i \in IDs : i # id => launches'[i] = launches[i]
    BY <1>0, <2>1, <2>2 DEF Shapes
  <2>5. p.pid \in 1..launches'[p.id] /\ p.pid \in 0..launches'[p.id] BY <2>3, <2>4
  <2>6. \A i \in DOMAIN allTasks' : allTasks'[i].pid <= launches'[i]
    BY <1>0, <2>2, <2>4 DEF PidInv, Shapes, Entries
  <2>7. \A q \in procs' : q.pid \in 1..launches'[q.id]
    BY <1>0, <2>2, <2>4, <2>5, SMTT(30) DEF PidInv, Shapes, Processes
  <2>8. \A e \in ending' : e[2] \in 1..launches'[e[1]]
    BY <1>0, <2>2, <2>4 DEF PidInv, Shapes
  <2>9. \A n \in msgs' : n.type # "schedule_task" => n.proc.pid \in 0..launches'[n.proc.id]
    BY <1>0, <2>2, <2>4, <2>5, ReportFacts DEF PidInv, Report
  <2>10. \A n \in msgs' : n.type \notin {"schedule_task", "task_started"} => n.proc.pid # 0
    BY <2>2 DEF PidInv, Report
  <2>. QED BY <2>6, <2>7, <2>8, <2>9, <2>10 DEF PidInv
<1>14. CASE UNCHANGED <<allTasks, procs, msgs, ending, launches>> BY <1>14 DEF PidInv
<1>15. CASE UNCHANGED vars \/ ScaleUp \/ ScaleDown BY <1>14, <1>15 DEF vars, ScaleUp, ScaleDown
<1>16. ASSUME NEW g \in scaling, RemoveTaskFromStage(g) PROVE PidInv'
  BY <1>14, <1>16 DEF RemoveTaskFromStage
<1>. QED BY <1>1, <1>2, <1>3, <1>4, <1>5, <1>6, <1>7, <1>8, <1>9, <1>10, <1>11, <1>12, <1>13, <1>15,
            <1>16 DEF Next, LeaderStep, WorkerStep

\* Nothing is launched before the submission.
LEMMA InitPids == Init => PidInv
<1>. SUFFICES ASSUME Init PROVE PidInv OBVIOUS
<1>1. DOMAIN allTasks = {} /\ procs = {} /\ msgs = {} /\ ending = {} BY DEF Init
<1>. QED BY <1>1 DEF PidInv

----------------------------------------------------------------------------
\* CompletedTasks is the size of CompletedTaskIDs, and what is to be forgotten has
\* been counted as completed.
CountInv ==
  /\ completed = Cardinality(completedIDs)
  /\ \A g \in scaling : g.act = "forget" => g.index \in completedIDs

\* CompletedAfter counts a task id once.
LEMMA CountAgain ==
  ASSUME Shapes, NEW id \in IDs, completed = Cardinality(completedIDs),
         completedIDs' = completedIDs \cup {id}, completed' = CompletedAfter(id)
  PROVE  completed' = Cardinality(completedIDs') /\ completed' >= completed /\ completed \in Nat
<1>1. IsFiniteSet(completedIDs) BY IDsFinite, FS_Subset DEF Shapes
<1>2. Cardinality(completedIDs) \in Nat BY <1>1, FS_CardinalityType
<1>3. Cardinality(completedIDs \cup {id}) =
        IF id \in completedIDs THEN Cardinality(completedIDs) ELSE Cardinality(completedIDs) + 1
  BY <1>1, FS_AddElement
<1>. QED BY <1>2, <1>3 DEF CompletedAfter

\* Every step keeps CountInv.
LEMMA NextCount == Shapes /\ CountInv /\ [Next]_vars => CountInv'
<1>. SUFFICES ASSUME Shapes, CountInv, [Next]_vars PROVE CountInv' OBVIOUS
<1>1. CASE UNCHANGED <<completed, completedIDs>> /\ \A g \in scaling' : g \in scaling \/ g.act # "forget"
  BY <1>1 DEF CountInv
<1>2. ASSUME NEW m \in msgs, HandleTaskCompleted(m) PROVE CountInv'
  <2>1. m.proc.id \in IDs BY <1>2, ReportFacts DEF HandleTaskCompleted
  <2>2. /\ completedIDs' = completedIDs \cup {m.proc.id} /\ completed' = CompletedAfter(m.proc.id)
        /\ scaling' = scaling
    BY <1>2 DEF HandleTaskCompleted
  <2>. QED BY <2>1, <2>2, CountAgain DEF CountInv
<1>3. ASSUME NEW g \in scaling, RemoveTaskFromStage(g) PROVE CountInv'
  <2>0. g \in Goroutines BY DEF Shapes
  <2>1. CASE scaling' = scaling \ {g} /\ UNCHANGED <<routing, completedIDs, completed>>
    BY <2>1 DEF CountInv
  <2>2. CASE /\ completedIDs' = completedIDs \cup {g.index} /\ completed' = CompletedAfter(g.index)
             /\ scaling' = (scaling \ {g}) \cup {[g EXCEPT !.act = "forget"]}
    <3>1. [g EXCEPT !.act = "forget"].index = g.index BY <2>0 DEF Goroutines
    <3>2. \A h \in scaling' : h.act = "forget" => h.index \in completedIDs'
      BY <2>0, <2>2, <3>1 DEF CountInv, Goroutines
    <3>. QED BY <2>2, <3>2, IndexIsID, CountAgain DEF CountInv
  <2>. QED BY <1>3, <2>0, <2>1, <2>2 DEF RemoveTaskFromStage, Goroutines
<1>4. CASE ScheduleNext \/ \E t \in tracking : Track(t)
  BY <1>1, <1>4 DEF ScheduleNext, Track, jobVars
<1>5. ASSUME NEW m \in msgs, HandleTaskStarted(m) \/ HandleTaskFailure(m) PROVE CountInv'
  <2>1. UNCHANGED <<completed, completedIDs, scaling>>
    BY <1>5 DEF HandleTaskStarted, HandleTaskFailure, jobVars
  <2>. QED BY <1>1, <2>1
<1>6. CASE \/ \E e \in ending : EndJob(e)
           \/ \E m \in msgs : Launch(m) \/ LaunchFails(m)
           \/ \E p \in procs : Exit(p) \/ Kill(p)
           \/ \E w \in Workers : WorkerFails(w)
  BY <1>1, <1>6 DEF EndJob, Launch, LaunchFails, Exit, Kill, WorkerFails, jobVars
<1>7. CASE ScaleUp \/ ScaleDown BY <1>1, <1>7 DEF ScaleUp, ScaleDown, jobVars
<1>8. CASE \/ \E f \in restarting, w \in Workers : RestartTask(f, w)
           \/ \E g \in scaling, w \in Workers : AddTaskToStage(g, w)
  BY <1>1, <1>8 DEF RestartTask, AddTaskToStage, jobVars
<1>9. ASSUME NEW g \in scaling, ForgetTask(g) PROVE CountInv'
  <2>1. UNCHANGED <<completed, completedIDs>> /\ scaling' \subseteq scaling
    BY <1>9 DEF ForgetTask, jobVars
  <2>. QED BY <1>1, <2>1
<1>10. CASE UNCHANGED vars BY <1>1, <1>10 DEF vars
<1>. QED BY <1>2, <1>3, <1>4, <1>5, <1>6, <1>7, <1>8, <1>9, <1>10 DEF Next, LeaderStep, WorkerStep

\* Nothing is completed at submission.
LEMMA InitCount == Init => CountInv
BY FS_EmptySet DEF Init, CountInv
----------------------------------------------------------------------------
\* The tasks of the submission loop whose message is not out.
NotSent == {unsent[i] : i \in 1..Len(unsent)} \ tracking
\* The messages of a type.
Of(type) == {m \in msgs : m.type = type}
\* A token stands for the next incarnation of a task: the task, its address, and where it is now.
Token(id, port, worker, kind, x) == <<id, <<id, port, worker>>, kind, x>>

\* Where a token can be: in the submission loop,
Waits == {Token(t.id, t.port, t.worker, "unsent", t) : t \in NotSent}
\* in a schedule_task message,
Orders == {Token(m.task.id, m.task.port, m.task.worker, "sent", m) : m \in Of("schedule_task")}
\* in a task_failed report,
Losses == {Token(m.proc.id, m.proc.port, m.proc.worker, "failed", m) : m \in Of("task_failed")}
\* between the two halves of HandleTaskFailure,
Restarts == {Token(f.id, f.port, f.vm, "restarting", f) : f \in restarting}
\* in a goroutine of addTaskToStage,
Additions == {Token(g.index, "added", "none", "adding", g) : g \in {h \in scaling : h.act = "add"}}
\* (these are the launches to come)
Pending == Waits \cup Orders \cup Losses \cup Restarts \cup Additions

\* in a process,
Runs == {Token(p.id, p.port, p.worker, "runs", p) : p \in procs}
\* or in a report of success.
Ends == {Token(m.proc.id, m.proc.port, m.proc.worker, "completed", m) : m \in Of("task_completed")}
\* All tokens.
Tokens == Pending \cup Runs \cup Ends

\* The kinds keep the sets apart.
LEMMA Kinds ==
  /\ \A x \in Waits : x[3] = "unsent"
  /\ \A x \in Orders : x[3] = "sent"
  /\ \A x \in Losses : x[3] = "failed"
  /\ \A x \in Restarts : x[3] = "restarting"
  /\ \A x \in Additions : x[3] = "adding"
  /\ \A x \in Runs : x[3] = "runs"
  /\ \A x \in Ends : x[3] = "completed"
BY DEF Waits, Orders, Losses, Restarts, Additions, Runs, Ends, Token

\* The submission loop hands a token to a message, or drops it.
LEMMA ScheduleNextTokens ==
  ASSUME Shapes, UnsentInv, ScheduleNext
  PROVE  /\ UNCHANGED <<Losses, Restarts, Additions, Runs, Ends>>
         /\ \/ Waits' \subseteq Waits /\ Orders' = Orders
            \/ \E x \in Waits : \E y : /\ y[1] = x[1] /\ y[2] = x[2]
                                       /\ Waits' \subseteq Waits \ {x} /\ Orders' \subseteq Orders \cup {y}
<1>. DEFINE h == Head(unsent)
<1>0. h = unsent[1] /\ 1 \in 1..Len(unsent) /\ h \notin tracking BY DEF ScheduleNext, Shapes
<1>1. UNCHANGED <<Restarts, Additions, Runs>>
  BY DEF ScheduleNext, Restarts, Additions, Runs, Token
<1>2. CASE msgs' = msgs \cup {Schedule(h, 0)} /\ tracking' = tracking \cup {h} /\ UNCHANGED unsent
  <2>. DEFINE x == Token(h.id, h.port, h.worker, "unsent", h)
              y == Token(h.id, h.port, h.worker, "sent", Schedule(h, 0))
  <2>1. UNCHANGED <<Losses, Ends>> BY <1>2 DEF Losses, Ends, Of, Schedule, Token
  <2>2. x \in Waits BY <1>0 DEF Waits, NotSent
  <2>3. Waits' \subseteq Waits \ {x} BY <1>2 DEF Waits, NotSent, Token
  <2>4. Orders' \subseteq Orders \cup {y} BY <1>2 DEF Orders, Of, Schedule, Token
  <2>5. y[1] = x[1] /\ y[2] = x[2] BY DEF Token
  <2>. QED BY <1>1, <2>1, <2>2, <2>3, <2>4, <2>5
<1>3. CASE unsent' = Tail(unsent) /\ UNCHANGED <<msgs, tracking>>
  <2>0. \A i \in 1..Len(unsent') : unsent'[i] = unsent[i + 1] /\ i + 1 \in 1..Len(unsent)
    BY <1>0, <1>3 DEF ScheduleNext, Shapes
  <2>1. NotSent' \subseteq NotSent BY <1>3, <2>0 DEF NotSent
  <2>2. Waits' \subseteq Waits BY <2>1 DEF Waits, Token
  <2>3. UNCHANGED <<Losses, Ends, Orders>> BY <1>3 DEF Losses, Ends, Orders, Of, Token
  <2>. QED BY <1>1, <2>2, <2>3
<1>. QED BY <1>2, <1>3 DEF ScheduleNext

\* The second half of sendScheduleTask makes no token.
LEMMA TrackTokens ==
  ASSUME Shapes, UnsentInv, NEW t \in tracking, Track(t)
  PROVE  UNCHANGED <<Orders, Losses, Restarts, Additions, Runs, Ends>> /\ Waits' \subseteq Waits
<1>1. UNCHANGED <<Orders, Losses, Restarts, Additions, Runs, Ends>>
  BY DEF Track, Orders, Losses, Restarts, Additions, Runs, Ends, Of, Token
<1>2. tracking' = tracking \ {t} BY DEF Track
<1>3. NotSent' \subseteq NotSent
  <2>1. CASE unsent # <<>> /\ t = Head(unsent) /\ unsent' = Tail(unsent)
    <3>1. Len(unsent') = Len(unsent) - 1 /\ Len(unsent) \in Nat /\ t = unsent[1] /\ 1 \in 1..Len(unsent)
      BY <2>1 DEF Shapes
    <3>2. \A i \in 1..Len(unsent') : unsent'[i] = unsent[i + 1] /\ i + 1 \in 1..Len(unsent)
      BY <2>1, <3>1 DEF Shapes
    <3>3. \A i \in 1..Len(unsent') : unsent'[i] # t
      BY <3>1, <3>2 DEF UnsentInv
    <3>. QED BY <1>2, <3>2, <3>3 DEF NotSent
  <2>2. CASE ~(unsent # <<>> /\ t = Head(unsent)) /\ unsent' = unsent
    <3>1. \A i \in 1..Len(unsent) : unsent[i] # t
      BY <2>2 DEF UnsentInv, Shapes
    <3>. QED BY <1>2, <2>2, <3>1 DEF NotSent
  <2>. QED BY <2>1, <2>2 DEF Track
<1>. QED BY <1>1, <1>3 DEF Waits, Token

\* A launch turns a message into a process of the same task and address.
LEMMA LaunchTokens ==
  ASSUME Shapes, NEW m \in msgs, Launch(m)
  PROVE  /\ UNCHANGED <<Waits, Losses, Restarts, Additions, Ends>>
         /\ \E x \in Orders : \E y : /\ y[1] = x[1] /\ y[2] = x[2] /\ Orders' \subseteq Orders \ {x}
                                      /\ Runs' \subseteq Runs \cup {y} /\ x[1] = m.task.id
<1>. DEFINE p == [id |-> m.task.id, port |-> m.task.port, worker |-> m.task.worker,
                  pid |-> launches[m.task.id] + 1]
            x == Token(m.task.id, m.task.port, m.task.worker, "sent", m)
            y == Token(p.id, p.port, p.worker, "runs", p)
<1>1. UNCHANGED <<Waits, Restarts, Additions>>
  BY DEF Launch, Waits, NotSent, Restarts, Additions, Token
<1>2. msgs' = (msgs \ {m}) \cup {Report("task_started", p)} /\ procs' = procs \cup {p}
      /\ m.type = "schedule_task"
  BY DEF Launch
<1>3. p.id = m.task.id /\ p.port = m.task.port /\ p.worker = m.task.worker OBVIOUS
<1>. HIDE DEF p
<1>4. UNCHANGED <<Losses, Ends>> BY <1>2 DEF Losses, Ends, Of, Report, Token
<1>5. Orders' \subseteq Orders \ {x} BY <1>2 DEF Orders, Of, Report, Token
<1>6. Runs' \subseteq Runs \cup {y} BY <1>2 DEF Runs, Token
<1>7. x \in Orders BY <1>2 DEF Orders, Of
<1>8. y[1] = x[1] /\ y[2] = x[2] /\ x[1] = m.task.id BY <1>3 DEF Token
<1>. QED BY <1>1, <1>4, <1>5, <1>6, <1>7, <1>8

\* A failed launch loses the token.
LEMMA LaunchFailsTokens ==
  ASSUME NEW m \in msgs, LaunchFails(m)
  PROVE  /\ UNCHANGED <<Waits, Losses, Restarts, Additions, Runs, Ends>>
         /\ Orders' \subseteq Orders
<1>1. UNCHANGED <<Waits, Restarts, Additions, Runs>>
  BY DEF LaunchFails, Waits, NotSent, Restarts, Additions, Runs, Token
<1>2. \E r : msgs' = (msgs \ {m}) \cup {Report("task_started", r)} \/ msgs' = msgs \ {m}
  BY DEF LaunchFails
<1>3. m.type = "schedule_task" BY DEF LaunchFails
<1>4. UNCHANGED <<Losses, Ends>> BY <1>2, <1>3 DEF Losses, Ends, Of, Report, Token
<1>5. Orders' \subseteq Orders BY <1>2 DEF Orders, Of, Report, Token
<1>. QED BY <1>1, <1>4, <1>5

\* A task that ends turns into its report,
LEMMA ExitTokens ==
  ASSUME NEW p \in procs, Exit(p)
  PROVE  /\ UNCHANGED <<Waits, Orders, Losses, Restarts, Additions>>
         /\ \E x \in Runs : \E y : /\ y[1] = x[1] /\ y[2] = x[2]
                                    /\ Runs' \subseteq Runs \ {x} /\ Ends' \subseteq Ends \cup {y}
<1>. DEFINE x == Token(p.id, p.port, p.worker, "runs", p)
            y == Token(p.id, p.port, p.worker, "completed", Report("task_completed", p))
<1>1. UNCHANGED <<Waits, Restarts, Additions>>
  BY DEF Exit, Waits, NotSent, Restarts, Additions, Token
<1>2. msgs' = msgs \cup {Report("task_completed", p)} /\ procs' = procs \ {p} BY DEF Exit
<1>3. UNCHANGED <<Losses, Orders>> BY <1>2 DEF Losses, Orders, Of, Report, Token
<1>4. Ends' \subseteq Ends \cup {y} BY <1>2 DEF Ends, Of, Report, Token
<1>5. Runs' \subseteq Runs \ {x} /\ x \in Runs BY <1>2 DEF Runs, Token
<1>6. y[1] = x[1] /\ y[2] = x[2] BY DEF Token
<1>. QED BY <1>1, <1>3, <1>4, <1>5, <1>6

\* and one that dies into the report that asks for its restart; the second report
\* of the same death is no token.
LEMMA KillTokens ==
  ASSUME NEW p \in procs, Kill(p)
  PROVE  /\ UNCHANGED <<Waits, Orders, Restarts, Additions, Ends>>
         /\ \E x \in Runs : \E y : /\ y[1] = x[1] /\ y[2] = x[2]
                                    /\ Runs' \subseteq Runs \ {x} /\ Losses' \subseteq Losses \cup {y}
<1>. DEFINE x == Token(p.id, p.port, p.worker, "runs", p)
            y == Token(p.id, p.port, p.worker, "failed", Report("task_failed", p))
<1>1. UNCHANGED <<Waits, Restarts, Additions>>
  BY DEF Kill, Waits, NotSent, Restarts, Additions, Token
<1>2. /\ msgs' = msgs \cup {Report("task_failed", p), Report("task_completed_failed", p)}
      /\ procs' = procs \ {p}
  BY DEF Kill
<1>3. UNCHANGED <<Ends, Orders>> BY <1>2 DEF Ends, Orders, Of, Report, Token
<1>4. Losses' \subseteq Losses \cup {y} BY <1>2 DEF Losses, Of, Report, Token
<1>5. Runs' \subseteq Runs \ {x} /\ x \in Runs BY <1>2 DEF Runs, Token
<1>6. y[1] = x[1] /\ y[2] = x[2] BY DEF Token
<1>. QED BY <1>1, <1>3, <1>4, <1>5, <1>6

\* HandleTaskFailure keeps the token or drops it; the port it goes on with is the
\* one AllTasks has by now.
LEMMA HandleTaskFailureTokens ==
  ASSUME Shapes, NEW m \in msgs, HandleTaskFailure(m)
  PROVE  /\ UNCHANGED <<Waits, Orders, Additions, Runs, Ends>>
         /\ \E x \in Losses : \E y :
              /\ y[1] = x[1] /\ Losses' \subseteq Losses \ {x} /\ Restarts' \subseteq Restarts \cup {y}
              /\ Restarts' = Restarts \/ (/\ x[1] \in DOMAIN allTasks
                                          /\ allTasks[x[1]].port = m.proc.port => y[2] = x[2])
<1>. DEFINE x == Token(m.proc.id, m.proc.port, m.proc.worker, "failed", m)
            f == [vm |-> m.proc.worker, pid |-> m.proc.pid,
                  id |-> m.proc.id, port |-> allTasks[m.proc.id].port]
            y == Token(f.id, f.port, f.vm, "restarting", f)
<1>1. UNCHANGED <<Waits, Additions, Runs>>
  BY DEF HandleTaskFailure, Waits, NotSent, Additions, Runs, Token
<1>2. msgs' = msgs \ {m} /\ m.type = "task_failed" BY DEF HandleTaskFailure
<1>3. restarting' = restarting \/ (restarting' = restarting \cup {f} /\ m.proc.id \in DOMAIN allTasks)
  BY DEF HandleTaskFailure
<1>4. f.id = m.proc.id /\ f.vm = m.proc.worker /\ f.port = allTasks[m.proc.id].port OBVIOUS
<1>. HIDE DEF f
<1>5. UNCHANGED <<Ends, Orders>> BY <1>2 DEF Ends, Orders, Of, Token
<1>6. Losses' \subseteq Losses \ {x} /\ x \in Losses BY <1>2 DEF Losses, Of, Token
<1>7. Restarts' \subseteq Restarts \cup {y} BY <1>3 DEF Restarts, Token
<1>8. Restarts' = Restarts \/ m.proc.id \in DOMAIN allTasks BY <1>3 DEF Restarts, Token
<1>9. y[1] = x[1] /\ x[1] = m.proc.id /\ (allTasks[m.proc.id].port = m.proc.port => y[2] = x[2])
  BY <1>4 DEF Token
<1>. QED BY <1>1, <1>5, <1>6, <1>7, <1>8, <1>9

\* A restart turns the failure into a message and moves the address in the routing
\* table along with it.
LEMMA RestartTaskTokens ==
  ASSUME Shapes, NEW f \in restarting, NEW w \in Workers, RestartTask(f, w)
  PROVE  /\ UNCHANGED <<Additions, Runs, Ends, Losses>> /\ Waits' \subseteq Waits
         /\ \E x \in Restarts : \E y :
              /\ y[1] = x[1] /\ Restarts' \subseteq Restarts \ {x} /\ Orders' \subseteq Orders \cup {y}
              /\ x[2] \in routing => routing' = (routing \ {x[2]}) \cup {y[2]}
              /\ x[1] = f.id /\ x[2][1] = f.id /\ y[2][1] = f.id
<1>. DEFINE t == NewTask(f.id, f.port, w)
            m == Schedule(t, f.pid)
            x == Token(f.id, f.port, f.vm, "restarting", f)
            y == Token(t.id, t.port, t.worker, "sent", m)
<1>1. UNCHANGED <<Additions, Runs>> BY DEF RestartTask, Additions, Runs, Token
<1>2. /\ msgs' = msgs \cup {m} /\ restarting' = restarting \ {f} /\ tracking' = tracking \cup {t}
      /\ routing' = Rerouted(<<f.id, f.port, f.vm>>, Address(t)) /\ unsent' = unsent
  BY DEF RestartTask
<1>3. m.type = "schedule_task" /\ m.task = t BY DEF Schedule
<1>4. t.id = f.id /\ t.port = f.port BY DEF NewTask
<1>. HIDE DEF m, t
<1>5. UNCHANGED <<Ends, Losses>> BY <1>2, <1>3 DEF Ends, Losses, Of, Token
<1>6. Waits' \subseteq Waits BY <1>2 DEF Waits, NotSent, Token
<1>7. Restarts' \subseteq Restarts \ {x} /\ x \in Restarts BY <1>2 DEF Restarts, Token
<1>8. Orders' \subseteq Orders \cup {y} BY <1>2, <1>3 DEF Orders, Of, Token
<1>9. /\ y[1] = x[1] /\ x[1] = f.id /\ x[2] = <<f.id, f.port, f.vm>> /\ y[2] = Address(t)
      /\ x[2][1] = f.id /\ y[2][1] = f.id
  BY <1>4 DEF Token, Address
<1>10. x[2] \in routing => routing' = (routing \ {x[2]}) \cup {y[2]} BY <1>2, <1>9 DEF Rerouted
<1>. QED BY <1>1, <1>5, <1>6, <1>7, <1>8, <1>9, <1>10

\* addTaskToStage turns its goroutine into a message.
LEMMA AddTaskTokens ==
  ASSUME Shapes, NEW g \in scaling, NEW w \in Workers, AddTaskToStage(g, w)
  PROVE  /\ UNCHANGED <<Restarts, Runs, Ends, Losses>> /\ Waits' \subseteq Waits
         /\ \E x \in Additions : \E y :
              /\ y[1] = x[1] /\ Additions' \subseteq Additions \ {x} /\ Orders' \subseteq Orders \cup {y}
<1>. DEFINE t == NewTask(g.index, "added", w)
            m == Schedule(t, g.nr)
            x == Token(g.index, "added", "none", "adding", g)
            y == Token(t.id, t.port, t.worker, "sent", m)
<1>1. UNCHANGED <<Restarts, Runs>> BY DEF AddTaskToStage, Restarts, Runs, Token
<1>2. /\ msgs' = msgs \cup {m} /\ scaling' = scaling \ {g} /\ tracking' = tracking \cup {t}
      /\ unsent' = unsent /\ g.act = "add"
  BY DEF AddTaskToStage
<1>3. m.type = "schedule_task" /\ m.task = t /\ t.id = g.index BY DEF Schedule, NewTask
<1>. HIDE DEF m, t
<1>5. UNCHANGED <<Ends, Losses>> BY <1>2, <1>3 DEF Ends, Losses, Of, Token
<1>6. Waits' \subseteq Waits BY <1>2 DEF Waits, NotSent, Token
<1>7. Additions' \subseteq Additions \ {x} /\ x \in Additions BY <1>2 DEF Additions, Token
<1>8. Orders' \subseteq Orders \cup {y} BY <1>2, <1>3 DEF Orders, Of, Token
<1>9. y[1] = x[1] BY <1>3 DEF Token
<1>. QED BY <1>1, <1>5, <1>6, <1>7, <1>8, <1>9

\* A scaling decision makes at most one token.
LEMMA ScaleTokens ==
  ASSUME Shapes, ScaleUp \/ ScaleDown
  PROVE  \E y : Pending' \subseteq Pending \cup {y}
<1>1. UNCHANGED <<Waits, Orders, Losses, Restarts>>
  BY DEF ScaleUp, ScaleDown, Waits, NotSent, Orders, Losses, Restarts, Of, Token
<1>2. PICK g : scaling' = scaling \cup {g} BY DEF ScaleUp, ScaleDown
<1>3. Additions' \subseteq Additions \cup {Token(g.index, "added", "none", "adding", g)}
  BY <1>2 DEF Additions, Token
<1>. QED BY <1>1, <1>3 DEF Pending

\* Removing a task makes none.
LEMMA RemoveTaskTokens ==
  ASSUME Shapes, CountInv, NEW g \in scaling, RemoveTaskFromStage(g) \/ ForgetTask(g)
  PROVE  UNCHANGED <<Waits, Orders, Losses, Restarts, Runs, Ends>> /\ Additions' \subseteq Additions
<1>0. g \in Goroutines BY DEF Shapes
<1>1. UNCHANGED <<unsent, tracking, restarting, msgs, procs>>
  <2>1. CASE RemoveTaskFromStage(g) BY <2>1 DEF RemoveTaskFromStage
  <2>2. CASE ForgetTask(g)
    <3>1. g.index \in completedIDs BY <2>2 DEF ForgetTask, CountInv
    <3>. QED BY <2>2, <3>1 DEF ForgetTask
  <2>. QED BY <2>1, <2>2
<1>2. \A h \in scaling' : h.act = "add" => h \in scaling
  BY <1>0 DEF RemoveTaskFromStage, ForgetTask, Goroutines
<1>3. UNCHANGED <<Waits, Orders, Losses, Restarts, Runs, Ends>>
  BY <1>1 DEF Waits, NotSent, Orders, Losses, Restarts, Runs, Ends, Of, Token
<1>. QED BY <1>2, <1>3 DEF Additions, Token

\* A handled completion ends its token; an unsuccessful one has none.
LEMMA HandleTaskCompletedTokens ==
  ASSUME NEW m \in msgs, HandleTaskCompleted(m)
  PROVE  /\ UNCHANGED <<Waits, Orders, Losses, Restarts, Additions, Runs>>
         /\ \/ m.type = "task_completed_failed" /\ UNCHANGED Ends
            \/ \E x \in Ends : x[1] = m.proc.id /\ Ends' \subseteq Ends \ {x}
<1>. DEFINE x == Token(m.proc.id, m.proc.port, m.proc.worker, "completed", m)
<1>1. UNCHANGED <<Waits, Restarts, Additions, Runs>>
  BY DEF HandleTaskCompleted, Waits, NotSent, Restarts, Additions, Runs, Token
<1>2. msgs' = msgs \ {m} /\ m.type \in {"task_completed", "task_completed_failed"}
  BY DEF HandleTaskCompleted
<1>3. UNCHANGED <<Orders, Losses>> BY <1>2 DEF Orders, Losses, Of, Token
<1>4. m.type = "task_completed_failed" => UNCHANGED Ends BY <1>2 DEF Ends, Of, Token
<1>5. m.type = "task_completed" => x \in Ends /\ x[1] = m.proc.id /\ Ends' \subseteq Ends \ {x}
  BY <1>2 DEF Ends, Of, Token
<1>. QED BY <1>1, <1>2, <1>3, <1>4, <1>5

\* The other steps make no token.
LEMMA OtherTokens ==
  ASSUME \/ \E m \in msgs : HandleTaskStarted(m)
         \/ \E e \in ending : EndJob(e)
         \/ \E w \in Workers : WorkerFails(w)
         \/ UNCHANGED vars
  PROVE  /\ UNCHANGED <<Waits, Restarts, Additions, Losses, Ends>>
         /\ Orders' \subseteq Orders /\ Runs' \subseteq Runs
<1>1. ASSUME NEW m \in msgs, HandleTaskStarted(m)
      PROVE  UNCHANGED <<Waits, Restarts, Additions, Losses, Ends, Orders, Runs>>
  <2>1. UNCHANGED <<unsent, tracking, restarting, scaling, procs>> /\ msgs' = msgs \ {m}
        /\ m.type = "task_started"
    BY <1>1 DEF HandleTaskStarted
  <2>. QED BY <2>1 DEF Waits, NotSent, Restarts, Additions, Losses, Ends, Orders, Runs, Of, Token
<1>2. ASSUME NEW w \in Workers, WorkerFails(w)
      PROVE  /\ UNCHANGED <<Waits, Restarts, Additions, Losses, Ends>>
             /\ Orders' \subseteq Orders /\ Runs' \subseteq Runs
  <2>1. UNCHANGED <<unsent, tracking, restarting, scaling>> /\ procs' \subseteq procs
        /\ msgs' = {m \in msgs : m.type = "schedule_task" => m.task.worker # w}
    BY <1>2 DEF WorkerFails
  <2>. QED BY <2>1 DEF Waits, NotSent, Restarts, Additions, Losses, Ends, Orders, Runs, Of, Token
<1>3. CASE UNCHANGED vars \/ \E e \in ending : EndJob(e)
  <2>1. UNCHANGED <<unsent, tracking, restarting, scaling, procs, msgs>> BY <1>3 DEF vars, EndJob
  <2>. QED BY <2>1 DEF Waits, NotSent, Restarts, Additions, Losses, Ends, Orders, Runs, Of, Token
<1>. QED BY <1>1, <1>2, <1>3

----------------------------------------------------------------------------
\* The launches to come of a task.
PendingOf(id) == {x \in Pending : x[1] = id}

\* Launches made and launches to come are paid for: one by the submission, one by
\* each kill and one by each scaling decision.
LaunchBound ==
  /\ IsFiniteSet(Pending)
  /\ \A id \in IDs : launches[id] + Cardinality(PendingOf(id)) <= 1 + kills + scales

\* Exchanging one element of a finite set for another does not enlarge it.
LEMMA CountPending ==
  ASSUME NEW S, IsFiniteSet(S), NEW T, NEW x, NEW y, T \subseteq (S \ {x}) \cup {y}
  PROVE  /\ IsFiniteSet(T) /\ Cardinality(T) \in Nat /\ Cardinality(S) \in Nat
         /\ Cardinality(T) <= Cardinality(S) + 1
         /\ x \in S => Cardinality(T) <= Cardinality(S)
<1>1. /\ IsFiniteSet(S \ {x}) /\ Cardinality(S \ {x}) \in Nat /\ Cardinality(S) \in Nat
      /\ Cardinality(S \ {x}) = IF x \in S THEN Cardinality(S) - 1 ELSE Cardinality(S)
  BY FS_RemoveElement, FS_CardinalityType
<1>2. /\ IsFiniteSet((S \ {x}) \cup {y})
      /\ Cardinality((S \ {x}) \cup {y}) =
           IF y \in S \ {x} THEN Cardinality(S \ {x}) ELSE Cardinality(S \ {x}) + 1
  BY <1>1, FS_AddElement
<1>3. IsFiniteSet(T) /\ Cardinality(T) <= Cardinality((S \ {x}) \cup {y}) BY <1>2, FS_Subset
<1>4. Cardinality(T) \in Nat BY <1>3, FS_CardinalityType
<1>. QED BY <1>1, <1>2, <1>3, <1>4

\* LaunchBound survives a step that only loses tokens,
LEMMA BoundShrinks ==
  ASSUME Shapes, LaunchBound, Pending' \subseteq Pending, UNCHANGED <<launches, scales>>,
         kills' = kills
  PROVE  LaunchBound'
<1>1. IsFiniteSet(Pending') BY FS_Subset DEF LaunchBound
<1>2. ASSUME NEW id \in IDs
      PROVE  launches'[id] + Cardinality(PendingOf(id)') <= 1 + kills' + scales'
  <2>1. PendingOf(id)' \subseteq PendingOf(id) /\ PendingOf(id) \subseteq Pending BY DEF PendingOf
  <2>2. IsFiniteSet(PendingOf(id)) BY <2>1, FS_Subset DEF LaunchBound
  <2>3. /\ Cardinality(PendingOf(id)') <= Cardinality(PendingOf(id))
        /\ Cardinality(PendingOf(id)') \in Nat /\ Cardinality(PendingOf(id)) \in Nat
    BY <2>1, <2>2, FS_Subset, FS_CardinalityType
  <2>4. launches[id] \in Nat /\ kills \in Nat /\ scales \in Nat BY DEF Shapes
  <2>5. launches[id] + Cardinality(PendingOf(id)) <= 1 + kills + scales BY DEF LaunchBound
  <2>. QED BY <2>3, <2>4, <2>5
<1>. QED BY <1>1, <1>2 DEF LaunchBound

\* one that moves a token,
LEMMA BoundMoves ==
  ASSUME Shapes, LaunchBound, NEW x \in Pending, NEW y, y[1] = x[1],
         Pending' \subseteq (Pending \ {x}) \cup {y}, UNCHANGED <<launches, kills, scales>>
  PROVE  LaunchBound'
<1>1. IsFiniteSet(Pending') BY CountPending DEF LaunchBound
<1>2. ASSUME NEW id \in IDs
      PROVE  launches'[id] + Cardinality(PendingOf(id)') <= 1 + kills' + scales'
  <2>1. PendingOf(id) \subseteq Pending BY DEF PendingOf
  <2>2. IsFiniteSet(PendingOf(id)) BY <2>1, FS_Subset DEF LaunchBound
  <2>3. /\ Cardinality(PendingOf(id)') <= Cardinality(PendingOf(id))
        /\ Cardinality(PendingOf(id)') \in Nat /\ Cardinality(PendingOf(id)) \in Nat
    <3>1. CASE id = x[1]
      <4>1. PendingOf(id)' \subseteq (PendingOf(id) \ {x}) \cup {y} /\ x \in PendingOf(id)
        BY <3>1 DEF PendingOf
      <4>. QED BY <2>2, <4>1, CountPending
    <3>2. CASE id # x[1]
      <4>1. PendingOf(id)' \subseteq PendingOf(id) BY <3>2 DEF PendingOf
      <4>. QED BY <2>2, <4>1, FS_Subset, FS_CardinalityType
    <3>. QED BY <3>1, <3>2
  <2>4. launches[id] \in Nat /\ kills \in Nat /\ scales \in Nat BY DEF Shapes
  <2>5. launches[id] + Cardinality(PendingOf(id)) <= 1 + kills + scales BY DEF LaunchBound
  <2>. QED BY <2>3, <2>4, <2>5
<1>. QED BY <1>1, <1>2 DEF LaunchBound

\* one that makes a launch of a token,
LEMMA BoundLaunches ==
  ASSUME Shapes, LaunchBound, NEW x \in Pending, x[1] \in IDs, Pending' \subseteq Pending \ {x},
         launches' = [launches EXCEPT ![x[1]] = @ + 1], UNCHANGED <<kills, scales>>
  PROVE  LaunchBound'
<1>1. IsFiniteSet(Pending') BY FS_Subset DEF LaunchBound
<1>2. ASSUME NEW id \in IDs
      PROVE  launches'[id] + Cardinality(PendingOf(id)') <= 1 + kills' + scales'
  <2>1. PendingOf(id) \subseteq Pending BY DEF PendingOf
  <2>2. IsFiniteSet(PendingOf(id)) /\ Cardinality(PendingOf(id)) \in Nat
    BY <2>1, FS_Subset, FS_CardinalityType DEF LaunchBound
  <2>4. launches[id] \in Nat /\ kills \in Nat /\ scales \in Nat BY DEF Shapes
  <2>5. launches[id] + Cardinality(PendingOf(id)) <= 1 + kills + scales BY DEF LaunchBound
  <2>6. CASE id = x[1]
    <3>1. PendingOf(id)' \subseteq PendingOf(id) \ {x} /\ x \in PendingOf(id)
      BY <2>6 DEF PendingOf
    <3>2. /\ IsFiniteSet(PendingOf(id) \ {x})
          /\ Cardinality(PendingOf(id) \ {x}) = Cardinality(PendingOf(id)) - 1
      BY <2>2, <3>1, FS_RemoveElement
    <3>3. /\ Cardinality(PendingOf(id)') <= Cardinality(PendingOf(id) \ {x})
          /\ Cardinality(PendingOf(id)') \in Nat
      BY <3>1, <3>2, FS_Subset, FS_CardinalityType
    <3>4. launches'[id] = launches[id] + 1 BY <2>6 DEF Shapes
    <3>. QED BY <2>2, <2>4, <2>5, <3>2, <3>3, <3>4
  <2>7. CASE id # x[1]
    <3>1. PendingOf(id)' \subseteq PendingOf(id) BY DEF PendingOf
    <3>2. /\ Cardinality(PendingOf(id)') <= Cardinality(PendingOf(id))
          /\ Cardinality(PendingOf(id)') \in Nat
      BY <2>2, <3>1, FS_Subset, FS_CardinalityType
    <3>3. launches'[id] = launches[id] BY <2>7 DEF Shapes
    <3>. QED BY <2>2, <2>4, <2>5, <3>2, <3>3
  <2>. QED BY <2>6, <2>7
<1>. QED BY <1>1, <1>2 DEF LaunchBound

\* and one that makes a token and pays for it.
LEMMA BoundGrows ==
  ASSUME Shapes, LaunchBound, NEW y, Pending' \subseteq Pending \cup {y}, UNCHANGED launches,
         kills' + scales' = kills + scales + 1, kills' \in Nat, scales' \in Nat
  PROVE  LaunchBound'
<1>1. IsFiniteSet(Pending \cup {y}) BY FS_AddElement DEF LaunchBound
<1>2. IsFiniteSet(Pending') BY <1>1, FS_Subset
<1>3. ASSUME NEW id \in IDs
      PROVE  launches'[id] + Cardinality(PendingOf(id)') <= 1 + kills' + scales'
  <2>1. PendingOf(id) \subseteq Pending /\ PendingOf(id)' \subseteq PendingOf(id) \cup {y}
    BY DEF PendingOf
  <2>2. IsFiniteSet(PendingOf(id)) /\ Cardinality(PendingOf(id)) \in Nat
    BY <2>1, FS_Subset, FS_CardinalityType DEF LaunchBound
  <2>3. PendingOf(id)' \subseteq (PendingOf(id) \ {y}) \cup {y} BY <2>1
  <2>4. /\ Cardinality(PendingOf(id)') <= Cardinality(PendingOf(id)) + 1
        /\ Cardinality(PendingOf(id)') \in Nat
    BY <2>2, <2>3, CountPending
  <2>5. launches[id] \in Nat /\ kills \in Nat /\ scales \in Nat /\ launches'[id] = launches[id]
    BY DEF Shapes
  <2>6. launches[id] + Cardinality(PendingOf(id)) <= 1 + kills + scales BY DEF LaunchBound
  <2>7. launches[id] + Cardinality(PendingOf(id)') <= 1 + (kills + scales + 1)
    BY <2>2, <2>4, <2>5, <2>6
  <2>8. 1 + (kills' + scales') = 1 + kills' + scales' OBVIOUS
  <2>. QED BY <2>5, <2>7, <2>8
<1>. QED BY <1>2, <1>3 DEF LaunchBound

\* Every step keeps LaunchBound.
LEMMA NextBound ==
  Shapes /\ Shapes' /\ UnsentInv /\ CountInv /\ LaunchBound /\ [Next]_vars => LaunchBound'
<1>. SUFFICES ASSUME Shapes, Shapes', UnsentInv, CountInv, LaunchBound, [Next]_vars
              PROVE  LaunchBound'
  OBVIOUS
<1>1. CASE ScheduleNext
  <2>1. UNCHANGED <<launches, kills, scales>> BY <1>1 DEF ScheduleNext, history
  <2>2. CASE Waits' \subseteq Waits /\ Orders' = Orders
    BY <1>1, <2>1, <2>2, ScheduleNextTokens, BoundShrinks DEF Pending
  <2>3. ASSUME NEW x \in Waits, NEW y, y[1] = x[1], Waits' \subseteq Waits \ {x},
               Orders' \subseteq Orders \cup {y}
        PROVE  LaunchBound'
    <3>1. x \in Pending /\ Pending' \subseteq (Pending \ {x}) \cup {y}
      BY <1>1, <2>3, ScheduleNextTokens, Kinds DEF Pending
    <3>. QED BY <2>1, <2>3, <3>1, BoundMoves
  <2>. QED BY <1>1, <2>2, <2>3, ScheduleNextTokens
<1>2. ASSUME NEW t \in tracking, Track(t) PROVE LaunchBound'
  <2>1. UNCHANGED <<launches, kills, scales>> BY <1>2 DEF Track, history
  <2>. QED BY <1>2, <2>1, TrackTokens, BoundShrinks DEF Pending
<1>3. ASSUME NEW m \in msgs, Launch(m) PROVE LaunchBound'
  <2>1. UNCHANGED <<kills, scales>> BY <1>3 DEF Launch, history
  <2>2. m.task.id \in IDs BY <1>3 DEF Launch, Shapes, Messages, Reports, Tasks
  <2>3. PICK x \in Orders : Orders' \subseteq Orders \ {x} /\ x[1] = m.task.id
    BY <1>3, LaunchTokens
  <2>4. x \in Pending /\ Pending' \subseteq Pending \ {x} BY <1>3, <2>3, LaunchTokens, Kinds DEF Pending
  <2>5. launches' = [launches EXCEPT ![x[1]] = @ + 1] BY <1>3, <2>3 DEF Launch
  <2>. QED BY <2>1, <2>2, <2>3, <2>4, <2>5, BoundLaunches
<1>4. ASSUME NEW m \in msgs, LaunchFails(m) PROVE LaunchBound'
  <2>1. UNCHANGED <<launches, kills, scales>> BY <1>4 DEF LaunchFails
  <2>. QED BY <1>4, <2>1, LaunchFailsTokens, BoundShrinks DEF Pending
<1>5. ASSUME NEW p \in procs, Exit(p) PROVE LaunchBound'
  <2>1. UNCHANGED <<launches, kills, scales>> BY <1>5 DEF Exit, history
  <2>2. Pending' \subseteq Pending BY <1>5, ExitTokens DEF Pending
  <2>. QED BY <2>1, <2>2, BoundShrinks
<1>6. ASSUME NEW p \in procs, Kill(p) PROVE LaunchBound'
  <2>1. UNCHANGED <<launches, scales>> /\ kills' = kills + 1 BY <1>6 DEF Kill
  <2>2. kills' + scales' = kills + scales + 1 /\ kills' \in Nat /\ scales' \in Nat BY <2>1 DEF Shapes
  <2>3. PICK y : Losses' \subseteq Losses \cup {y} BY <1>6, KillTokens
  <2>4. Pending' \subseteq Pending \cup {y} BY <1>6, <2>3, KillTokens DEF Pending
  <2>. QED BY <2>1, <2>2, <2>4, BoundGrows
<1>7. ASSUME NEW m \in msgs, HandleTaskFailure(m) PROVE LaunchBound'
  <2>1. UNCHANGED <<launches, kills, scales>> BY <1>7 DEF HandleTaskFailure, history
  <2>2. PICK x, y : /\ x \in Losses /\ y[1] = x[1] /\ Losses' \subseteq Losses \ {x}
                    /\ Restarts' \subseteq Restarts \cup {y}
    BY <1>7, HandleTaskFailureTokens
  <2>3. x \in Pending /\ Pending' \subseteq (Pending \ {x}) \cup {y}
    BY <1>7, <2>2, HandleTaskFailureTokens, Kinds DEF Pending
  <2>. QED BY <2>1, <2>2, <2>3, BoundMoves
<1>8. ASSUME NEW f \in restarting, NEW w \in Workers, RestartTask(f, w) PROVE LaunchBound'
  <2>1. UNCHANGED <<launches, kills, scales>> BY <1>8 DEF RestartTask, history
  <2>2. PICK x, y : /\ x \in Restarts /\ y[1] = x[1] /\ Restarts' \subseteq Restarts \ {x}
                    /\ Orders' \subseteq Orders \cup {y}
    BY <1>8, RestartTaskTokens
  <2>3. x \in Pending /\ Pending' \subseteq (Pending \ {x}) \cup {y}
    BY <1>8, <2>2, RestartTaskTokens, Kinds DEF Pending
  <2>. QED BY <2>1, <2>2, <2>3, BoundMoves
<1>9. ASSUME NEW g \in scaling, NEW w \in Workers, AddTaskToStage(g, w) PROVE LaunchBound'
  <2>1. UNCHANGED <<launches, kills, scales>> BY <1>9 DEF AddTaskToStage, history
  <2>2. PICK x, y : /\ x \in Additions /\ y[1] = x[1] /\ Additions' \subseteq Additions \ {x}
                    /\ Orders' \subseteq Orders \cup {y}
    BY <1>9, AddTaskTokens
  <2>3. x \in Pending /\ Pending' \subseteq (Pending \ {x}) \cup {y}
    BY <1>9, <2>2, AddTaskTokens, Kinds DEF Pending
  <2>. QED BY <2>1, <2>2, <2>3, BoundMoves
<1>10. CASE ScaleUp \/ ScaleDown
  <2>1. UNCHANGED <<launches, kills>> /\ scales' = scales + 1 BY <1>10 DEF ScaleUp, ScaleDown
  <2>2. kills' + scales' = kills + scales + 1 /\ kills' \in Nat /\ scales' \in Nat BY <2>1, SMTT(30) DEF Shapes
  <2>. QED BY <1>10, <2>1, <2>2, ScaleTokens, BoundGrows
<1>11. ASSUME NEW g \in scaling, RemoveTaskFromStage(g) \/ ForgetTask(g) PROVE LaunchBound'
  <2>1. UNCHANGED <<launches, kills, scales>> BY <1>11 DEF RemoveTaskFromStage, ForgetTask, history
  <2>2. Pending' \subseteq Pending BY <1>11, RemoveTaskTokens DEF Pending
  <2>. QED BY <2>1, <2>2, BoundShrinks
<1>12. ASSUME NEW m \in msgs, HandleTaskCompleted(m) PROVE LaunchBound'
  <2>1. UNCHANGED <<launches, kills, scales>> BY <1>12 DEF HandleTaskCompleted, history
  <2>2. Pending' \subseteq Pending BY <1>12, HandleTaskCompletedTokens DEF Pending
  <2>. QED BY <2>1, <2>2, BoundShrinks
<1>13. CASE \/ \E m \in msgs : HandleTaskStarted(m)
            \/ \E e \in ending : EndJob(e)
            \/ \E w \in Workers : WorkerFails(w)
            \/ UNCHANGED vars
  <2>1. UNCHANGED <<launches, kills, scales>>
    BY <1>13 DEF HandleTaskStarted, EndJob, WorkerFails, vars, history
  <2>2. Pending' \subseteq Pending BY <1>13, OtherTokens DEF Pending
  <2>. QED BY <2>1, <2>2, BoundShrinks
<1>. QED BY <1>1, <1>2, <1>3, <1>4, <1>5, <1>6, <1>7, <1>8, <1>9, <1>10, <1>11, <1>12, <1>13
         DEF Next, LeaderStep, WorkerStep

\* At submission every token is in the loop.
LEMMA InitPending ==
  ASSUME Init
  PROVE  /\ Tokens = Pending /\ Pending = Waits
         /\ Waits = {Token(unsent[i].id, unsent[i].port, unsent[i].worker, "unsent", unsent[i]) :
                       i \in 1..OriginalTaskCount}
<1>1. msgs = {} /\ restarting = {} /\ scaling = {} /\ procs = {} /\ tracking = {} BY DEF Init
<1>2. Len(unsent) = OriginalTaskCount BY Submitted
<1>. QED BY <1>1, <1>2
         DEF Tokens, Pending, Waits, Orders, Losses, Restarts, Additions, Runs, Ends, Of, NotSent

\* At submission every task has one launch to come.
LEMMA InitBound == Init => LaunchBound
<1>. SUFFICES ASSUME Init PROVE LaunchBound OBVIOUS
<1>. DEFINE n == OriginalTaskCount
            T(i) == Token(unsent[i].id, unsent[i].port, unsent[i].worker, "unsent", unsent[i])
            f == [i \in 1..n |-> T(i)]
<1>1. Pending = {T(i) : i \in 1..n} BY InitPending
<1>2. n \in Nat BY IDsFinite
<1>3. IsFiniteSet(1..n) BY <1>2, FS_Interval
<1>4. \A i \in 1..n : T(i)[1] = unsent[i].id BY DEF Token
<1>. HIDE DEF T
<1>5. f \in Surjection(1..n, Pending) BY <1>1 DEF Surjection
<1>6. IsFiniteSet(Pending) BY <1>3, <1>5, FS_Surjection
<1>7. kills = 0 /\ scales = 0 /\ \A id \in IDs : launches[id] = 0 BY DEF Init
<1>8. ASSUME NEW id \in IDs PROVE launches[id] + Cardinality(PendingOf(id)) <= 1 + kills + scales
  <2>1. \E x : PendingOf(id) \subseteq {x}
    <3>1. CASE \E i \in 1..n : unsent[i].id = id
      <4>1. PICK i \in 1..n : unsent[i].id = id BY <3>1
      <4>2. PendingOf(id) \subseteq {T(i)} BY <1>1, <1>4, <4>1, Submitted DEF PendingOf
      <4>. QED BY <4>2
    <3>2. CASE ~\E i \in 1..n : unsent[i].id = id BY <1>1, <1>4, <3>2 DEF PendingOf
    <3>. QED BY <3>1, <3>2
  <2>2. PICK x : PendingOf(id) \subseteq {x} BY <2>1
  <2>3. IsFiniteSet({x}) /\ Cardinality({x}) = 1 BY FS_Singleton
  <2>4. Cardinality(PendingOf(id)) <= 1 /\ Cardinality(PendingOf(id)) \in Nat
    BY <2>2, <2>3, FS_Subset, FS_CardinalityType
  <2>. QED BY <1>7, <2>4
<1>. QED BY <1>6, <1>8 DEF LaunchBound

\* Type correctness of the leader, autoscaling, kills and worker deaths included.
\* That pids fit their bound says that a task is launched once at submission and
\* once more for every kill and every scaling decision, whatever is in flight.
THEOREM TypeCorrect == Spec => []TypeOK
<1>. DEFINE I == Shapes /\ UnsentInv /\ PidInv /\ CountInv /\ LaunchBound
<1>1. Init => I BY InitShapes, InitUnsent, InitPids, InitCount, InitBound
<1>2. I /\ [Next]_vars => I' BY NextShapes, NextUnsent, NextPids, NextCount, NextBound
<1>3. I => TypeOK
  <2>. SUFFICES ASSUME I PROVE TypeOK OBVIOUS
  <2>1. \A id \in IDs : launches[id] \in 0..MaxLaunches
    <3>. SUFFICES ASSUME NEW id \in IDs PROVE launches[id] \in 0..MaxLaunches OBVIOUS
    <3>1. PendingOf(id) \subseteq Pending BY DEF PendingOf
    <3>2. Cardinality(PendingOf(id)) \in Nat BY <3>1, FS_Subset, FS_CardinalityType DEF LaunchBound
    <3>3. launches[id] + Cardinality(PendingOf(id)) <= 1 + kills + scales BY DEF LaunchBound
    <3>4. launches[id] \in Nat /\ kills \in Nat /\ kills <= MaxKills /\ scales \in 0..MaxScales
      BY DEF Shapes
    <3>. QED BY <3>2, <3>3, <3>4, CountsAssumption DEF MaxLaunches
  <2>2. launches \in [IDs -> 0..MaxLaunches] BY <2>1 DEF Shapes
  <2>3. MaxLaunches \in Nat BY CountsAssumption DEF MaxLaunches
  <2>4. ASSUME NEW id \in DOMAIN allTasks
        PROVE  allTasks[id] \in [port : {"base", "added"}, worker : Workers, pid : 0..MaxLaunches,
                                 state : {"Idle", "Running", "Failed", "Completed"}]
    <3>1. allTasks[id] \in Entries /\ id \in IDs BY DEF Shapes
    <3>2. allTasks[id].pid \in 0..MaxLaunches BY <2>1, <2>3, <3>1 DEF PidInv, Entries
    <3>. QED BY <3>1, <3>2 DEF Entries, Ports
  <2>5. ending \subseteq IDs \X (1..MaxLaunches) BY <2>1, <2>3 DEF Shapes, PidInv
  <2>6. stageCount \in 0..(NumTasks + MaxScales) BY CountsAssumption DEF Shapes
  <2>. QED BY <2>2, <2>4, <2>5, <2>6 DEF Shapes, CountInv, TypeOK, Ports
<1>. QED BY <1>1, <1>2, <1>3, PTL DEF Spec

----------------------------------------------------------------------------
\* Before the first scaling decision: the ports are those of the submission, and a
\* job that ends, or is about to, has counted as many completions as it has tasks.
Unscaled ==
  /\ scaling = {} /\ expected = OriginalTaskCount
  /\ \A id \in DOMAIN allTasks : allTasks[id].port = "base"
  /\ \A t \in tracking : t.port = "base"
  /\ \A f \in restarting : f.port = "base"
  /\ \A p \in procs : p.port = "base"
  /\ \A m \in msgs : IF m.type = "schedule_task" THEN m.task.port = "base" ELSE m.proc.port = "base"
  /\ ending # {} \/ jobEnded => completed >= expected

\* A task has one token, and the routing table has its address.
OneToken ==
  /\ \A x, y \in Tokens : x[1] = y[1] => x = y
  /\ \A x \in Tokens : x[2] \in routing

\* If nothing was killed either, only the original tasks complete, and a task with
\* a token has not: the two reports of one death cannot be there.
Undisturbed ==
  /\ Of("task_completed_failed") = {}
  /\ \A x \in Tokens : x[1] \in Original \ completedIDs
  /\ completedIDs \subseteq Original

\* The inductive invariant of a job up to its first scaling decision.
FirstInv == scales = 0 => Unscaled /\ OneToken /\ (kills = 0 => Undisturbed)

\* A token's address is an address of its task.
LEMMA TokenAddress == \A x \in Tokens : x[2][1] = x[1]
BY DEF Tokens, Pending, Waits, Orders, Losses, Restarts, Additions, Runs, Ends, Token

\* Scaling decisions are not taken back.
LEMMA NeverScaled ==
  ASSUME Shapes, [Next]_vars, scales' = 0 PROVE scales = 0 /\ ~ScaleUp /\ ~ScaleDown
<1>1. scales \in Nat BY DEF Shapes
<1>2. ~ScaleUp /\ ~ScaleDown BY <1>1 DEF ScaleUp, ScaleDown
<1>3. ASSUME NEW g \in scaling, NEW w \in Workers, AddTaskToStage(g, w) PROVE scales' = scales
  BY <1>3 DEF AddTaskToStage, history
<1>4. ASSUME NEW g \in scaling, RemoveTaskFromStage(g) \/ ForgetTask(g) PROVE scales' = scales
  BY <1>4 DEF RemoveTaskFromStage, ForgetTask, history
<1>5. ASSUME NEW f \in restarting, NEW w \in Workers, RestartTask(f, w) PROVE scales' = scales
  BY <1>5 DEF RestartTask, history
<1>. QED BY <1>2, <1>3, <1>4, <1>5, RoutingFrame DEF Next, LeaderStep, WorkerStep

\* Unscaled survives every step that is no scaling decision.
LEMMA NextUnscaled ==
  ASSUME Shapes, UnsentInv, CountInv, Unscaled, [Next]_vars, scales' = 0
  PROVE  Unscaled'
<1>0. completed \in Nat BY IDsFinite, FS_Subset, FS_CardinalityType DEF Shapes, CountInv
<1>1. ASSUME NEW t \in tracking, Track(t) PROVE Unscaled'
  BY <1>1 DEF Track, Unscaled, With, Entry, jobVars
<1>2. CASE ScheduleNext
  <2>1. Head(unsent).port = "base" BY <1>2, SMTT(30) DEF ScheduleNext, UnsentInv, Shapes
  <2>2. Schedule(Head(unsent), 0).type = "schedule_task" /\ Schedule(Head(unsent), 0).task = Head(unsent)
    BY DEF Schedule
  <2>3. UNCHANGED <<scaling, expected, allTasks, restarting, procs, ending, jobEnded, completed>>
    BY <1>2 DEF ScheduleNext, jobVars
  <2>4. /\ \A t \in tracking' : t.port = "base"
        /\ \A m \in msgs' : IF m.type = "schedule_task" THEN m.task.port = "base"
                                                         ELSE m.proc.port = "base"
    BY <1>2, <2>1, <2>2 DEF ScheduleNext, Unscaled
  <2>. QED BY <2>3, <2>4 DEF Unscaled
<1>3. ASSUME NEW m \in msgs, HandleTaskStarted(m) PROVE Unscaled'
  <2>1. /\ UNCHANGED <<scaling, expected, restarting, procs, ending, jobEnded, completed, tracking>>
        /\ msgs' \subseteq msgs
    BY <1>3 DEF HandleTaskStarted, jobVars
  <2>2. \A id \in DOMAIN allTasks' : allTasks'[id].port = "base" BY <1>3, StartedFields DEF Unscaled
  <2>. QED BY <2>1, <2>2 DEF Unscaled
<1>4. ASSUME NEW m \in msgs, HandleTaskCompleted(m) PROVE Unscaled'
  <2>1. /\ UNCHANGED <<scaling, expected, restarting, procs, jobEnded, tracking>>
        /\ msgs' \subseteq msgs /\ completed' = CompletedAfter(m.proc.id)
        /\ ending' # {} => ending # {} \/ completed' >= expected
    BY <1>4 DEF HandleTaskCompleted, AllDone
  <2>2. \A id \in DOMAIN allTasks' : allTasks'[id].port = "base" BY <1>4, EndedFields DEF Unscaled
  <2>3. completed' >= completed /\ completed' \in Nat BY <1>0, <2>1 DEF CompletedAfter
  <2>4. expected \in Nat BY DEF Shapes
  <2>5. ending' # {} \/ jobEnded' => completed' >= expected'
    BY <1>0, <2>1, <2>3, <2>4 DEF Unscaled
  <2>. QED BY <2>1, <2>2, <2>5 DEF Unscaled
<1>5. ASSUME NEW m \in msgs, HandleTaskFailure(m) PROVE Unscaled'
  <2>1. /\ UNCHANGED <<scaling, expected, procs, ending, jobEnded, completed, tracking>>
        /\ msgs' \subseteq msgs
    BY <1>5 DEF HandleTaskFailure, jobVars
  <2>2. \A id \in DOMAIN allTasks' : allTasks'[id].port = "base" BY <1>5, EndedFields DEF Unscaled
  <2>3. \A f \in restarting' : f.port = "base"
    <3>1. CASE restarting' = restarting BY <3>1 DEF Unscaled
    <3>2. CASE /\ m.proc.id \in DOMAIN allTasks
               /\ restarting' = restarting \cup {[vm |-> m.proc.worker, pid |-> m.proc.pid,
                                        id |-> m.proc.id, port |-> allTasks[m.proc.id].port]}
      BY <3>2 DEF Unscaled
    <3>. QED BY <1>5, <3>1, <3>2 DEF HandleTaskFailure
  <2>. QED BY <2>1, <2>2, <2>3 DEF Unscaled
<1>6. ASSUME NEW f \in restarting, NEW w \in Workers, RestartTask(f, w) PROVE Unscaled'
  <2>. DEFINE t == NewTask(f.id, f.port, w)
              m == Schedule(t, f.pid)
  <2>1. t.port = "base" /\ m.type = "schedule_task" /\ m.task = t BY DEF NewTask, Schedule, Unscaled
  <2>2. /\ msgs' = msgs \cup {m} /\ tracking' = tracking \cup {t} /\ restarting' \subseteq restarting
        /\ allTasks' = With(f.id, Entry(t, 0, "Idle"))
        /\ UNCHANGED <<scaling, expected, procs, ending, jobEnded, completed>>
    BY <1>6 DEF RestartTask, jobVars
  <2>. HIDE DEF m, t
  <2>3. \A id \in DOMAIN allTasks' : allTasks'[id].port = "base"
    BY <2>1, <2>2 DEF Unscaled, With, Entry
  <2>. QED BY <2>1, <2>2, <2>3 DEF Unscaled
<1>7. ASSUME NEW p \in procs, Exit(p) \/ Kill(p) PROVE Unscaled'
  <2>1. /\ UNCHANGED <<scaling, expected, allTasks, restarting, ending, jobEnded, completed, tracking>>
        /\ procs' \subseteq procs
    BY <1>7 DEF Exit, Kill, jobVars
  <2>2. \A m \in msgs' : m \in msgs \/ (m.type # "schedule_task" /\ m.proc = p)
    BY <1>7 DEF Exit, Kill, Report
  <2>. QED BY <2>1, <2>2 DEF Unscaled
<1>8. ASSUME NEW m \in msgs, Launch(m) PROVE Unscaled'
  <2>. DEFINE p == [id |-> m.task.id, port |-> m.task.port, worker |-> m.task.worker,
                    pid |-> launches[m.task.id] + 1]
  <2>1. p.port = "base" BY <1>8 DEF Launch, Unscaled
  <2>2. /\ UNCHANGED <<scaling, expected, allTasks, restarting, ending, jobEnded, completed, tracking>>
        /\ procs' = procs \cup {p} /\ msgs' = (msgs \ {m}) \cup {Report("task_started", p)}
    BY <1>8 DEF Launch, jobVars
  <2>. HIDE DEF p
  <2>3. \A n \in msgs' : n \in msgs \/ (n.type # "schedule_task" /\ n.proc = p) BY <2>2 DEF Report
  <2>. QED BY <2>1, <2>2, <2>3 DEF Unscaled
<1>9. ASSUME NEW m \in msgs, LaunchFails(m) PROVE Unscaled'
  <2>1. UNCHANGED <<scaling, expected, allTasks, restarting, procs, ending, jobEnded, completed, tracking>>
    BY <1>9 DEF LaunchFails, jobVars
  <2>2. \A n \in msgs' : n \in msgs \/ (n.type # "schedule_task" /\ n.proc.port = m.task.port)
    BY <1>9 DEF LaunchFails, Report
  <2>3. m.task.port = "base" BY <1>9 DEF LaunchFails, Unscaled
  <2>. QED BY <2>1, <2>2, <2>3 DEF Unscaled
<1>10. ASSUME NEW w \in Workers, WorkerFails(w) PROVE Unscaled'
  <2>1. /\ UNCHANGED <<scaling, expected, allTasks, restarting, ending, jobEnded, completed, tracking>>
        /\ procs' \subseteq procs /\ msgs' \subseteq msgs
    BY <1>10 DEF WorkerFails, jobVars
  <2>. QED BY <2>1 DEF Unscaled
<1>11. ASSUME NEW e \in ending, EndJob(e) PROVE Unscaled'
  <2>1. UNCHANGED <<scaling, expected, allTasks, restarting, completed, tracking, procs, msgs>>
    BY <1>11 DEF EndJob, jobVars
  <2>2. ending # {} BY <1>11
  <2>. QED BY <2>1, <2>2 DEF Unscaled
<1>12. ~\E g \in scaling : \/ \E w \in Workers : AddTaskToStage(g, w)
                           \/ RemoveTaskFromStage(g) \/ ForgetTask(g)
  BY DEF Unscaled
<1>13. CASE UNCHANGED vars BY <1>13 DEF vars, Unscaled
<1>. QED BY <1>1, <1>2, <1>3, <1>4, <1>5, <1>6, <1>7, <1>8, <1>9, <1>10, <1>11, <1>12, <1>13,
            NeverScaled DEF Next, LeaderStep, WorkerStep

\* Up to the first scaling decision a step loses tokens or moves one, and the
\* routing table follows it.
LEMMA TokenStep ==
  ASSUME Shapes, UnsentInv, CountInv, Unscaled, OneToken, [Next]_vars, scales' = 0
  PROVE  \/ Tokens' \subseteq Tokens /\ routing' = routing
         \/ \E x \in Tokens : \E y :
              /\ y[1] = x[1] /\ Tokens' \subseteq (Tokens \ {x}) \cup {y}
              /\ \/ routing' = routing /\ y[2] = x[2]
                 \/ routing' = (routing \ {x[2]}) \cup {y[2]}
<1>. DEFINE Goal == \/ Tokens' \subseteq Tokens /\ routing' = routing
                    \/ \E x \in Tokens : \E y :
                         /\ y[1] = x[1] /\ Tokens' \subseteq (Tokens \ {x}) \cup {y}
                         /\ \/ routing' = routing /\ y[2] = x[2]
                            \/ routing' = (routing \ {x[2]}) \cup {y[2]}
<1>1. CASE ScheduleNext
  <2>1. routing' = routing BY <1>1 DEF ScheduleNext
  <2>2. UNCHANGED <<Losses, Restarts, Additions, Runs, Ends>> BY <1>1, ScheduleNextTokens
  <2>3. CASE Waits' \subseteq Waits /\ Orders' = Orders BY <2>1, <2>2, <2>3 DEF Tokens, Pending
  <2>4. ASSUME NEW x \in Waits, NEW y, y[1] = x[1], y[2] = x[2], Waits' \subseteq Waits \ {x},
               Orders' \subseteq Orders \cup {y}
        PROVE  Goal
    <3>1. x \in Tokens /\ Tokens' \subseteq (Tokens \ {x}) \cup {y}
      BY <2>2, <2>4, Kinds DEF Tokens, Pending
    <3>. QED BY <2>1, <2>4, <3>1
  <2>. QED BY <1>1, <2>3, <2>4, ScheduleNextTokens
<1>2. ASSUME NEW t \in tracking, Track(t) PROVE Goal
  <2>1. routing' = routing BY <1>2 DEF Track
  <2>2. Tokens' \subseteq Tokens BY <1>2, TrackTokens DEF Tokens, Pending
  <2>. QED BY <2>1, <2>2
<1>3. ASSUME NEW m \in msgs, Launch(m) PROVE Goal
  <2>1. routing' = routing BY <1>3 DEF Launch
  <2>2. PICK x, y : /\ x \in Orders /\ y[1] = x[1] /\ y[2] = x[2] /\ Orders' \subseteq Orders \ {x}
                    /\ Runs' \subseteq Runs \cup {y}
    BY <1>3, LaunchTokens
  <2>3. x \in Tokens /\ Tokens' \subseteq (Tokens \ {x}) \cup {y}
    BY <1>3, <2>2, LaunchTokens, Kinds DEF Tokens, Pending
  <2>. QED BY <2>1, <2>2, <2>3
<1>4. ASSUME NEW m \in msgs, LaunchFails(m) PROVE Goal
  <2>1. routing' = routing BY <1>4 DEF LaunchFails
  <2>2. Tokens' \subseteq Tokens BY <1>4, LaunchFailsTokens DEF Tokens, Pending
  <2>. QED BY <2>1, <2>2
<1>5. ASSUME NEW p \in procs, Exit(p) PROVE Goal
  <2>1. routing' = routing BY <1>5 DEF Exit
  <2>2. PICK x, y : /\ x \in Runs /\ y[1] = x[1] /\ y[2] = x[2] /\ Runs' \subseteq Runs \ {x}
                    /\ Ends' \subseteq Ends \cup {y}
    BY <1>5, ExitTokens
  <2>3. x \in Tokens /\ Tokens' \subseteq (Tokens \ {x}) \cup {y}
    BY <1>5, <2>2, ExitTokens, Kinds DEF Tokens, Pending
  <2>. QED BY <2>1, <2>2, <2>3
<1>6. ASSUME NEW p \in procs, Kill(p) PROVE Goal
  <2>1. routing' = routing BY <1>6 DEF Kill
  <2>2. PICK x, y : /\ x \in Runs /\ y[1] = x[1] /\ y[2] = x[2] /\ Runs' \subseteq Runs \ {x}
                    /\ Losses' \subseteq Losses \cup {y}
    BY <1>6, KillTokens
  <2>3. x \in Tokens /\ Tokens' \subseteq (Tokens \ {x}) \cup {y}
    BY <1>6, <2>2, KillTokens, Kinds DEF Tokens, Pending
  <2>. QED BY <2>1, <2>2, <2>3
<1>7. ASSUME NEW m \in msgs, HandleTaskFailure(m) PROVE Goal
  <2>1. routing' = routing BY <1>7 DEF HandleTaskFailure
  <2>2. PICK x, y :
          /\ x \in Losses
          /\ y[1] = x[1] /\ Losses' \subseteq Losses \ {x} /\ Restarts' \subseteq Restarts \cup {y}
          /\ Restarts' = Restarts \/ (/\ x[1] \in DOMAIN allTasks
                                      /\ allTasks[x[1]].port = m.proc.port => y[2] = x[2])
    BY <1>7, HandleTaskFailureTokens
  <2>3. UNCHANGED <<Waits, Orders, Additions, Runs, Ends>> BY <1>7, HandleTaskFailureTokens
  <2>4. CASE Restarts' = Restarts BY <2>1, <2>2, <2>3, <2>4 DEF Tokens, Pending
  <2>5. CASE Restarts' # Restarts
    <3>1. m.proc.port = "base" BY <1>7 DEF Unscaled, HandleTaskFailure
    <3>2. y[2] = x[2] BY <2>2, <2>5, <3>1 DEF Unscaled
    <3>3. x \in Tokens /\ Tokens' \subseteq (Tokens \ {x}) \cup {y}
      BY <2>2, <2>3, Kinds DEF Tokens, Pending
    <3>. QED BY <2>1, <2>2, <3>2, <3>3
  <2>. QED BY <2>4, <2>5
<1>8. ASSUME NEW f \in restarting, NEW w \in Workers, RestartTask(f, w) PROVE Goal
  <2>1. PICK x, y :
          /\ x \in Restarts
          /\ y[1] = x[1] /\ Restarts' \subseteq Restarts \ {x} /\ Orders' \subseteq Orders \cup {y}
          /\ x[2] \in routing => routing' = (routing \ {x[2]}) \cup {y[2]}
    BY <1>8, RestartTaskTokens
  <2>2. x \in Tokens /\ Tokens' \subseteq (Tokens \ {x}) \cup {y}
    BY <1>8, <2>1, RestartTaskTokens, Kinds DEF Tokens, Pending
  <2>3. x[2] \in routing BY <2>2 DEF OneToken
  <2>. QED BY <2>1, <2>2, <2>3
<1>9. ASSUME NEW m \in msgs, HandleTaskCompleted(m) PROVE Goal
  <2>1. routing' = routing BY <1>9 DEF HandleTaskCompleted
  <2>2. Tokens' \subseteq Tokens BY <1>9, HandleTaskCompletedTokens DEF Tokens, Pending
  <2>. QED BY <2>1, <2>2
<1>10. CASE \/ \E m \in msgs : HandleTaskStarted(m)
            \/ \E e \in ending : EndJob(e)
            \/ \E w \in Workers : WorkerFails(w)
            \/ UNCHANGED vars
  <2>1. routing' = routing BY <1>10 DEF HandleTaskStarted, EndJob, WorkerFails, vars
  <2>2. Tokens' \subseteq Tokens BY <1>10, OtherTokens DEF Tokens, Pending
  <2>. QED BY <2>1, <2>2
<1>11. scaling = {} /\ ~ScaleUp /\ ~ScaleDown BY NeverScaled DEF Unscaled
<1>. QED BY <1>1, <1>2, <1>3, <1>4, <1>5, <1>6, <1>7, <1>8, <1>9, <1>10, <1>11
         DEF Next, LeaderStep, WorkerStep

\* So tokens stay unique and routed, and no task gets a token it did not have.
LEMMA NextToken ==
  ASSUME Shapes, UnsentInv, CountInv, Unscaled, OneToken, [Next]_vars, scales' = 0
  PROVE  OneToken' /\ \A z \in Tokens' : \E x \in Tokens : z[1] = x[1]
<1>1. CASE Tokens' \subseteq Tokens /\ routing' = routing BY <1>1 DEF OneToken
<1>2. ASSUME NEW x \in Tokens, NEW y, y[1] = x[1], Tokens' \subseteq (Tokens \ {x}) \cup {y},
             \/ routing' = routing /\ y[2] = x[2]
             \/ routing' = (routing \ {x[2]}) \cup {y[2]}
      PROVE  OneToken' /\ \A z \in Tokens' : \E u \in Tokens : z[1] = u[1]
  <2>1. \A z \in Tokens \ {x} : z[1] # x[1] /\ z[2] # x[2] BY TokenAddress DEF OneToken
  <2>2. \A z \in Tokens' : z = y \/ (z \in Tokens \ {x} /\ z[1] # y[1]) BY <1>2, <2>1
  <2>3. \A u, v \in Tokens' : u[1] = v[1] => u = v BY <2>2 DEF OneToken
  <2>4. \A z \in Tokens' : z[2] \in routing' BY <1>2, <2>1, <2>2 DEF OneToken
  <2>. QED BY <1>2, <2>2, <2>3, <2>4 DEF OneToken
<1>. QED BY <1>1, <1>2, TokenStep

\* Kills are not taken back either.
LEMMA NeverKilled ==
  ASSUME Shapes, [Next]_vars, kills' = 0
  PROVE  kills = 0 /\ ~\E p \in procs : Kill(p)
<1>1. kills \in Nat BY DEF Shapes
<1>2. ~\E p \in procs : Kill(p) BY <1>1 DEF Kill
<1>3. ASSUME NEW g \in scaling, NEW w \in Workers, AddTaskToStage(g, w) PROVE kills' = kills
  BY <1>3 DEF AddTaskToStage, history
<1>4. ASSUME NEW g \in scaling, RemoveTaskFromStage(g) \/ ForgetTask(g) PROVE kills' = kills
  <2>1. CASE RemoveTaskFromStage(g) BY <2>1 DEF RemoveTaskFromStage, history
  <2>2. CASE ForgetTask(g) BY <2>2 DEF ForgetTask, history
  <2>. QED BY <1>4, <2>1, <2>2
<1>5. ASSUME NEW f \in restarting, NEW w \in Workers, RestartTask(f, w) PROVE kills' = kills
  BY <1>5 DEF RestartTask, history
<1>6. ASSUME ScheduleNext \/ \E t \in tracking : Track(t) PROVE kills' = kills
  BY <1>6 DEF ScheduleNext, Track, history
<1>7. ASSUME NEW m \in msgs, HandleTaskStarted(m) \/ HandleTaskCompleted(m) \/ HandleTaskFailure(m)
      PROVE  kills' = kills
  BY <1>7 DEF HandleTaskStarted, HandleTaskCompleted, HandleTaskFailure, history
<1>8. ASSUME NEW e \in ending, EndJob(e) PROVE kills' = kills BY <1>8 DEF EndJob
<1>9. ASSUME NEW m \in msgs, Launch(m) \/ LaunchFails(m) PROVE kills' = kills
  <2>1. CASE Launch(m) BY <2>1 DEF Launch, history
  <2>2. CASE LaunchFails(m) BY <2>2 DEF LaunchFails
  <2>. QED BY <1>9, <2>1, <2>2
<1>10. ASSUME NEW p \in procs, Exit(p) PROVE kills' = kills BY <1>10 DEF Exit, history
<1>11. ASSUME NEW w \in Workers, WorkerFails(w) PROVE kills' = kills
  BY <1>11 DEF WorkerFails, history
<1>12. ASSUME ScaleUp \/ ScaleDown \/ UNCHANGED vars PROVE kills' = kills
  BY <1>12 DEF ScaleUp, ScaleDown, vars
<1>. QED BY <1>2, <1>3, <1>4, <1>5, <1>6, <1>7, <1>8, <1>9, <1>10, <1>11, <1>12
         DEF Next, LeaderStep, WorkerStep

\* Undisturbed survives every step that kills and scales nothing: the completion
\* of a task takes its only token away.
LEMMA NextUndisturbed ==
  ASSUME Shapes, UnsentInv, CountInv, Unscaled, OneToken, Undisturbed, [Next]_vars, scales' = 0,
         kills' = 0
  PROVE  Undisturbed'
<1>1. ~\E p \in procs : Kill(p) BY NeverKilled
<1>2. scaling = {} /\ ~ScaleUp /\ ~ScaleDown BY NeverScaled DEF Unscaled
<1>3. ASSUME NEW m \in msgs, HandleTaskCompleted(m) PROVE Undisturbed'
  <2>1. m.type # "task_completed_failed" BY <1>3 DEF Undisturbed, Of
  <2>2. PICK x \in Ends : x[1] = m.proc.id /\ Ends' \subseteq Ends \ {x}
    BY <1>3, <2>1, HandleTaskCompletedTokens
  <2>3. x \in Tokens /\ Tokens' \subseteq Tokens \ {x}
    BY <1>3, <2>2, HandleTaskCompletedTokens, Kinds DEF Tokens, Pending
  <2>4. completedIDs' = completedIDs \cup {x[1]} /\ msgs' \subseteq msgs
    BY <1>3, <2>2 DEF HandleTaskCompleted
  <2>5. \A z \in Tokens' : z[1] # x[1] BY <2>3 DEF OneToken
  <2>6. Of("task_completed_failed")' = {} BY <2>4 DEF Undisturbed, Of
  <2>. QED BY <2>3, <2>4, <2>5, <2>6 DEF Undisturbed
<1>4. ASSUME UNCHANGED completedIDs,
             \A n \in msgs' : n.type = "task_completed_failed" => n \in msgs
      PROVE  Undisturbed'
  <2>1. \A z \in Tokens' : \E x \in Tokens : z[1] = x[1] BY NextToken
  <2>2. Of("task_completed_failed")' = {} BY <1>4 DEF Undisturbed, Of
  <2>. QED BY <1>4, <2>1, <2>2 DEF Undisturbed
<1>5. ASSUME NEW t \in tracking, Track(t) PROVE Undisturbed' BY <1>4, <1>5 DEF Track, jobVars
<1>6. CASE ScheduleNext
  <2>1. UNCHANGED completedIDs BY <1>6 DEF ScheduleNext, jobVars
  <2>2. \A n \in msgs' : n.type = "task_completed_failed" => n \in msgs
    BY <1>6 DEF ScheduleNext, Schedule
  <2>. QED BY <1>4, <2>1, <2>2
<1>7. ASSUME NEW m \in msgs, HandleTaskStarted(m) \/ HandleTaskFailure(m) PROVE Undisturbed'
  <2>1. UNCHANGED completedIDs /\ msgs' \subseteq msgs
    BY <1>7 DEF HandleTaskStarted, HandleTaskFailure, jobVars
  <2>. QED BY <1>4, <2>1
<1>8. ASSUME NEW e \in ending, EndJob(e) PROVE Undisturbed' BY <1>4, <1>8 DEF EndJob, jobVars
<1>9. ASSUME NEW f \in restarting, NEW w \in Workers, RestartTask(f, w) PROVE Undisturbed'
  <2>1. UNCHANGED completedIDs BY <1>9 DEF RestartTask, jobVars
  <2>2. \A n \in msgs' : n.type = "task_completed_failed" => n \in msgs
    BY <1>9 DEF RestartTask, Schedule
  <2>. QED BY <1>4, <2>1, <2>2
<1>10. ASSUME NEW m \in msgs, Launch(m) \/ LaunchFails(m) PROVE Undisturbed'
  <2>1. UNCHANGED completedIDs BY <1>10 DEF Launch, LaunchFails, jobVars
  <2>2. \A n \in msgs' : n.type = "task_completed_failed" => n \in msgs
    BY <1>10 DEF Launch, LaunchFails, Report
  <2>. QED BY <1>4, <2>1, <2>2
<1>11. ASSUME NEW p \in procs, Exit(p) PROVE Undisturbed'
  <2>1. UNCHANGED completedIDs BY <1>11 DEF Exit, jobVars
  <2>2. \A n \in msgs' : n.type = "task_completed_failed" => n \in msgs
    BY <1>11 DEF Exit, Report
  <2>. QED BY <1>4, <2>1, <2>2
<1>12. ASSUME NEW w \in Workers, WorkerFails(w) PROVE Undisturbed'
  <2>1. UNCHANGED completedIDs /\ msgs' \subseteq msgs BY <1>12 DEF WorkerFails, jobVars
  <2>. QED BY <1>4, <2>1
<1>13. CASE UNCHANGED vars BY <1>4, <1>13 DEF vars
<1>. QED BY <1>1, <1>2, <1>3, <1>5, <1>6, <1>7, <1>8, <1>9, <1>10, <1>11, <1>12, <1>13
         DEF Next, LeaderStep, WorkerStep

\* HandleSubmitJob establishes the invariant.
LEMMA InitFirst == Init => FirstInv
<1>. SUFFICES ASSUME Init PROVE FirstInv OBVIOUS
<1>. DEFINE n == OriginalTaskCount
            T(i) == Token(unsent[i].id, unsent[i].port, unsent[i].worker, "unsent", unsent[i])
<1>1. Tokens = {T(i) : i \in 1..n} BY InitPending
<1>2. \A i \in 1..n : T(i)[1] = unsent[i].id /\ T(i)[2] = Address(unsent[i]) BY DEF Token, Address
<1>. HIDE DEF T
<1>3. /\ scaling = {} /\ expected = n /\ DOMAIN allTasks = {} /\ tracking = {} /\ restarting = {}
      /\ procs = {} /\ msgs = {} /\ ending = {} /\ jobEnded = FALSE /\ completedIDs = {}
  BY DEF Init
<1>4. Unscaled BY <1>3 DEF Unscaled
<1>5. /\ \A i, j \in 1..n : unsent[i].id = unsent[j].id => i = j
      /\ \A i \in 1..n : unsent[i].id \in Original /\ Address(unsent[i]) \in routing
  BY Submitted
<1>6. \A x, y \in Tokens : x[1] = y[1] => x = y BY <1>1, <1>2, <1>5
<1>7. OneToken BY <1>1, <1>2, <1>5, <1>6 DEF OneToken
<1>8. Undisturbed BY <1>1, <1>2, <1>3, <1>5 DEF Undisturbed, Of
<1>. QED BY <1>4, <1>7, <1>8 DEF FirstInv

\* Every step keeps the invariant.
LEMMA NextFirst == Shapes /\ UnsentInv /\ CountInv /\ FirstInv /\ [Next]_vars => FirstInv'
<1>. SUFFICES ASSUME Shapes, UnsentInv, CountInv, FirstInv, [Next]_vars, scales' = 0
              PROVE  Unscaled' /\ OneToken' /\ (kills' = 0 => Undisturbed')
  BY DEF FirstInv
<1>1. Unscaled /\ OneToken /\ (kills = 0 => Undisturbed) BY NeverScaled DEF FirstInv
<1>2. Unscaled' BY <1>1, NextUnscaled
<1>3. OneToken' BY <1>1, NextToken
<1>4. ASSUME kills' = 0 PROVE Undisturbed'
  <2>1. Undisturbed BY <1>1, <1>4, NeverKilled
  <2>. QED BY <1>1, <1>4, <2>1, NextUndisturbed
<1>. QED BY <1>2, <1>3, <1>4

\* The invariant of a job that is not scaled holds in every state.
LEMMA FirstHolds == Spec => [](CountInv /\ FirstInv)
<1>. DEFINE I == Shapes /\ UnsentInv /\ CountInv /\ FirstInv
<1>1. Init => I BY InitShapes, InitUnsent, InitCount, InitFirst
<1>2. I /\ [Next]_vars => I' BY NextShapes, NextUnsent, NextCount, NextFirst
<1>. QED BY <1>1, <1>2, PTL DEF Spec

\* Up to the first scaling decision no two processes of a task run at a time,
\* whatever is killed, restarted or moved: the restart answers one of the two
\* reports of a death (HandleTaskFailure), never both.
THEOREM OneProcess == Spec => [](scales = 0 => OneProcessPerTask)
<1>1. FirstInv => (scales = 0 => OneProcessPerTask)
  <2>. SUFFICES ASSUME OneToken, NEW p \in procs, NEW q \in procs, p.id = q.id PROVE p = q
    BY DEF FirstInv, OneProcessPerTask
  <2>. DEFINE x == Token(p.id, p.port, p.worker, "runs", p)
              y == Token(q.id, q.port, q.worker, "runs", q)
  <2>1. x \in Tokens /\ y \in Tokens BY DEF Tokens, Runs
  <2>2. x[1] = y[1] /\ x[4] = p /\ y[4] = q BY DEF Token
  <2>. QED BY <2>1, <2>2 DEF OneToken
<1>. QED BY <1>1, FirstHolds, PTL

\* Up to the first scaling decision every process runs where the routing table
\* sends the tuples of its task: a restart moves the address in the same step that
\* orders the launch.
THEOREM Routed == Spec => [](scales = 0 => ProcessesAreRouted)
<1>1. FirstInv => (scales = 0 => ProcessesAreRouted)
  <2>. SUFFICES ASSUME OneToken, NEW p \in procs PROVE <<p.id, p.port, p.worker>> \in routing
    BY DEF FirstInv, ProcessesAreRouted
  <2>. DEFINE x == Token(p.id, p.port, p.worker, "runs", p)
  <2>1. x \in Tokens BY DEF Tokens, Runs
  <2>2. x[2] = <<p.id, p.port, p.worker>> BY DEF Token
  <2>. QED BY <2>1, <2>2 DEF OneToken
<1>. QED BY <1>1, FirstHolds, PTL

\* RUN END of a job with no kill, no scaling and no dead worker comes after its last
\* task, however the reports overtake each other; launches that come to nothing
\* keep the job from ending, never make it end early.
THEOREM EndsComplete == Spec => []UndisturbedJobEndsComplete
<1>1. CountInv /\ FirstInv => UndisturbedJobEndsComplete
  <2>. SUFFICES ASSUME CountInv, Unscaled, Undisturbed, jobEnded
                PROVE  procs = {} /\ completedIDs = Original
    BY DEF FirstInv, UndisturbedJobEndsComplete
  <2>1. completedIDs \subseteq Original /\ IsFiniteSet(Original) BY IDsFinite DEF Undisturbed
  <2>2. Cardinality(completedIDs) >= Cardinality(Original)
    BY DEF CountInv, Unscaled, OriginalTaskCount
  <2>3. completedIDs = Original BY <2>1, <2>2, FS_Subset, FS_CardinalityType
  <2>4. ASSUME NEW p \in procs PROVE FALSE
    <3>. DEFINE x == Token(p.id, p.port, p.worker, "runs", p)
    <3>1. x \in Tokens BY DEF Tokens, Runs
    <3>. QED BY <2>3, <3>1 DEF Undisturbed
  <2>. QED BY <2>3, <2>4
<1>. QED BY <1>1, FirstHolds, PTL

----------------------------------------------------------------------------
\* JobEnded and the RUN END record are written in one place.
LEMMA OnlyEndJobEnds ==
  ASSUME Shapes, [Next]_vars, ~\E e \in ending : EndJob(e)
  PROVE  UNCHANGED <<jobEnded, runEnds>>
<1>1. ASSUME ScheduleNext \/ \E t \in tracking : Track(t) PROVE UNCHANGED <<jobEnded, runEnds>>
  BY <1>1 DEF ScheduleNext, Track, history
<1>2. ASSUME NEW m \in msgs, HandleTaskStarted(m) \/ HandleTaskCompleted(m) \/ HandleTaskFailure(m)
      PROVE  UNCHANGED <<jobEnded, runEnds>>
  BY <1>2 DEF HandleTaskStarted, HandleTaskCompleted, HandleTaskFailure, history
<1>3. ASSUME NEW f \in restarting, NEW w \in Workers, RestartTask(f, w)
      PROVE  UNCHANGED <<jobEnded, runEnds>>
  BY <1>3 DEF RestartTask, history
<1>4. ASSUME NEW g \in scaling, NEW w \in Workers, AddTaskToStage(g, w)
      PROVE  UNCHANGED <<jobEnded, runEnds>>
  BY <1>4 DEF AddTaskToStage, history
<1>5. ASSUME NEW g \in scaling, RemoveTaskFromStage(g) PROVE UNCHANGED <<jobEnded, runEnds>>
  BY <1>5 DEF RemoveTaskFromStage, history
<1>6. ASSUME NEW g \in scaling, ForgetTask(g) PROVE UNCHANGED <<jobEnded, runEnds>>
  BY <1>6 DEF ForgetTask, history
<1>7. ASSUME NEW m \in msgs, Launch(m) PROVE UNCHANGED <<jobEnded, runEnds>>
  BY <1>7 DEF Launch, history
<1>8. ASSUME NEW m \in msgs, LaunchFails(m) PROVE UNCHANGED <<jobEnded, runEnds>>
  BY <1>8 DEF LaunchFails
<1>9. ASSUME NEW p \in procs, Exit(p) \/ Kill(p) PROVE UNCHANGED <<jobEnded, runEnds>>
  BY <1>9 DEF Exit, Kill, history
<1>10. ASSUME NEW w \in Workers, WorkerFails(w) PROVE UNCHANGED <<jobEnded, runEnds>>
  BY <1>10 DEF WorkerFails, history
<1>11. ASSUME ScaleUp \/ ScaleDown \/ UNCHANGED vars PROVE UNCHANGED <<jobEnded, runEnds>>
  BY <1>11 DEF ScaleUp, ScaleDown, vars
<1>. QED BY <1>1, <1>2, <1>3, <1>4, <1>5, <1>6, <1>7, <1>8, <1>9, <1>10, <1>11
         DEF Next, LeaderStep, WorkerStep

\* RUN END is recorded once, however many completions find the job complete at the
\* same time: HandleTaskCompleted looks at JobEnded again in its second lock section.
THEOREM EndsOnce == Spec => []JobEndsOnce
<1>. DEFINE I == Shapes /\ JobEndsOnce
<1>1. Init => I
  <2>1. Init => JobEndsOnce BY DEF Init, JobEndsOnce
  <2>. QED BY <2>1, InitShapes
<1>2. I /\ [Next]_vars => I'
  <2>. SUFFICES ASSUME Shapes, JobEndsOnce, [Next]_vars PROVE I' OBVIOUS
  <2>1. ASSUME NEW e \in ending, EndJob(e) PROVE JobEndsOnce'
    BY <2>1 DEF EndJob, JobEndsOnce, Shapes
  <2>2. JobEndsOnce' BY <2>1, OnlyEndJobEnds DEF JobEndsOnce
  <2>. QED BY <2>2, NextShapes
<1>3. I => JobEndsOnce OBVIOUS
<1>. QED BY <1>1, <1>2, <1>3, PTL DEF Spec

=============================================================================
