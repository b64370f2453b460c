------------------------------ MODULE Leader ------------------------------
(***************************************************************************)
(* The RainStorm leader during one job (pkg/rainstorm/leader.go) and the   *)
(* workers' side of it (pkg/rainstorm/worker.go): scheduling, the reports  *)
(* of started, completed and failed tasks, restarts, autoscaling of one    *)
(* stage, and the detection of the job's end.                              *)
(*                                                                         *)
(* Every report comes on a connection of its own and is handled by a       *)
(* goroutine of its own, so reports overtake each other. A handler that    *)
(* gives its locks up in between is several actions; what it remembers     *)
(* from one to the next is in unsent, tracking, restarting, ending and     *)
(* scaling. A task id is a source's name or the index of a task in the     *)
(* scaled stage; pids count the launches of the task, 0 is none. How long  *)
(* a process lives is left open (see Stage), and so are the rates that     *)
(* make the autoscaler act.                                                *)
(***************************************************************************)
EXTENDS Naturals, Sequences, FiniteSets, SequencesExt

CONSTANTS
  Workers,    \* the workers of the cluster
  Fixed,      \* the tasks of the stages that are never scaled
  NumTasks,   \* tasks the scaled stage starts with
  MaxKills,   \* bound: processes that are killed and launches that come to nothing
  MaxDeaths,  \* bound: workers that fail
  MaxScales   \* bound: scaling decisions of autoscaleMonitor

ASSUME WorkersAssumption == IsFiniteSet(Workers) /\ Workers # {}
ASSUME CountsAssumption ==
  /\ IsFiniteSet(Fixed) /\ Fixed \cap Nat = {}
  /\ NumTasks \in Nat \ {0}
  /\ MaxKills \in Nat /\ MaxDeaths \in Nat /\ MaxScales \in Nat

VARIABLES
  allTasks,      \* AllTasks: id -> worker, port, pid, state
  routing,       \* CurrentRoutingTable: addresses <<id, port, worker>>
  expected,      \* ExpectedTasks
  completed,     \* CompletedTasks
  completedIDs,  \* CompletedTaskIDs
  upscaled,      \* UpscaledTaskIDs
  originalsDone, \* OriginalTasksDone
  jobEnded,      \* JobEnded
  stageCount,    \* StageTaskCount of the scaled stage
  unsent,        \* HandleSubmitJob: tasks still to be sent to their workers
  tracking,      \* sendScheduleTask: sent, not yet in AllTasks
  restarting,    \* HandleTaskFailure: failures it is about to answer
  ending,        \* HandleTaskCompleted: snapshots with completed >= expected
  scaling,       \* goroutines of addTaskToStage and removeTaskFromStage
  msgs,          \* messages under way between leader and workers
  procs,         \* running tasks: id, port, worker, pid
  launches,      \* processes launched so far for each task
  dead,          \* workers that have failed
  kills, scales, duds,  \* history: kills, scaling decisions and failed launches
  runEnds        \* history: RUN END records

vars == <<allTasks, routing, expected, completed, completedIDs, upscaled, originalsDone,
          jobEnded, stageCount, unsent, tracking, restarting, ending, scaling, msgs, procs,
          launches, dead, kills, scales, duds, runEnds>>

jobVars == <<expected, completed, completedIDs, upscaled, originalsDone>>
history == <<kills, scales, duds, runEnds>>

\* The tasks HandleSubmitJob creates; later ones have higher indices.
Original == Fixed \cup 0..(NumTasks - 1)
OriginalTaskCount == Cardinality(Original)
IDs == Original \cup 0..(NumTasks + MaxScales)
MaxLaunches == 1 + MaxKills + MaxScales

\* A task as it is scheduled; the port of an added task is not the one its
\* index had at submission.
NewTask(id, port, worker) == [id |-> id, port |-> port, worker |-> worker]
Address(t) == <<t.id, t.port, t.worker>>
Entry(t, pid, state) == [port |-> t.port, worker |-> t.worker, pid |-> pid, state |-> state]
With(id, entry) == [i \in DOMAIN allTasks \cup {id} |-> IF i = id THEN entry ELSE allTasks[i]]

\* Messages: about one process, or a task to start; nr tells restarts apart.
Report(type, p) == [type |-> type, proc |-> p]
Schedule(t, nr) == [type |-> "schedule_task", task |-> t, nr |-> nr]
----------------------------------------------------------------------------
(* Scheduling. *)

\* sendScheduleTask, second half: AllTasks gets a fresh, Idle copy only after
\* the message is out.
Track(t) ==
  /\ t \in tracking
  /\ unsent' = IF unsent # <<>> /\ t = Head(unsent) THEN Tail(unsent) ELSE unsent
  /\ tracking' = tracking \ {t}
  /\ allTasks' = With(t.id, Entry(t, 0, "Idle"))
  /\ UNCHANGED <<routing, jobVars, jobEnded, stageCount, restarting, ending, scaling, msgs,
                 procs, launches, dead, history>>

\* The loop at the end of HandleSubmitJob: one task after the other. A worker
\* that cannot be reached is only logged.
ScheduleNext ==
  /\ unsent # <<>> /\ Head(unsent) \notin tracking
  /\ \/ /\ Head(unsent).worker \notin dead
        /\ msgs' = msgs \cup {Schedule(Head(unsent), 0)}
        /\ tracking' = tracking \cup {Head(unsent)}
        /\ UNCHANGED unsent
     \/ /\ Head(unsent).worker \in dead
        /\ unsent' = Tail(unsent)
        /\ UNCHANGED <<msgs, tracking>>
  /\ UNCHANGED <<allTasks, routing, jobVars, jobEnded, stageCount, restarting,
                 ending, scaling, procs, launches, dead, history>>

\* HandleScheduleTask and the first half of runTaskProcess.
Launch(m) ==
  LET p == [id |-> m.task.id, port |-> m.task.port, worker |-> m.task.worker,
            pid |-> launches[m.task.id] + 1]
  IN
  /\ m \in msgs /\ m.type = "schedule_task"
  /\ launches' = [launches EXCEPT ![m.task.id] = @ + 1]
  /\ procs' = procs \cup {p}
  /\ msgs' = (msgs \ {m}) \cup {Report("task_started", p)}
  /\ UNCHANGED <<unsent, allTasks, routing, jobVars, jobEnded, stageCount, tracking, restarting,
                 ending, scaling, dead, history>>

\* A launch that comes to nothing: the executable does not start, or a source,
\* which has reported its start by then, finds its file nowhere. Only the worker's
\* log says so.
LaunchFails(m) ==
  /\ m \in msgs /\ m.type = "schedule_task" /\ kills + duds < MaxKills
  /\ duds' = duds + 1
  /\ \/ /\ m.task.id \in Fixed
        /\ msgs' = (msgs \ {m}) \cup
                    {Report("task_started", [id |-> m.task.id, port |-> m.task.port,
                                             worker |-> m.task.worker, pid |-> 0])}
     \/ m.task.id \notin Fixed /\ msgs' = msgs \ {m}
  /\ UNCHANGED <<unsent, allTasks, routing, jobVars, jobEnded, stageCount, tracking, restarting,
                 ending, scaling, procs, launches, dead, kills, scales, runEnds>>

\* The task ends by itself with success.
Exit(p) ==
  /\ p \in procs
  /\ procs' = procs \ {p}
  /\ msgs' = msgs \cup {Report("task_completed", p)}
  /\ UNCHANGED <<unsent, allTasks, routing, jobVars, jobEnded, stageCount, tracking, restarting,
                 ending, scaling, launches, dead, history>>

\* HandleKillTask and HandleKillTaskWorker, or a crash. The worker reports the
\* death twice: for the restart, and as an unsuccessful completion. Sources
\* are goroutines of the worker and have no process to kill.
Kill(p) ==
  /\ p \in procs /\ p.id \notin Fixed /\ kills + duds < MaxKills
  /\ kills' = kills + 1
  /\ procs' = procs \ {p}
  /\ msgs' = msgs \cup {Report("task_failed", p), Report("task_completed_failed", p)}
  /\ UNCHANGED <<unsent, allTasks, routing, jobVars, jobEnded, stageCount, tracking, restarting,
                 ending, scaling, launches, dead, scales, duds, runEnds>>

\* A worker fails, with its tasks and the messages on their way to it. Its
\* peers drop it from their membership, which GetAliveWorkers reads; no code
\* of the leader is called. Some worker is left.
WorkerFails(w) ==
  /\ w \notin dead /\ Cardinality(dead) < MaxDeaths /\ dead \cup {w} # Workers
  /\ dead' = dead \cup {w}
  /\ procs' = {p \in procs : p.worker # w}
  /\ msgs' = {m \in msgs : m.type = "schedule_task" => m.task.worker # w}
  /\ UNCHANGED <<unsent, allTasks, routing, jobVars, jobEnded, stageCount, tracking, restarting,
                 ending, scaling, launches, history>>
----------------------------------------------------------------------------
(* Reports at the leader. *)

HandleTaskStarted(m) ==
  /\ m \in msgs /\ m.type = "task_started"
  /\ msgs' = msgs \ {m}
  /\ allTasks' = IF m.proc.id \in DOMAIN allTasks
                 THEN [allTasks EXCEPT ![m.proc.id].pid = m.proc.pid,
                                       ![m.proc.id].state = "Running"]
                 ELSE allTasks
  /\ UNCHANGED <<unsent, routing, jobVars, jobEnded, stageCount, tracking, restarting, ending,
                 scaling, procs, launches, dead, history>>

\* Mutants: every report counts; the job ends one task early, or never.
CompletedAfter_CountsAgain(id) == completed + 1
AllDone_OneShort(c) == c + 1 >= expected
AllDone_Strict(c) == c > expected

\* CompletedTasks after a completion of the task; a task id counts once.
CompletedAfter(id) == IF id \in completedIDs THEN completed ELSE completed + 1
AllDone(c) == c >= expected

\* HandleTaskCompleted up to its second lock section. Unsuccessful completions
\* count like the others. The EOF sent to the upscaled tasks when the original
\* ones are done only makes them exit.
HandleTaskCompleted(m) ==
  LET id == m.proc.id
      done == completedIDs' \ upscaled
  IN
  /\ m \in msgs /\ m.type \in {"task_completed", "task_completed_failed"}
  /\ msgs' = msgs \ {m}
  /\ allTasks' = IF id \in DOMAIN allTasks
                 THEN [allTasks EXCEPT ![id].state =
                         IF m.type = "task_completed" THEN "Completed" ELSE "Failed"]
                 ELSE allTasks
  /\ completedIDs' = completedIDs \cup {id}
  /\ completed' = CompletedAfter(id)
  /\ originalsDone' = (originalsDone \/ Cardinality(done) >= OriginalTaskCount)
  /\ ending' = IF AllDone(completed') THEN ending \cup {<<id, m.proc.pid>>} ELSE ending
  /\ UNCHANGED <<unsent, routing, expected, upscaled, jobEnded, stageCount, tracking, restarting,
                 scaling, procs, launches, dead, history>>

\* Mutant: the second lock section does not look at JobEnded.
EndJob_Unchecked(e) ==
  /\ e \in ending
  /\ ending' = ending \ {e}
  /\ jobEnded' = TRUE
  /\ runEnds' = runEnds + 1
  /\ UNCHANGED <<unsent, allTasks, routing, jobVars, stageCount, tracking, restarting,
                 scaling, msgs, procs, launches, dead, kills, scales, duds>>

\* ... and its end, with the counts read before.
EndJob(e) ==
  /\ e \in ending
  /\ ending' = ending \ {e}
  /\ jobEnded' = TRUE
  /\ runEnds' = IF jobEnded THEN runEnds ELSE runEnds + 1
  /\ UNCHANGED <<unsent, allTasks, routing, jobVars, stageCount, tracking, restarting,
                 scaling, msgs, procs, launches, dead, kills, scales, duds>>

\* HandleTaskFailure up to the choice of a worker: ignored once the job has
\* ended, and for unknown tasks.
HandleTaskFailure(m) ==
  LET answered == ~jobEnded /\ m.proc.id \in DOMAIN allTasks IN
  /\ m \in msgs /\ m.type = "task_failed"
  /\ msgs' = msgs \ {m}
  /\ \/ /\ answered
        /\ allTasks' = [allTasks EXCEPT ![m.proc.id].state = "Failed"]
        /\ restarting' = restarting \cup {[vm |-> m.proc.worker, pid |-> m.proc.pid,
                                           id |-> m.proc.id, port |-> allTasks[m.proc.id].port]}
     \/ ~answered /\ UNCHANGED <<allTasks, restarting>>
  /\ UNCHANGED <<unsent, routing, jobVars, jobEnded, stageCount, tracking, ending, scaling, procs,
                 launches, dead, history>>

\* Mutant: the routing table keeps the old address.
Rerouted_KeepsOld(old, new) == routing

\* The address table with the old address of a task replaced, if it is there.
Rerouted(old, new) ==
  IF old \in routing THEN (routing \ {old}) \cup {new} ELSE routing

\* Mutant: the failure is answered again and again.
RestartTask_Repeats(f, worker) ==
  LET t == NewTask(f.id, f.port, worker) IN
  /\ f \in restarting /\ worker \notin dead
  /\ restarting' = restarting
  /\ allTasks' = With(f.id, Entry(t, 0, "Idle"))
  /\ routing' = Rerouted(<<f.id, f.port, f.vm>>, Address(t))
  /\ msgs' = msgs \cup {Schedule(t, f.pid)}
  /\ tracking' = tracking \cup {t}
  /\ UNCHANGED <<unsent, jobVars, jobEnded, stageCount, ending, scaling, procs, launches, dead,
                 history>>

\* ... and from there on: same id and port on some worker, the new address in
\* the routing table, schedule_task. AllTasks and the routing table have a lock
\* each; the two updates and the message are one step here.
RestartTask(f, worker) ==
  LET t == NewTask(f.id, f.port, worker) IN
  /\ f \in restarting /\ worker \notin dead
  /\ restarting' = restarting \ {f}
  /\ allTasks' = With(f.id, Entry(t, 0, "Idle"))
  /\ routing' = Rerouted(<<f.id, f.port, f.vm>>, Address(t))
  /\ msgs' = msgs \cup {Schedule(t, f.pid)}
  /\ tracking' = tracking \cup {t}
  /\ UNCHANGED <<unsent, jobVars, jobEnded, stageCount, ending, scaling, procs, launches, dead,
                 history>>
----------------------------------------------------------------------------
(* Autoscaling. *)

\* checkAndScale looks only at tasks of the stage that are Running.
Observed == \E i \in DOMAIN allTasks \cap Nat : allTasks[i].state = "Running"

\* scaleStage: the count changes at once, the task in a goroutine of its own.
ScaleUp ==
  /\ Observed /\ scales < MaxScales
  /\ stageCount' = stageCount + 1
  /\ scaling' = scaling \cup {[act |-> "add", index |-> stageCount, nr |-> scales]}
  /\ scales' = scales + 1
  /\ UNCHANGED <<unsent, allTasks, routing, jobVars, jobEnded, tracking, restarting, ending, msgs,
                 procs, launches, dead, kills, duds, runEnds>>

\* Mutant: the last task may be removed too.
ScaleDown_NoFloor ==
  /\ Observed /\ scales < MaxScales /\ stageCount > 0
  /\ stageCount' = stageCount - 1
  /\ scaling' = scaling \cup {[act |-> "remove", index |-> stageCount - 1, nr |-> scales]}
  /\ scales' = scales + 1
  /\ UNCHANGED <<unsent, allTasks, routing, jobVars, jobEnded, tracking, restarting, ending,
                 msgs, procs, launches, dead, kills, duds, runEnds>>

ScaleDown ==
  /\ Observed /\ scales < MaxScales /\ stageCount > 1
  /\ stageCount' = stageCount - 1
  /\ scaling' = scaling \cup {[act |-> "remove", index |-> stageCount - 1, nr |-> scales]}
  /\ scales' = scales + 1
  /\ UNCHANGED <<unsent, allTasks, routing, jobVars, jobEnded, tracking, restarting, ending, msgs,
                 procs, launches, dead, kills, duds, runEnds>>

\* addTaskToStage.
AddTaskToStage(g, worker) ==
  LET t == NewTask(g.index, "added", worker) IN
  /\ g \in scaling /\ g.act = "add" /\ worker \notin dead
  /\ scaling' = scaling \ {g}
  /\ allTasks' = With(t.id, Entry(t, 0, "Idle"))
  /\ expected' = expected + 1
  /\ upscaled' = upscaled \cup {t.id}
  /\ routing' = routing \cup {Address(t)}
  /\ msgs' = msgs \cup {Schedule(t, g.nr)}
  /\ tracking' = tracking \cup {t}
  /\ UNCHANGED <<unsent, completed, completedIDs, originalsDone, jobEnded, stageCount, restarting,
                 ending, procs, launches, dead, history>>

\* removeTaskFromStage: take the address out, count the task as completed in
\* advance, and send EOF markers to it ...
RemoveTaskFromStage(g) ==
  LET known == g.index \in DOMAIN allTasks IN
  /\ g \in scaling /\ g.act = "remove"
  /\ \/ /\ known
        /\ routing' = routing \ {<<g.index, allTasks[g.index].port, allTasks[g.index].worker>>}
        /\ completedIDs' = completedIDs \cup {g.index}
        /\ completed' = CompletedAfter(g.index)
        /\ scaling' = (scaling \ {g}) \cup {[g EXCEPT !.act = "forget"]}
     \/ ~known /\ scaling' = scaling \ {g} /\ UNCHANGED <<routing, completedIDs, completed>>
  /\ UNCHANGED <<unsent, allTasks, expected, upscaled, originalsDone, jobEnded, stageCount,
                 tracking, restarting, ending, msgs, procs, launches, dead, history>>

\* ... and after the grace period kill it unless it counts as completed, which
\* it always does, and forget it.
ForgetTask(g) ==
  LET unfinished == g.index \notin completedIDs
      victims == {p \in procs : unfinished /\ g.index \in DOMAIN allTasks
                                /\ p.id = g.index /\ p.pid = allTasks[g.index].pid}
  IN
  /\ g \in scaling /\ g.act = "forget"
  /\ scaling' = scaling \ {g}
  /\ procs' = procs \ victims
  /\ msgs' = msgs \cup {Report(type, p) : type \in {"task_failed", "task_completed_failed"},
                                           p \in victims}
  /\ allTasks' = [i \in DOMAIN allTasks \ {g.index} |-> allTasks[i]]
  /\ UNCHANGED <<unsent, routing, jobVars, jobEnded, stageCount, tracking, restarting, ending,
                 launches, dead, history>>
----------------------------------------------------------------------------
\* HandleSubmitJob: all counters set, every task sent to some worker.
Init ==
  \E on \in [Original -> Workers] :
    LET list == SetToSeq(Fixed) \o [i \in 1..NumTasks |-> i - 1]
        tasks == [i \in 1..OriginalTaskCount |-> NewTask(list[i], "base", on[list[i]])]
    IN
    /\ allTasks = [id \in {} |-> Entry(NewTask(id, "base", id), 0, "Idle")]
    /\ routing = {Address(t) : t \in ToSet(tasks)}
    /\ expected = OriginalTaskCount
    /\ completed = 0
    /\ completedIDs = {}
    /\ upscaled = {}
    /\ originalsDone = FALSE
    /\ jobEnded = FALSE
    /\ stageCount = NumTasks
    /\ unsent = tasks
    /\ tracking = {}
    /\ restarting = {}
    /\ ending = {}
    /\ scaling = {}
    /\ msgs = {}
    /\ procs = {}
    /\ launches = [id \in IDs |-> 0]
    /\ dead = {}
    /\ kills = 0
    /\ scales = 0
    /\ duds = 0
    /\ runEnds = 0

LeaderStep ==
  \/ ScheduleNext
  \/ \E t \in tracking : Track(t)
  \/ \E m \in msgs : HandleTaskStarted(m) \/ HandleTaskCompleted(m) \/ HandleTaskFailure(m)
  \/ \E e \in ending : EndJob(e)
  \/ \E f \in restarting, w \in Workers : RestartTask(f, w)
  \/ \E g \in scaling :
       \/ \E w \in Workers : AddTaskToStage(g, w)
       \/ RemoveTaskFromStage(g) \/ ForgetTask(g)

WorkerStep ==
  \/ \E m \in msgs : Launch(m)
  \/ \E p \in procs : Exit(p)

Next ==
  \/ LeaderStep
  \/ WorkerStep
  \/ \E m \in msgs : LaunchFails(m)
  \/ \E p \in procs : Kill(p)
  \/ \E w \in Workers : WorkerFails(w)
  \/ ScaleUp
  \/ ScaleDown

Spec == Init /\ [][Next]_vars

\* Goroutines run, messages to live machines arrive, streams end.
FairSpec == Spec /\ WF_vars(LeaderStep) /\ WF_vars(WorkerStep)
----------------------------------------------------------------------------
\* The variables hold what the Go types let them hold.
TypeOK ==
  /\ DOMAIN allTasks \subseteq IDs
  /\ \A id \in DOMAIN allTasks :
       allTasks[id] \in [port : {"base", "added"}, worker : Workers, pid : 0..MaxLaunches,
                         state : {"Idle", "Running", "Failed", "Completed"}]
  /\ routing \subseteq IDs \X {"base", "added"} \X Workers
  /\ completedIDs \subseteq IDs /\ upscaled \subseteq IDs
  /\ expected \in Nat /\ completed = Cardinality(completedIDs)
  /\ originalsDone \in BOOLEAN /\ jobEnded \in BOOLEAN
  /\ stageCount \in 0..(NumTasks + MaxScales)
  /\ ending \subseteq IDs \X (1..MaxLaunches)
  /\ launches \in [IDs -> 0..MaxLaunches] /\ dead \subseteq Workers /\ runEnds \in Nat

\* However many completions are handled at the same time, RUN END is recorded
\* once, and only for a job that is marked as ended.
JobEndsOnce == runEnds = IF jobEnded THEN 1 ELSE 0

\* One process per task id at a time, killed tasks and their restarts included:
\* the state log of a task has one writer.
OneProcessPerTask == \A p, q \in procs : p.id = q.id => p = q

\* Where a task runs is where the routing table sends a reconnecting source,
\* after any sequence of deaths and moves.
ProcessesAreRouted == \A p \in procs : <<p.id, p.port, p.worker>> \in routing

\* RUN END comes after the last task in a job that nothing disturbs; a task that
\* was never started, or ended without a word, is not taken for completed.
UndisturbedJobEndsComplete ==
  jobEnded /\ kills = 0 /\ scales = 0 /\ dead = {} =>
    /\ procs = {}
    /\ completedIDs = Original

\* Downscaling always leaves a target to send tuples to.
StageKeepsTarget == \E a \in routing : a[1] \in Nat

\* A job whose tasks all start and end is found to have ended.
JobEnds == <>(jobEnded \/ duds > 0)
----------------------------------------------------------------------------
(* What the repository says of the end of a job and the code does not keep: *)
(* see section 5 of the README.                                             *)

\* "RUN END will be logged when all tasks complete".
RunEndAfterLastTask == jobEnded => procs = {}

\* "Wait for task to exit gracefully, force kill after timeout": a task that
\* was removed from its stage does not run any more when it is forgotten.
ForgottenIsStopped ==
  [][\A g \in scaling \ scaling' :
       g.act = "forget" => \A p \in procs' : p.id # g.index]_vars

\* "don't restart tasks after job completion".
NoRestartAfterEnd == [][jobEnded => restarting \subseteq restarting']_vars
============================================================================
