# A TLA+ verification of the distributed stream processor

RainStorm runs stream-processing jobs on a cluster that finds its members by
gossip and keeps files in HyDFS, a replicated store on the same machines. This
directory holds TLA+ models of its core, the TLC configurations that check
them, and TLAPS proofs about each of them and of a refinement. Paths are relative to
the repository.

## 1. Inventory

| Component | State | Operations | Hard behaviour | What makes it correct |
|---|---|---|---|---|
| Membership list, `pkg/membership/member.go` | `InfoMap` id -> state, counter, timestamp; `Members`, a shuffled list; `roundRobinIndex` | Reset, Merge, UpdateStateGossip, UpdateStateSwim, Cleanup, RemoveMember, GetTarget, Heartbeat | called by the gossip loop, the CLI and TCP handlers in any order; index arithmetic on removal; revival of a Failed entry | index inside the list, a round asks nobody twice, list and map agree |
| Gossip, join, leave, `main.go` | one membership list per node, `IsActive`, `RingID` | gossip, failure and cleanup ticks; Probe, ProbeAck, GossipMsg, Leave; join and leave from CLI and client | lossy, reordering UDP; restarts under new ids; timeouts | no invented heartbeats, a live incarnation is not failed for a dead one, dead members disappear, members find each other |
| Source task, `worker.go` | line, attempt, connections | dial, send, wait for ack, retry, EOF | late acks, dead targets, giving up | acknowledged means processed |
| Operator runtime, `api.go` | `processedIDs`, `stateLogChan`, append buffer, EOF count, shutdown flag; state log on HyDFS | deduplicate, process, checkpoint, acknowledge, count EOFs, time out, shut down, recover | a handler per connection, an asynchronous checkpoint, crash anywhere, restart under the same id | nothing acknowledged or logged unprocessed, no tuple twice, EOF last, the task ends |
| Operators, `ops/*` | `CountOp.counts` | Process on a tuple or an EOF | flush with several sources | counts flushed once, complete |
| Leader, `leader.go` | `AllTasks`, routing table, expected and completed counts, `JobEnded` | submit, schedule, started, completed, failed, kill | reports overtake each other; handlers drop their locks in between; two reports of one death | one RUN END after the last task, one process per task, routed where it runs |
| Autoscaler, `leader.go` | `StageTaskCount`, `UpscaledTaskIDs` | add and remove a task | goroutines after the decision, reuse of task ids | a stage keeps a target, jobs still end |
| Worker, `worker.go` | running tasks | launch, exit, kill, reports | loss of the machine | failures reach the leader |
| Link to the next stage, `api.go`, `ops/count` | target list, connection pool with a lock per connection, EOF broadcast flag, `CountOp.flushed` | emit, lazy dial, broadcast EOF, routing update, flush | handlers share connections whose acks are left over or late; targets die, return and are added; the EOF timer | delivered means processed once, nothing dropped while its target lives, EOF after the last tuple, emit returns |
| HyDFS, `main.go`, `pkg/storage`, `pkg/hashing` | blocks per file and replica, `FileStore`, `pendingAckTargets`, the ring of Alive members | create, append, get, merge, re-replicate; join and failure start scans | chain with acks, one message per replica in any order, tables that differ, crash in the middle of a merge | an ack means all replicas stored, merges lose and repeat nothing, copies are made up for, a file outlives failures |
| SWIM and older loops, `pkg/membership/{swim,gossip,flow}.go`; `pkg/fileops` | | | not run by the node binary | not modelled |
| Log query, CLI, configuration | | | input and output only | not modelled |

Interaction: the gossip loop maintains the membership list; the leader reads
the live workers from it (`GetAliveWorkers`). The leader sends `schedule_task`
to workers, which run tasks and report on a fresh connection per message.
Sources and operators talk over TCP with stop-and-wait acknowledgements. An
operator's checkpoint is a file on HyDFS, read when its task starts. HyDFS reads
the membership list for its ring. A change of the list by a failure tick, by gossip
or by a Leave starts a scan for files to re-replicate (`main.go:566`, `652`, `671`); one
merged from a Probe or its answer does not (`main.go:606`, `677-684`).

`PROJECT.json` lists the components with their status, the source lines of each
definition, and the hazards at the lines where they bite.

## 2. Modules

    MembershipOps ---- MemberList ---- MemberListProofs
               \             \---------- MCMemberList
                Gossip ---- GossipProofs
                      \---- MCGossip
    Stage ---- StageProofs ---- StageRefinement ---- StageOutput
      |  \---- MCStage
      Delivery (INSTANCE)
    Emit ----- EmitProofs
        \----- MCEmit
    Leader --- LeaderProofs
          \--- MCLeader
    Ring, BlockStore ---- HyDFS ---- HyDFSProofs
                               \---- MCHyDFS

**MembershipOps** holds `Merge`, the timeouts, state updates and clean-up as
pure operators on an InfoMap. **MemberList** and **Gossip** share them, so what
is checked of one node's list and of the protocol is about the same code.

**MemberList** is the structure of one node. Each method holds its lock for the
whole body and is one action. `members` is the shuffled sequence; a rebuild
chooses any permutation. Elapsed time is a free choice of the entries that are
older than a threshold. `asked` and `revived` are history.

**Gossip** composes the nodes: every case of the select loop of
`startGossipLoop` is an action, and so are turns of `joinGroup`, the two kinds
of leave and join, crash and restart. An id is `<<host, version>>`, because
`HashInfo` hashes host, port and start time. Where the code ranges over a Go
map and stops at the first match, the model chooses any match. `net` is a set:
datagrams are lost and overtake each other.

**Stage** is one operator task and its sources. `src[s]` is the program counter
of `runSourceTask`. `handler[r]` says how far the connection handler is with
request `<<source, line, try>>`: `wire` (read from the connection), `checked`
(past the duplicate check), `processed` (after `op.Process`), `saved` (after the
checkpoint), `acked`. The steps are the lock sections of the handler in
`StartOperation`. `op` is the memory of the process, `chan`/`buffer`/`stateLog`
the three places an ID passes through, `output` what the task has emitted, per
tuple. `Crash` is possible at every step and `Restart` rebuilds the process
from the log; `NextJob` runs the same task ids again.

**Delivery** is the abstract specification of what a stage promises its senders,
in four sets: processed, remembered, logged, acknowledged. `Stage` instantiates it
with `memory <- op.processedIDs` and `log <- stateLog`; handlers, channel, buffer,
retries and connections are its implementation.

**Emit** is the other side of a task, where it sends. Each handler has a program
counter through `emit` (`lookup`, `dial`, `send`, `wait`) and through the end of its
stream (`stream`, `toflush`, `flush`, `mark`, `done`). `pool` is the encoder,
decoder and lock per address as one connection number, `conns` every connection
ever made with its lock and its two directions. `eof` is the broadcast, which is
run by the last handler or by the timer. Each connection has a handler at the target, in
two steps as in the code: `Accept` is the duplicate check and, of a new tuple, the
processing, after which the connection is `busy`; `Serve` enters the ID and acknowledges.
Between them the handler of another connection may check the same tuple.

**Ring** gives the successors of a point by counting who comes before; **BlockStore**
has the methods of the store as operators on one file. **HyDFS** composes them: the
nodes' views, stores and pending acks, and a set of messages handled in any order.
The handlers of `handleNodeConnection` and the commands are actions;
`handleCLIMerge` is split where it waits for replicas, and `merge_update` between
its deletion and its new file. `Crash`, `Join`, `LearnFailed`, `LearnJoined` and
`LearnByProbe` change tables at any moment on each node. `LearnFailed` and `LearnJoined`
go on with `StartScan`, which starts `checkAndRereplicate` with the table it reads; a table
merged from a Probe or its answer, and a join's own Probe, start none. `unscanned` has the
nodes whose table has changed like that with no scan after it. It, `chains`, `landed`,
`burst`, `torn` and `fresh` are history.

**Leader** is one job at the leader and the workers. A handler that gives its
locks up is split where it does; what it carries over is in `unsent`,
`tracking`, `restarting`, `ending` or `scaling`.

The `MC` modules only define the constants' values. Operators named
`X_Something` before a definition `X` are mutated forms of it: `PROJECT.json`
names, for each property, the one that makes TLC find it violated.

## 3. Abstractions

* **Time.** No clocks. A timeout may happen whenever the model lets it, and
  constants say what is excluded. `LateHosts` (Gossip): the hosts whose
  entries may be found older than 5 s while they still heartbeat; for the
  others gossip arrives often enough. `SlowCleanup = TRUE`: an entry is not
  deleted after 30 s as long as a live copy of it is anywhere. `Slow` (Stage) names what may exceed the fixed
  waits: `"ack"` (an ack takes longer than 5 s to arrive), `"handler"` (a handler
  takes longer than the ack deadline and the shutdown wait), `"source"` (a source
  ends more than 5 s after another). Without `"handler"`, a handler
  finishes before its source gives up waiting.
* **Data.** Tuples, addresses and ids are small values. `CountOp.counts` is kept
  per tuple, not per key: that counts of one key add up is not in question. Client ids in
  the block store are numbers in the order of their strings, `merged_content` before every
  host name, as it is for `node1` to `node10` of `src/config.json`; hosts named otherwise
  could come first.
* **One step or several.** In Stage, `CountOp`'s flush is one step; Emit has it key
  by key. The lock sections of `addTaskToStage` are one step, and so are those of
  `removeTaskFromStage` before its grace period: the read of `AllTasks` at their
  start commutes with what others do before the update. `RestartTask` updates `AllTasks`
  and the routing table and sends `schedule_task` in one step (`leader.go:1101-1127`,
  locked one by one in the code); no checked property looks in between. The Leaves that
  one call sends to several members go out in one step. One `joinGroup` runs at a time on
  a node.
* **Start-up of an operator.** It listens from the start, and its connections to the
  next stage are made by Emit's lazy dial: the two seconds it waits and its first dials
  (`api.go:176-237`), during which a source may use up its five dials, are left out. So
  is the first call of the count operator: `CountOpWrapper.Process` tests and sets
  `initialized` without a lock (`ops/count/main.go:79-92`), so two handlers may each make a
  `CountOp`, and what was counted in the first is gone. No property here is about it:
  `NoDoubleCount` bounds the counts from above only.
* **Environment.** A killed worker leaves at least one, and `GetAliveWorkers`
  returns exactly the living: the delay of the failure detector is Gossip's
  subject. How long tasks run is left open in Leader, and what they compute is
  Stage's subject. In Stage an emitted tuple arrives; Emit is about whether it does.
  In HyDFS nobody is failed falsely, disks work, and a node that a table has dropped does
  not come back to it by old gossip with a higher counter.
* **Waits.** `Late` (Emit): the EOF timer and the exit may come while tuples are
  being emitted. `LateAppends` (HyDFS): an append may take longer than the 500 ms the
  command waits. `Overlaps` (HyDFS): what may happen while a merge goes on, of
  writes, other merges, table changes and crashes.
* **Files.** One file, whose name has an extension no other file shares the stem
  with: `getFileDir` strips it, so that `a.txt` and `a.log` would be one file. Content
  is the sequence of write numbers. A file id passes through a float64 in every
  message, and `Float64` rounds it (`Grain`).
* **Source.** The dial that asks the leader for a new address finds the one
  target Stage has. Sources have no process and cannot be killed on their own.

## 4. Passing runs

| Run | Instance | Shows |
|---|---|---|
| `member_list` | 3 ids, counters 0..1, every message over them | `IndexInBounds`, `NoRepeatInRound`, `OnlyRevivedUnlisted`, `FailedIsSticky` under all orders of calls. Three ids let a removal fall before, at and behind the index. |
| `gossip_safe` | 2 hosts, counters 0..1; the second lives twice, may leave, and may be timed out while it beats; early clean-up | `BeatsAreReal`, `TargetsAreLive` in the harshest timing. One datagram in flight already mixes two lives, since a host's next process reads what was sent to the last. With both hosts late or leaving, the run takes over four minutes; it finds no violation either as far as it was followed (4 million states). |
| `gossip_accurate` | 2 hosts, both live twice, nobody late, nobody leaves | `OnlySilentAreFailed`, `SelfIsListed`: late news of a dead incarnation does not hit the next. Counters only matter for revivals; with counters 0..1 the same properties hold over 1.57 million states, which takes over three minutes, so the kept configuration uses 0. |
| `gossip_live` | 3 hosts, one life each | `Completeness`, `Convergence`. Counter 0 suffices: with nobody late, a live entry never needs a revival. Three hosts are needed for a dead entry to travel by a third party. |
| `stage_crash` | a counting sink, 2 sources, 2 lines, 2 tries, one crash, failing HyDFS, channel of 1 | `LogIsTruthful`, `AckMeansApplied`, `NoDoubleCount`, with truncation of the output at a restart. The channel of one entry is full at once, so both checkpoint paths are taken. `ImplementsDelivery` is the refinement. |
| `stage_eof` | the same in the middle of a job, with an operator that passes tuples on | `ExactlyOnceOutput`, `NothingAfterEOF`. |
| `stage_live` | 2 sources, 2 jobs, late sources, no crash | `Finishes`: also when the EOF timeout ends the task under a source that is still sending, and shutdown meets busy handlers. |
| `leader_kill` | a source and one task, 2 workers, 2 faults, each a kill or a launch that fails | `JobEndsOnce`, `OneProcessPerTask`, `ProcessesAreRouted`, `UndisturbedJobEndsComplete`, `JobEnds`. The second kill can hit the restarted task before the reports of the first are handled, and a restart can fail to launch. |
| `leader_scale` | 2 tasks, 2 workers of which one may die, 2 scaling decisions | `StageKeepsTarget`, and that a task id counts as completed once (`TypeOK`); two decisions cover down-down, down-up, up-down and up-up. |
| `hydfs` | ring ids 2, 4, 6 and a joining 8, 2 replicas, file at 7; a client on node 4; 1 create, 2 appends, 1 merge, 2 crashes, 4 events in all of which a join counts as two | `AckMeansStored`, `KeepsWrites`, `MergeReconciles`, `Rereplicated`, `FileSurvives`, `OrderPerClient`. At 7 the ring wraps around; node 4 is a replica at first and none after the join, and node 8 becomes the primary. Two replicas make a chain of two and a single failure tolerable, as three do with two failures. `Grain = 4` moves the id from 7 to 8, so that rounded and unrounded ids both occur. `Rereplicated` and `FileSurvives` are for a file whose first write is a create, while nobody has joined, and count failures from a moment at which everything was at rest and the primary had scanned since its table last changed; the second holds at every moment after that and not only at rest; `OrderPerClient` is for nodes that create the file once. Section 5 has what happens outside. |
| `emit` | 2 handlers, an operator that passes on and one that counts with 2 keys, a target joined by a second one, 2 attempts, one death | `DeliveredIsProcessed`, `DropsNeedDeath`, `OncePerTarget` with the duplicate check and the entry of the ID in different steps, `EOFIsLast`, `EmitReturns`. Two attempts are enough for a left-over ack to use one up; 6 connections are never exceeded. |

`CHECK_DEADLOCK FALSE` stands where the system may stop: a finished job, hosts
that have used up their incarnations. `member_list` is checked for deadlock.
Model values are symmetric only where no constant singles one out and no
liveness is checked.

## 5. Where the code and its documentation disagree

`stage_recover` checks one sentence of the repository and shows that the code does
not keep it: a restarted task is said to resume with its state, but it recovers IDs
and not counts. The finding in `PROJECT.json` quotes the sentence with its line.

Other disagreements come up at the borders of the passing runs. The properties are
in the modules, and the change of constants named here makes TLC refute them:

| Property, module | Constants | The code |
|---|---|---|
| `ExactlyOnceOutput`, Stage ("no tuples are lost or duplicated", `README.md:141`) | `stage_recover` with `Op = "pass"`, `MaxCrashes = 0`, `MaxJobs = 2` | the state log of a job is found by the next one, whose tuples are rejected as duplicates (`api.go:64-102`) |
| `JobEnds`, Leader ("worker/task failures are detected via the Stage 2 membership protocol; the leader reschedules tasks", `docs/REQUIREMENTS.md:76-78`) | `leader_kill` with `MaxKills = 0`, `MaxDeaths = 1` | only the worker itself reports its tasks (`server.go:155`); when it dies, nobody does. The run ends in a state where nothing is left to do, so more fairness would not help |
| `NoDoubleCount`, Stage ("no tuples are lost or duplicated", `README.md:141`) | `stage_recover` with `MaxCrashes = 0`, `Slow <- LateHandlers` | the duplicate check and the entry of the ID are separate lock sections (`api.go:614-654`); a retry after the 5 s ack deadline passes the check while the first attempt is processed |
| `AckedIsPersisted`, Stage ("Checkpoint to HyDFS BEFORE sending ACK", `api.go:633`) | `stage_recover` with `MaxCrashes = 0` | the ack goes out while the ID is in `stateLogChan` (`api.go:637-641`) |
| `FlushedAtEndOfStream`, Stage ("should be called at end of stream", `ops/count/main.go:53`) | `stage_crash` | the counts are flushed at the first EOF (`ops/count/main.go:29-31`) |
| `EOFOnlyWhenAllEnded`, Stage ("if a source died, we may never get all EOFs", `api.go:389`) | `stage_live` | the EOF timeout also cuts off a slow source (`api.go:391-405`) |
| `Finishes`, Stage ("a restarted task resumes", `docs/REQUIREMENTS.md:79-81`) | `stage_live` with `MaxCrashes = 1` | EOF is sent once, unacknowledged (`worker.go:606-612`); a task killed after it waits for ever |
| `Completeness`, Gossip ("in **all** lists within **6 seconds**", `docs/REQUIREMENTS.md:31-32`) | `FairSpec`, `gossip_accurate` with `MaxVersion <- PeerRejoins`, `SlowCleanup = TRUE` | two nodes hand a dead incarnation to each other, each removing and re-entering it (`main.go:625-656`) |
| `RejoinIsNewIncarnation`, Gossip ("rejoin with a new incarnation", `main.go:2353`) | `gossip_safe` | not once clean-up has deleted the own entry (`main.go:2300`) |
| `ProbeLeavesOneIncarnation`, Gossip ("to prevent duplicate counting", `main.go:581`) | `gossip_accurate` | one other entry is removed, in map order (`main.go:584-601`) |
| `RunEndAfterLastTask`, Leader ("when all tasks complete", `leader.go:250`) | `leader_kill` | unsuccessful completions count (`leader.go:940-945`) |
| `NoRestartAfterEnd`, Leader ("don't restart tasks after job completion", `leader.go:1034`) | `leader_kill` | `JobEnded` is read in one lock section of `HandleTaskFailure` (`leader.go:1034-1037`), the restart comes after several others |
| `JobEnds`, Leader ("RUN END will be logged when all tasks complete", `leader.go:250`) | `FairSpec`, `leader_scale` with `MaxDeaths = 0` and no symmetry | a task id removed and added again is expected twice and counted once (`leader.go:709`, `766`) |
| `ForgottenIsStopped`, Leader ("force kill after timeout", `leader.go:782`) | `leader_scale` | the task was entered as completed by the removal itself (`leader.go:766`), so the kill is never sent |
| `DropsOnlyDead`, Emit ("Retry logic for fault tolerance", `api.go:475`) | `emit` | all attempts use the old connection (`api.go:477-514`); a target that is back meanwhile is not dialled and the tuple is dropped |
| `NoPanic`, Emit ("Establish connection now for EOF delivery", `api.go:344`) | `emit` | the broadcast's connection gets no decoder (`api.go:345-352`); the next `emit` on it uses a nil pointer |
| `FlushBeforeEOF`, Emit ("should be called at end of stream", `ops/count/main.go:53`) | `emit` | the EOF timer broadcasts while `FlushCounts` is still emitting |
| `RereplicatedAtRest`, HyDFS ("data is re-replicated after any failure", `docs/REQUIREMENTS.md:54-55`) | `hydfs` | a primary that learns of a failure from a Probe or its answer, as after the command `join` on a running node (`main.go:1377-1386`), merges it without looking at the result (`main.go:606`, `677-684`). No scan follows and gossip brings nothing new later, so the new successor stays without a copy; when the nodes that have one fail before another change starts a scan, the file is lost |
| `SurvivesAnyFailure`, HyDFS ("data is re-replicated after any failure", `docs/REQUIREMENTS.md:54-55`) | `hydfs` | an append that reaches a new replica before its copy makes a partial file with id 0; the copy is refused as existing (`main.go:1098-1102`), and the next failure loses the created content |
| `ReadableAfterJoin`, HyDFS ("re-balanced when machines join", `docs/REQUIREMENTS.md:55`) | `hydfs` | scans send from the primary only (`main.go:388`); a joining node that becomes the primary has no file, and the nodes that have it do not send |
| `Converges`, HyDFS ("once updates quiesce, all replicas of a file converge", `docs/REQUIREMENTS.md:59-60`) | `hydfs` | without a `merge` nothing reconciles replicas; the CLI's create leaves its own replica out (`main.go:2427`) |
| `AppendsInOrder`, HyDFS ("one client's appends to a file land in the order issued", `docs/REQUIREMENTS.md:57-58`) | `hydfs` | appends come on connections of their own; only a merge sorts them |
| `KeepsWrites`, HyDFS (as `Converges`) | `hydfs` with `Overlaps = {"write"}` | an append that arrives while a merge collects, or between the deletion and the new copy (`main.go:1246-1258`), is lost |
| `KeepsWrites` without its `merges <= 1 /\ WriteCount("create") <= 1`, HyDFS (as `Converges`) | `hydfs` with `Nodes` and `Started` {2, 4, 6, 8}, `Introducer = 4`, `Clients = {4, 8}`, `NumReplicas = 3`, `FileHash = 1`, one create, one append, `MaxMerges = 3`, `MaxEvents = 9` (too large to exhaust; found by a search that prefers merges) | every merge names its result `merged_content` with counter 1 (`main.go:1258`). When the second of two merges is cut short by the crash of the primary, replicas hold different blocks under that key, and of these the third keeps the one it meets last (`main.go:2729`): the append that only the other has is lost |
| `Rereplicated` without its `Joins = 0`, HyDFS ("re-balanced when machines join", `docs/REQUIREMENTS.md:55`) | `hydfs` with `FileHash = 5`, one create, no append, merge or crash | the introducer enters a joining node when it answers the `Probe`, and no scan follows (`checkAndRereplicate` is called in `main.go:566`, `652` and `671`). When it is the primary itself, the new successor never gets a copy |
| `FileSurvives` without its `Joins = 0`, HyDFS (as `SurvivesAnyFailure`) | `hydfs` | a node that joins and becomes the primary has no file, and the nodes that have it do not send while it lives (`main.go:388`). With `MaxEvents = 6` and no append or merge, two failures with a rest between them then leave no copy anywhere |
| `Rereplicated`, HyDFS ("to avoid float64 precision loss", `main.go:128`) | `hydfs` with `Nodes` and `Started` {2, 4, 7}, `Introducer = 7`, `Clients = {2}`, one create, no append or merge | node ids travel as strings, the file id as a float64 (`main.go:143`, `775`). Rounding moves it from 7 past node 7, which therefore does not take itself for the primary in a scan; the node it does take for the primary has no file. `RoundsWell` of HyDFSProofs excludes it; with 64 bit hashes and 2^10 of rounding it needs a node just there |
| `OrderPerClient` without its `CreatesOnce`, HyDFS (as `AppendsInOrder`) | `hydfs` with `Nodes` {2, 4, 6}, `FileHash = 5`, `MaxCreates = 2`, `MaxAppends = 0`, `MaxMerges = 2`, `MaxCrashes = 0`, `MaxEvents = 5` | the CLI's create sends no client id (`main.go:2471-2475`), a create by command names the node. When one replica has taken the first and another one the second, a merge sorts the block without a client to the front, although it was written later |

## 6. Fairness

* **Gossip:** strong fairness of sending to each member that gets through (the
  ticker fires every 250 ms, the round robin reaches everybody, and of
  infinitely many datagrams some arrive); weak fairness of receiving and of the
  failure tick. Crash, start, leave and join carry none.
* **Stage:** weak fairness of every goroutine and of each wait that has a deadline;
  of `Restart`, because the leader restarts a killed task; none of `Crash` and
  `NextJob`.
* **Leader:** weak fairness of the handlers and workers, including that a task
  ends, which is Stage's `Finishes`; none of kills, worker deaths and scaling.

* **Emit:** weak fairness of the handlers together, of the broadcast and of the
  targets' `Accept` and `Serve` together. It is less than the scheduler gives; a target that hangs
  without dying is excluded, because `emit` has no deadline (`api.go:494`). None of
  the timer, exit, routing updates, deaths and restarts.
* **HyDFS:** safety only. Acks and appends are sent once, so there is little that
  must happen; at rest is where re-replication is judged.

## 7. Proofs

The eight modules are checked by TLAPS for all values of the constants, from the
assumptions of the modules they are about: sets of ids, hosts, sources, workers, targets
and nodes are finite and bounds are naturals. A theorem that needs more says so in its
own `ASSUME`; the reason is given below. Each action has a lemma, with a step for each
conjunct it disturbs.

**MemberListProofs**: `TypeOK`, `IndexInBounds`, `NoRepeatInRound`,
`OnlyRevivedUnlisted` and the action property `FailedIsSticky`. The inductive
invariant adds `MembersDistinct`: `RemoveMember` deletes the first occurrence
and shifts the index by comparing positions, so with a repeated id the list
would still hold the removed member, and the index argument would fail. The
lemmas `ShuffleFacts` (a permutation lists each element once) and `DroppedFacts`
(what removal does to positions) carry the sequence reasoning.

**GossipProofs**: `TypeOK`, `BeatsAreReal`, `TargetsAreLive` for every timing, number
of incarnations and loss. They are inductive only together (`Inv`): a merge that fails
an entry must also take it out of the list, and it does so only for counters that are
real. `OnlySilentAreFailed` and `SelfIsListed` hold when nobody leaves and no live host
is late, which is how the run has it too: a late heartbeat is what a false suspicion is.
`SteadyAccuracy` says it host by host: whatever late and leaving hosts do, a host that
is neither is never held failed while it beats, and never loses its own entry.
`AccuracyInv` adds to that what datagrams carry: tables that fail only incarnations that
are over, no Leave of a steady host, and probes for the introducer only.

**StageProofs**: `TypeOK`, `LogIsTruthful` and `AckMeansApplied`. Neither
is inductive: the log grows from what handlers hold and `acked` from what they
answer. `HandlersKnow` says that a request past processing, or
acknowledged, is of a tuple the operator ran on, and `WaitsForLine` that
sources wait for acks of tuples only, so an EOF never enters the log. The
proof covers any number of crashes, jobs, lost appends and every choice of
`Slow`.

**StageRefinement**: Stage implements Delivery. The step that needs an
invariant is a source reading an ack: Delivery acknowledges only what the
process remembers now. `AcksAreFresh` says that an ack under way comes from the
running process and that its ID is in `processedIDs`; a crash and an exit close
the connections with the acks on them. With it, and `Inv` of StageProofs for what
is logged and remembered, every action is one step of Delivery or a stutter.

**StageOutput**: `NoDoubleCount`, `NothingAfterEOF` and `ExactlyOnceOutput`. The
duplicate check and the entry of the ID are separate lock sections, so all three need
`"handler" \notin Slow`; section 5 has the run that shows what happens otherwise.
`OneRequest` is what the assumption gives: a source has one request under way, and it is
the one it waits for. The EOF theorems need `"source" \notin Slow` as well, because the
EOF timeout cuts a slow source off. `ExactlyOnce` is for an operator that passes tuples
on (`count` emits at its flush) and for the first job (a second one finds the state log
of the first). `FirstLife` relates the sources' lines to `processedIDs` and the output as
long as nothing was killed.

**EmitProofs**: `TypeOK`, `DeliveredIsProcessed`, `OncePerTarget`, `EOFIsLast` and
`DropsNeedDeath`. `Base` has types and that whoever emits has a connection to its own
target. `Lane` is about tuples under way: one that waits on a connection is where its
handler sends it and is repeated there only, so no two connections carry it (`Single`),
whatever routing updates, lazy dials and the broadcast put into the pool. `OncePerTarget`
needs it, since the target checks for duplicates in one step and enters the ID in a later
one: two connections with the same tuple would both pass the check. `Service` adds that an
ack on the wire is of a tuple its target has processed, and that a target which has not
died has applied what it knows or has in hand, once. `Flow` follows the tuples from
handler to delivered or given up, which makes the EOF the last. `Drops` counts: on a
connection to a target that has not died there is at most one answer more under way than
the holder of its lock waits for, so of two attempts one reads the right ack. Hence
`MaxTries >= 2` (the code has five, `api.go:477`); target lists name a target once, as
the leader makes them from task ids.

**LeaderProofs**: `TypeOK` (with the bound on launches, and that a task id counts as
completed once), `StageKeepsTarget`, `JobEndsOnce`, `UndisturbedJobEndsComplete` for all
numbers of workers, tasks, kills, deaths and scaling decisions; `OneProcessPerTask` and
`ProcessesAreRouted` while `scales = 0`. The argument follows tokens: a task has one
wherever its next process is in the making, in the submission loop, a `schedule_task`, the
process, the report of its failure, the handler of that report. `LaunchBound` counts
them; `OneToken` keeps the token of a task unique and its address in the routing table.
With scaling an id can be added again while its old process still runs, so the two
properties are for the time before the first decision, and `leader_kill` has none.

**HyDFSProofs**: `SuccessorsStable` is the lemma about the ring that consistent
hashing is used for: when members fail, no other node loses its place among the
successors of a file. `TypeOK` and `AckMeansStored` hold whatever meets a merge (any
`Overlaps`), from `Sound`: no block store holds a key twice, messages have a live
receiver, and what travels along a chain was stored by all nodes before. `Reconciles` is
`MergeReconciles` for any ring, number of replicas and whatever blocks the replicas
had. `Alone` gives the stages of a merge that nothing has met: the request, the driver, the
updates and their second halves, each replica having the merged content or exactly one
message that brings it. The theorem assumes that merges do not overlap (`"merge" \notin
Overlaps`), because a second command starts from the state of the first one's middle.
What `FlattenSeq` makes of the blocks is shown by induction over the naturals in the form
of sets (a set with 0 that is closed under successor holds all of `Nat`), the form in
which no operator has to be instantiated.

`Keeps` is `KeepsWrites` for any ring, number of replicas, appends, joins and crashes,
under `Overlaps \subseteq {"crash"}`: a write that meets a merge is lost (section 5), a
crash that meets it loses nothing. The invariant `Kept` says in which stage a merge is and
where a landed write is in it: on the disk of its node (`Quiet`, `Requested`), there and,
once the node has been visited, in what the primary has collected (`Collecting`), on the disk of the
primary too (`Sending`), and at last on the disk or in the one update that is to replace it
(`Updating`). `Labels` is why collecting loses nothing: the merge keeps one of several
blocks with the same client and counter, so these must be the same block wherever they
are. They are as long as an append names its client, there was one create, and nobody has
yet written a `merged_content`; a copy made by re-replication is on one node only. With a
second create or after a first merge that fails, and the property is restricted
accordingly.

`Rereplicates` and `Survives` are `Rereplicated` and `FileSurvives`, for any ring, number
of replicas, appends and merges and for crashes at any moment, those within a merge
included. They assume `Overlaps \subseteq {"crash"}` and `RoundsWell`: rounding the file's
id moves it past no node (section 5 shows what happens otherwise). `Alive` is the
inductive invariant. Once the create has been stored on all replicas, `Guarded` says:
every copy on a disk or in a message holds what was created (`Copied`, `Carried`); among
the nodes that were replicas when all was last whole those that live have the file
(`Remain`); and if a successor is without it, the primary has yet to learn of a failure,
has learned of it without a scan (`unscanned`), has a scan to run, or the copy is on its way
(`Mending`). The system is whole (`Whole`) when it is at rest and the primary is not in the
second of these cases; without that clause `Rereplicated` is false (`RereplicatedAtRest`,
section 5). The last part of `Mending` is why scans that ran on old tables,
copies that come late and copies that are refused do no harm. `SuccessorsStable` gives the
step from one such moment to the next: fewer than `NumReplicas` failures leave a replica, and it
has become the first. Before the create is complete, `Begun` follows its chain, and
`Blank` says that nothing else makes a file, which is why the create must be the first
write: an append to a file that is not there makes a partial one with id 0. Nobody may
have joined: a new primary without the file stops re-replication (section 5).

`InOrder` is `OrderPerClient` for any ring, number of replicas, appends and merges, when
neither a write nor a second merge meets a merge (`"write"`, `"merge" \notin Overlaps`).
The order comes from `BlockLess`, the block's client and counter, so the invariant `Lined`
has to know what the blocks are made of: a create's block of its own, an append's of its
own with a client that contains the write's number, or a whole content that an earlier
merge has put in order. Its stages are `Loose` (blocks of creates and appends, or one
content that all replicas have from the last merge, with the blocks of appends that came
after it), `Joined` (the primary has the merged content) and `Renewed` (the replicas have
it or an update under way brings it). A merged content sorts before later appends, which
is right only if no earlier append is still to come; for that the invariant follows the
appends under way (`Underway`, `Heading`), and a merge that meets no write has none. A
crash or a join ends what the property is about (`Steady`), so nothing is assumed of them.
`CreatesOnce` is needed because a CLI create has no client at all (section 5).

Only model-checked:

* all liveness (`Finishes`, `JobEnds`, `Completeness`, `Convergence`, `EmitReturns`), which
  is out of the prover's reach;
* `OneProcessPerTask` and `ProcessesAreRouted` after a scaling decision, where the code
  does not keep them in general.

Every invariant and every safety action property that a passing run checks is also a
theorem.

## 8. Not modelled, and the plan

Not modelled, with the reason:

* **SWIM and the older loops** of `pkg/membership`, and `pkg/fileops`: the node binary
  does not run them. The one place where it touches `pkg/fileops`, the directory
  both stores share, is part of HyDFS (`CLICreate`).
* **The HyDFS copy of a sink's output** and the metrics reports: side channels whose
  loss is logged and changes nothing else.
* **The input file and its partitioning, rates and cooldown** of the autoscaler: pure
  arithmetic, and times that the models leave open anyway.
* **multiappend, getfromreplica, ls, liststore, log query, CLI parsing and
  configuration**, which read, print or send commands modelled elsewhere.
* **Failing disks and several files with one stem.**

What is left, most important first:

1. **Two stages**: Emit and Stage composed over the same connections, with two count
   tasks and a rescale between them (`count-<key>` is an ID of both).
2. **HyDFS under Stage**: the state log as a HyDFS file whose replicas differ.
3. **MemberList** as a set with a fair choice of targets, as an abstract
   specification.
