------------------------------- MODULE HyDFS -------------------------------
(***************************************************************************)
(* One file of HyDFS on the nodes of the ring (main.go): create along the  *)
(* replication chain, append to every replica, merge driven by the primary *)
(* and re-replication after a membership change, with nodes that crash,    *)
(* join and learn of each other at different times.                        *)
(*                                                                         *)
(* A node is its ring id; a host that restarts comes back as another node  *)
(* that may find its old disk. view[n] are the entries Alive in n's table; *)
(* how views come about is Gossip's subject, here nobody is failed falsely.*)
(* Every NodeMessage goes over a connection of its own, so messages to one *)
(* node are handled in any order; those to a node that is down are lost.   *)
(* The writes of create and append are numbered as they are issued.        *)
(***************************************************************************)
EXTENDS Naturals, Sequences, FiniteSets, BlockStore, Ring

CONSTANTS
  Nodes,        \* ring ids
  Started,      \* the nodes that are up, and know each other, at first
  Introducer,   \* the node joins go through
  Clients,      \* the nodes where commands are given
  NumReplicas,  \* hashing.NumReplicas (3 in the code)
  FileHash,     \* HashString of the file's name
  Grain,        \* what a file id is rounded to as a float64 (2048 near 2^64)
  MaxCreates, MaxAppends, MaxMerges, MaxCrashes,  \* bounds: commands, crashes,
  MaxEvents,    \* ... and these together with joins, which count twice
  Overlaps,     \* what may happen while a merge goes on
  LateAppends   \* may an append take longer than the 500 ms after it is sent?

ASSUME RingAssumption ==
  /\ Nodes \subseteq Nat \ {0} /\ IsFiniteSet(Nodes)
  /\ Introducer \in Started /\ Started \subseteq Nodes /\ Clients \subseteq Nodes
  /\ NumReplicas \in Nat \ {0} /\ FileHash \in Nat \ {0} /\ Grain \in Nat \ {0}
ASSUME BoundAssumption ==
  /\ MaxCreates \in Nat /\ MaxAppends \in Nat /\ MaxMerges \in Nat /\ MaxCrashes \in Nat
  /\ MaxEvents \in Nat
  /\ LateAppends \in BOOLEAN
  /\ Overlaps \subseteq {"write", "merge", "table", "crash"}

VARIABLES
  up,          \* is the node's process running?
  view,        \* the nodes Alive in its membership table
  store,       \* the file in its block store
  fileStore,   \* nodes whose FileStore map has the file's name
  pendingAck,  \* pendingAckTargets[file], 0 for none
  net,         \* messages under way or waiting for their handler
  scans,       \* re-replication scans that are running, with the table they read
  merge,       \* the merge a node is driving
  writes,      \* history: who issued each write, and whether it was a create
  merges,      \* history: merge commands so far
  fresh,       \* history: is the last command a merge, and all tables right?
  unscanned,   \* history: nodes whose table has changed with no scan started since
  burst,       \* history: nodes that crashed since the system was last Whole
  chains,      \* history: the replicas creates were sent to; acked: along the chain?
  landed,      \* history: <<write, node>> of every write a block store took in
  torn         \* history: has a command met a membership change, or its aftermath,
               \* or a create by the CLI left a replica without a block?

vars == <<up, view, store, fileStore, pendingAck, net, scans, merge,
          writes, merges, fresh, unscanned, burst, chains, landed, torn>>

\* uint64(float64(id)): the file id after its way through a JSON message.
Float64(id) == ((id + Grain \div 2) \div Grain) * Grain

Idle == [phase |-> "idle", succ |-> {}, left |-> {}, blocks |-> {}]
Crashes == Cardinality({n \in Nodes : ~up[n] /\ view[n] # {}})
Joins == Cardinality({n \in Nodes \ Started : view[n] # {}})
MoreEvents == Len(writes) + merges + Crashes + 2 * Joins < MaxEvents
WriteCount(kind) == Cardinality({w \in 1..Len(writes) : writes[w].kind = kind})
Holds(n) == store[n].exists
Items(f) == ToSet(ReadFile(f))
Up == {n \in Nodes : up[n]}

\* Mutant: messages wait for a node that is gone.
Reachable_Queued(messages) == messages

\* Dials to nodes that are down fail; the sender logs that and goes on.
Reachable(messages) == {m \in messages : up[m.to]}
Send(rest, messages) == net' = rest \cup Reachable(messages)

MergeTypes == {"merge_request", "merge_update", "merge_recreate"}
MergeGoesOn == \/ \E n \in Nodes : merge[n].phase # "idle"
               \/ \E m \in net : m.type \in MergeTypes
During(what) == MergeGoesOn => what \in Overlaps
WriteGoesOn == \E m \in net : m.type \in {"replicate_file", "append_file"}

TablesRight == \A n \in Up : view[n] = Up

\* The aftermath of every change is over: the tables are right, copies have arrived,
\* and the file's primary has scanned by the table it has.
Settled ==
  /\ TablesRight /\ scans = {} /\ \A m \in net : m.type # "rereplicate_file"
  /\ Up # {} => Primary(FileHash, Up) \notin unscanned

\* Nothing is under way and every table is right.
AtRest == net = {} /\ scans = {} /\ ~MergeGoesOn /\ TablesRight

\* At rest, with the aftermath of every change over.
Whole == AtRest /\ Settled
----------------------------------------------------------------------------
(* create *)

Replicate(from, succ, k, next, ack, w, client) ==
  [type |-> "replicate_file", from |-> from, to |-> succ[k], succ |-> succ, index |-> k, next |-> next,
   ack |-> ack, write |-> w, client |-> client]

\* IsLastInChain, with somebody to answer to.
IsLast(m) == m.index = Len(m.succ) /\ m.ack # 0

\* The client command "create" on node n. A primary stores the file and starts
\* the chain behind itself; any other node sends it to the primary and answers
\* after 3 seconds without having looked for the ack.
Create(n) ==
  LET succ == GetSuccessors(FileHash, view[n], NumReplicas)
      w == Len(writes) + 1
      next == Len(succ) > 1
  IN
  /\ up[n] /\ During("write") /\ MoreEvents /\ n \notin fileStore /\ WriteCount("create") < MaxCreates
  /\ \/ /\ succ[1] = n /\ ~Holds(n)
        /\ store' = [store EXCEPT ![n] = CreateFile(@, FileHash, CreateClient(n), <<w>>)]
        /\ fileStore' = fileStore \cup {n}
        /\ landed' = landed \cup {<<w, n>>}
        /\ Send(net, IF next THEN {Replicate(n, succ, 2, Len(succ) > 2, n, w, CreateClient(n))} ELSE {})
     \/ /\ succ[1] # n /\ up[succ[1]]
        /\ Send(net, {Replicate(n, succ, 1, next, n, w, CreateClient(n))})
        /\ UNCHANGED <<store, fileStore, landed>>
  /\ writes' = Append(writes, [by |-> n, kind |-> "create"])
  /\ chains' = chains \cup {[write |-> w, succ |-> succ, acked |-> TRUE]}
  /\ fresh' = FALSE
  /\ torn' = (torn \/ ~Settled)
  /\ UNCHANGED <<up, view, pendingAck, scans, merge, merges, unscanned, burst>>

\* The CLI's "create": no chain and no ack, a message to each other replica. A
\* copy of its own is a plain file beside the block store's directories, where none
\* of the other commands looks (the file's name has an extension, see BlockStore).
CLICreate(n) ==
  LET succ == Successors(FileHash, view[n], NumReplicas)
      w == Len(writes) + 1
      replicas == GetSuccessors(FileHash, view[n], NumReplicas)
  IN
  /\ up[n] /\ During("write") /\ MoreEvents /\ n \notin fileStore /\ WriteCount("create") < MaxCreates
  /\ fileStore' = IF n \in succ THEN fileStore \cup {n} ELSE fileStore
  /\ Send(net, {Replicate(n, <<r>>, 1, FALSE, 0, w, NoClient) : r \in succ \ {n}})
  /\ writes' = Append(writes, [by |-> n, kind |-> "create"])
  /\ chains' = chains \cup {[write |-> w, succ |-> replicas, acked |-> FALSE]}
  /\ fresh' = FALSE
  /\ torn' = (torn \/ ~Settled \/ n \in succ)
  /\ UNCHANGED <<up, view, store, pendingAck, scans, merge, merges, unscanned, burst, landed>>

\* Mutant: every node of the chain acknowledges at once.
AckAfterStore_Eager(m) == m.ack # 0

\* Only the last node of the chain answers by itself.
AckAfterStore(m) == IsLast(m)

\* A node that has the file already stops the chain without a word. Else it
\* stores, remembers whom to acknowledge to and passes the file on; the address
\* after the next comes from its own table.
RecvReplicate(m) ==
  LET n == m.to
      k == m.index + 1
      next == k < Len(m.succ) /\ m.succ[k + 1] \in view[n]
      forward == IF ~IsLast(m) /\ m.next
                 THEN {Replicate(n, m.succ, k, next, n, m.write, m.client)} ELSE {}
      answer == IF AckAfterStore(m) THEN {[type |-> "replication_ack", from |-> n, to |-> m.ack]} ELSE {}
  IN
  /\ m \in net /\ m.type = "replicate_file"
  /\ \/ Holds(n) /\ Send(net \ {m}, {}) /\ UNCHANGED <<store, fileStore, pendingAck, landed>>
     \/ /\ ~Holds(n)
        /\ store' = [store EXCEPT ![n] = CreateFile(@, Float64(FileHash), m.client, <<m.write>>)]
        /\ fileStore' = fileStore \cup {n}
        /\ pendingAck' = IF IsLast(m) \/ m.ack = 0 THEN pendingAck ELSE [pendingAck EXCEPT ![n] = m.ack]
        /\ landed' = landed \cup {<<m.write, n>>}
        /\ Send(net \ {m}, forward \cup answer)
  /\ UNCHANGED <<up, view, scans, merge, writes, merges, fresh, unscanned, burst, chains, torn>>

\* The ack travels back up; at the coordinator it ends.
RecvAck(m) ==
  LET n == m.to
      onward == IF pendingAck[n] # 0
                THEN {[type |-> "replication_ack", from |-> n, to |-> pendingAck[n]]} ELSE {}
  IN
  /\ m \in net /\ m.type = "replication_ack"
  /\ pendingAck' = [pendingAck EXCEPT ![n] = 0]
  /\ Send(net \ {m}, onward)
  /\ UNCHANGED <<up, view, store, fileStore, scans, merge, writes, merges, fresh, unscanned,
                 burst, chains, landed, torn>>
----------------------------------------------------------------------------
(* append *)

\* "append" on node n: one message to every replica it knows, no answer.
AppendTo(n) ==
  LET w == Len(writes) + 1 IN
  /\ up[n] /\ During("write") /\ MoreEvents /\ WriteCount("append") < MaxAppends
  /\ LateAppends \/ \A m \in net : m.type = "append_file" => m.client[1] # n
  /\ Send(net, {[type |-> "append_file", from |-> n, to |-> r, client |-> AppendClient(n, w), write |-> w] :
                  r \in Successors(FileHash, view[n], NumReplicas)})
  /\ writes' = Append(writes, [by |-> n, kind |-> "append"])
  /\ fresh' = FALSE
  /\ torn' = (torn \/ ~Settled)
  /\ UNCHANGED <<up, view, store, fileStore, pendingAck, scans, merge, merges, unscanned, burst,
                 chains, landed>>

\* A node that takes itself for a replica appends, any other one forwards to
\* the primary, which may have had the append from the client already.
RecvAppend(m) ==
  LET n == m.to IN
  /\ m \in net /\ m.type = "append_file"
  /\ \/ /\ n \in Successors(FileHash, view[n], NumReplicas)
        /\ store' = [store EXCEPT ![n] = AppendFile(@, m.client, <<m.write>>)]
        /\ landed' = landed \cup {<<m.write, n>>}
        /\ Send(net \ {m}, {})
     \/ /\ n \notin Successors(FileHash, view[n], NumReplicas)
        /\ Send(net \ {m}, {[m EXCEPT !.from = n, !.to = Primary(FileHash, view[n])]})
        /\ UNCHANGED <<store, landed>>
  /\ UNCHANGED <<up, view, fileStore, pendingAck, scans, merge, writes, merges, fresh, unscanned,
                 burst, chains, torn>>
----------------------------------------------------------------------------
(* merge: handleCLIMerge and its messages *)

\* Started by a command or a merge_request; a node that is not the primary asks
\* the one it takes for it. A node drives one merge at a time in the model.
StartMerge(n, rest) ==
  LET succ == Successors(FileHash, view[n], NumReplicas) IN
  \/ /\ Primary(FileHash, view[n]) = n /\ merge[n].phase = "idle"
     /\ merge' = [merge EXCEPT ![n] =
                    [phase |-> "collect", succ |-> succ, left |-> succ, blocks |-> {}]]
     /\ net' = rest
  \/ /\ Primary(FileHash, view[n]) # n
     /\ Send(rest, {[type |-> "merge_request", from |-> n, to |-> Primary(FileHash, view[n])]})
     /\ UNCHANGED merge

Merge(n) ==
  /\ up[n] /\ MoreEvents /\ merges < MaxMerges
  /\ "merge" \in Overlaps \/ (net = {} /\ scans = {} /\ ~MergeGoesOn)
  /\ merges' = merges + 1
  /\ fresh' = TablesRight
  /\ torn' = (torn \/ ~Settled)
  /\ StartMerge(n, net)
  /\ UNCHANGED <<up, view, store, fileStore, pendingAck, scans, writes, unscanned, burst, chains,
                 landed>>

RecvMergeRequest(m) ==
  /\ m \in net /\ m.type = "merge_request"
  /\ StartMerge(m.to, net \ {m})
  /\ UNCHANGED <<up, view, store, fileStore, pendingAck, scans, writes, merges, fresh, unscanned,
                 burst, chains, landed, torn>>

\* Mutant: blocks collected earlier are thrown away.
Collected_Last(old, new) == new

\* allBlocks[key] = block: the block that comes last wins its key.
Collected(old, new) == {b \in old : \A c \in new : Key(b) # Key(c)} \cup new

\* One replica's answer; one that is down or has no file gives nothing.
MergeCollect(n, r) ==
  /\ merge[n].phase = "collect" /\ r \in merge[n].left
  /\ merge' = [merge EXCEPT
                 ![n].left = @ \ {r},
                 ![n].blocks = IF up[r] /\ Holds(r) THEN Collected(@, GetAllBlocks(store[r])) ELSE @]
  /\ UNCHANGED <<up, view, store, fileStore, pendingAck, net, scans, writes, merges, fresh,
                 unscanned, burst, chains, landed, torn>>

\* MergeFile on the primary; without a file there the merge is given up.
MergeLocally(n) ==
  /\ merge[n].phase = "collect" /\ merge[n].left = {}
  /\ \/ /\ Holds(n)
        /\ store' = [store EXCEPT ![n] = MergeFile(@, merge[n].blocks)]
        /\ merge' = [merge EXCEPT ![n].phase = "send", ![n].blocks = {}]
     \/ ~Holds(n) /\ merge' = [merge EXCEPT ![n] = Idle] /\ UNCHANGED store
  /\ UNCHANGED <<up, view, fileStore, pendingAck, net, scans, writes, merges, fresh, unscanned,
                 burst, chains, landed, torn>>

\* ReadFile, then one merge_update to every replica, the primary included.
MergeSend(n) ==
  /\ merge[n].phase = "send"
  /\ merge' = [merge EXCEPT ![n] = Idle]
  /\ Send(net, IF Holds(n)
               THEN {[type |-> "merge_update", from |-> n, to |-> r, data |-> ReadFile(store[n])] :
                       r \in merge[n].succ}
               ELSE {})
  /\ UNCHANGED <<up, view, store, fileStore, pendingAck, scans, writes, merges, fresh, unscanned,
                 burst, chains, landed, torn>>

\* Mutant: the old copy is not deleted first.
RecvMergeUpdate_KeepsOld(m) ==
  /\ m \in net /\ m.type = "merge_update"
  /\ net' = (net \ {m}) \cup {[m EXCEPT !.type = "merge_recreate", !.from = m.to]}
  /\ UNCHANGED <<up, view, store, fileStore, pendingAck, scans, merge, writes, merges, fresh,
                 unscanned, burst, chains, landed, torn>>

\* The update of a replica: DeleteFile ...
RecvMergeUpdate(m) ==
  /\ m \in net /\ m.type = "merge_update"
  /\ store' = [store EXCEPT ![m.to] = NoFile]
  /\ net' = (net \ {m}) \cup {[m EXCEPT !.type = "merge_recreate", !.from = m.to]}
  /\ UNCHANGED <<up, view, fileStore, pendingAck, scans, merge, writes, merges, fresh, unscanned,
                 burst, chains, landed, torn>>

\* ... and CreateFile, which fails if an append has made the file anew.
Recreate(m) ==
  /\ m \in net /\ m.type = "merge_recreate"
  /\ store' = [store EXCEPT ![m.to] =
                 CreateFile(@, Float64(FileHash), MergedClient, m.data)]
  /\ net' = net \ {m}
  /\ UNCHANGED <<up, view, fileStore, pendingAck, scans, merge, writes, merges, fresh, unscanned,
                 burst, chains, landed, torn>>
----------------------------------------------------------------------------
(* Membership changes and re-replication *)

\* The process dies with its memory, its connections and whatever it had not
\* got around to send; the disk stays.
Crash(n) ==
  /\ up[n] /\ During("crash") /\ MoreEvents /\ Crashes < MaxCrashes
  /\ up' = [up EXCEPT ![n] = FALSE]
  /\ fileStore' = fileStore \ {n}
  /\ pendingAck' = [pendingAck EXCEPT ![n] = 0]
  /\ \E unsent \in SUBSET {m \in net : m.from = n} : net' = {m \in net \ unsent : m.to # n}
  /\ scans' = {s \in scans : s.node # n}
  /\ merge' = [merge EXCEPT ![n] = Idle]
  /\ burst' = (IF Whole /\ Cardinality(burst) < NumReplicas THEN {} ELSE burst) \cup {n}
  /\ unscanned' = unscanned \ {n}
  /\ torn' = (torn \/ WriteGoesOn)
  /\ fresh' = FALSE
  /\ UNCHANGED <<view, store, writes, merges, chains, landed>>

\* Mutant: tables change, but nothing is checked.
StartScan_Never(n) == UNCHANGED scans

StartScan(n) == scans' = scans \cup {[node |-> n, view |-> view'[n]]}

\* n finds nodes gone failed, by its own timeout, by gossip or by a Leave.
LearnFailed(n, gone) ==
  /\ up[n] /\ During("table") /\ gone # {}
  /\ view' = [view EXCEPT ![n] = @ \ gone]
  /\ StartScan(n) /\ unscanned' = unscanned \ {n}
  /\ torn' = (torn \/ WriteGoesOn)
  /\ UNCHANGED <<up, store, fileStore, pendingAck, net, merge, writes, merges, fresh, burst,
                 chains, landed>>

\* A host starts, with an empty disk or with that of an earlier life, and joins
\* through the introducer; neither the Probe nor its answer starts a scan.
Join(n) ==
  /\ During("table") /\ MoreEvents /\ ~up[n] /\ view[n] = {} /\ up[Introducer]
  /\ up' = [up EXCEPT ![n] = TRUE]
  /\ view' = [view EXCEPT ![n] = view[Introducer] \cup {n}, ![Introducer] = @ \cup {n}]
  /\ unscanned' = unscanned \cup {n, Introducer}
  /\ \/ UNCHANGED store
     \/ \E d \in {x \in Nodes : ~up[x] /\ view[x] # {} /\ Holds(x)} :
          store' = [store EXCEPT ![n] = store[d], ![d] = NoFile]
  /\ fresh' = FALSE
  /\ torn' = (torn \/ WriteGoesOn)
  /\ UNCHANGED <<fileStore, pendingAck, net, scans, merge, writes, merges, burst, chains, landed>>

\* The others hear of it by gossip.
LearnJoined(n, new) ==
  /\ up[n] /\ During("table") /\ new # {}
  /\ view' = [view EXCEPT ![n] = @ \cup new]
  /\ StartScan(n) /\ unscanned' = unscanned \ {n}
  /\ torn' = (torn \/ WriteGoesOn)
  /\ UNCHANGED <<up, store, fileStore, pendingAck, net, merge, writes, merges, fresh, burst,
                 chains, landed>>

\* The command "join" on a node that is running sends its table to the introducer
\* in a Probe, and the answer has the introducer's. n merges what the other one, m,
\* has sent; the result of Merge is not looked at, and no scan follows.
LearnByProbe(n, m) ==
  /\ up[n] /\ During("table") /\ n # m /\ Introducer \in {n, m} /\ view[m] # {}
  /\ \E gone \in SUBSET (view[n] \ (Up \cup view[m])), new \in SUBSET ((Up \cap view[m]) \ view[n]) :
       gone \cup new # {} /\ view' = [view EXCEPT ![n] = (@ \ gone) \cup new]
  /\ unscanned' = unscanned \cup {n}
  /\ torn' = (torn \/ WriteGoesOn)
  /\ UNCHANGED <<up, store, fileStore, pendingAck, net, scans, merge, writes, merges, fresh,
                 burst, chains, landed>>

\* Mutant: the node itself is counted among the others.
ScanTargets_OneShort(n, f, v) ==
  IF Primary(f.id, v) = n THEN Successors(f.id, v, NumReplicas - 1) \ {n} ELSE {}

\* Whom checkAndRereplicate on n sends its file f to, by the table v: only the
\* primary by the FileID of its metadata sends, and to all other successors.
ScanTargets(n, f, v) ==
  IF Primary(f.id, v) = n THEN Successors(f.id, v, NumReplicas) \ {n} ELSE {}

Scan(s) ==
  LET n == s.node
      f == store[n]
  IN
  /\ s \in scans
  /\ scans' = scans \ {s}
  /\ Send(net, IF Holds(n)
               THEN {[type |-> "rereplicate_file", from |-> n, to |-> r, id |-> Float64(f.id),
                      data |-> ReadFile(f)] : r \in ScanTargets(n, f, s.view)}
               ELSE {})
  /\ UNCHANGED <<up, view, store, fileStore, pendingAck, merge, writes, merges, fresh, unscanned,
                 burst, chains, landed, torn>>

\* A copy that is there already, however old, is left as it is.
RecvRereplicate(m) ==
  /\ m \in net /\ m.type = "rereplicate_file"
  /\ store' = [store EXCEPT ![m.to] = CreateFile(@, m.id, RereplicateClient(m.to), m.data)]
  /\ net' = net \ {m}
  /\ UNCHANGED <<up, view, fileStore, pendingAck, scans, merge, writes, merges, fresh, unscanned,
                 burst, chains, landed, torn>>
----------------------------------------------------------------------------
Init ==
  /\ up = [n \in Nodes |-> n \in Started]
  /\ view = [n \in Nodes |-> IF n \in Started THEN Started ELSE {}]
  /\ store = [n \in Nodes |-> NoFile]
  /\ fileStore = {}
  /\ pendingAck = [n \in Nodes |-> 0]
  /\ net = {} /\ scans = {}
  /\ merge = [n \in Nodes |-> Idle]
  /\ writes = <<>> /\ merges = 0 /\ fresh = FALSE /\ torn = FALSE
  /\ unscanned = {} /\ burst = {} /\ chains = {} /\ landed = {}

Receive(m) ==
  \/ RecvReplicate(m) \/ RecvAck(m) \/ RecvAppend(m) \/ RecvRereplicate(m)
  \/ RecvMergeRequest(m) \/ RecvMergeUpdate(m) \/ Recreate(m)

Next ==
  \/ \E m \in net : Receive(m)
  \/ \E n \in Nodes :
       \/ n \in Clients /\ (Create(n) \/ CLICreate(n) \/ AppendTo(n) \/ Merge(n))
       \/ MergeLocally(n) \/ MergeSend(n)
       \/ \E r \in Nodes : MergeCollect(n, r)
       \/ Crash(n) \/ Join(n)
       \/ \E gone \in SUBSET (view[n] \ Up) : LearnFailed(n, gone)
       \/ \E new \in SUBSET (Up \ view[n]) : LearnJoined(n, new)
       \/ \E m \in Nodes : LearnByProbe(n, m)
  \/ \E s \in scans : Scan(s)

Spec == Init /\ [][Next]_vars
----------------------------------------------------------------------------
Blocks == [client : Nat \X Nat \X Nat, seq : Nat, data : Seq(Nat)]
Files == [id : Nat, blocks : Seq(Blocks), exists : BOOLEAN]
Merges ==
  [phase : {"idle", "collect", "send"}, succ : SUBSET Nodes, left : SUBSET Nodes,
   blocks : SUBSET Blocks]

\* The variables hold what the Go types let them hold; nobody talks to a node
\* that is down.
TypeOK ==
  /\ up \in [Nodes -> BOOLEAN] /\ view \in [Nodes -> SUBSET Nodes]
  /\ store \in [Nodes -> Files] /\ fileStore \subseteq Nodes
  /\ pendingAck \in [Nodes -> Nodes \cup {0}]
  /\ \A m \in net : up[m.to]
  /\ scans \subseteq [node : Up, view : SUBSET Nodes]
  /\ merge \in [Nodes -> Merges]

\* Every node of the chain has had the file.
Stored(c) == \A i \in 1..Len(c.succ) : <<c.write, c.succ[i]>> \in landed

\* An acknowledgement on its way up means that some create has been stored by
\* every node of its chain, whichever nodes have failed since.
AckMeansStored ==
  \A m \in net : m.type = "replication_ack" =>
    \E c \in chains : c.acked /\ Stored(c)

\* What a replica has taken in it keeps, through a merge, re-replications and
\* the loss of other nodes, unless the merge met another operation. It is about
\* one create and one merge: a second one may leave replicas with different
\* blocks under one key (merged_content:1, CreateClient:1), and of those the
\* next merge keeps one.
KeepsWrites ==
  ~MergeGoesOn /\ merges <= 1 /\ WriteCount("create") <= 1 =>
    \A e \in landed : up[e[2]] => e[1] \in Items(store[e[2]])

\* After a merge that ran alone the replicas are identical, those included
\* that were missing a write, the whole file or the order of the others.
MergeReconciles ==
  LET succ == Successors(FileHash, Up, NumReplicas) IN
  fresh /\ AtRest /\ Up # {} /\ Holds(Primary(FileHash, Up)) =>
    \A r \in succ : Holds(r) /\ ReadFile(store[r]) = ReadFile(store[Primary(FileHash, Up)])

\* All replicas have stored the create c, the first write of the file; no
\* command has met a membership change, nobody has joined, and fewer than
\* NumReplicas nodes have failed since the system was last whole.
Tolerable(c) ==
  c.write = 1 /\ Stored(c) /\ ~torn /\ Joins = 0 /\ Cardinality(burst) < NumReplicas

\* Re-replication is complete: at rest every successor has a copy, and what was
\* created is in it, whoever has failed, in whatever order the nodes learned of
\* it and their scans and copies overtook each other. It is about a primary that
\* learned of the last failures in a way that starts a scan: see RereplicatedAtRest.
Rereplicated ==
  Whole /\ (\E c \in chains : Tolerable(c)) =>
    \A r \in Successors(FileHash, Up, NumReplicas) : Holds(r) /\ 1 \in Items(store[r])

\* What get answers: the primary's copy, by the client node's table. (A node
\* without the file that takes another one for the primary asks it; at rest the
\* tables agree.)
Get(n) ==
  LET p == Primary(FileHash, view[n]) IN IF up[p] THEN store[p] ELSE NoFile

\* A created file survives any number of failures: at every moment, while copies
\* are still being made up for, a get that reaches a live primary finds what was
\* created, unless a merge is just replacing the copies.
FileSurvives ==
  \A c \in chains : Tolerable(c) /\ ~MergeGoesOn =>
    \A n \in Up : up[Primary(FileHash, view[n])] => c.write \in Items(Get(n))

Steady == \A n \in Nodes : up[n] = (n \in Started) /\ view[n] = IF up[n] THEN Started ELSE {}

CreatesOnce ==
  \A v, w \in 1..Len(writes) : writes[v].kind = "create" /\ writes[v] = writes[w] => v = w

\* After a merge with a fixed membership no write is there twice, and the appends
\* of one node are in the order of their issue, whichever replicas had missed or
\* swapped them. It is about nodes that create the file once: of two creates by
\* the commands of a node and of its CLI, the CLI's always comes first.
OrderPerClient ==
  fresh /\ AtRest /\ Steady /\ CreatesOnce =>
    \A n \in Up : LET s == ReadFile(store[n]) IN
      \A i, j \in 1..Len(s) : i < j /\ writes[s[i]] = writes[s[j]] => s[i] < s[j]
----------------------------------------------------------------------------
(* What the repository says of the file system and the code does not keep: *)
(* see section 5 of the README.                                            *)

\* "data is re-replicated after any failure", also while others write.
SurvivesAnyFailure ==
  \A c \in chains :
    Stored(c) /\ AtRest /\ Up \subseteq Started /\ Cardinality(burst) < NumReplicas =>
      \A n \in Up : c.write \in Items(Get(n))

\* ... and whichever message tells the primary of it.
RereplicatedAtRest ==
  AtRest /\ (\E c \in chains : Tolerable(c)) =>
    \A r \in Successors(FileHash, Up, NumReplicas) : Holds(r) /\ 1 \in Items(store[r])

\* "re-balanced when machines join".
ReadableAfterJoin ==
  \A c \in chains :
    Stored(c) /\ AtRest /\ ~torn /\ burst = {} => \A n \in Up : c.write \in Items(Get(n))

\* "once updates quiesce, all replicas of a file converge to identical contents".
Converges ==
  AtRest => \A r, q \in Successors(FileHash, Up, NumReplicas) :
              ReadFile(store[r]) = ReadFile(store[q])

\* "one client's appends to a file land in the order issued".
AppendsInOrder ==
  \A n \in Up : LET s == ReadFile(store[n]) IN
    \A i, j \in 1..Len(s) : i < j /\ writes[s[i]] = writes[s[j]] => s[i] < s[j]
============================================================================
