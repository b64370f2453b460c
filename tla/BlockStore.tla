----------------------------- MODULE BlockStore -----------------------------
(***************************************************************************)
(* The block store of a node (pkg/storage/blockstore.go), one file at a    *)
(* time: what CreateFile, AppendFile, MergeFile, GetAllBlocks and ReadFile *)
(* make of the file's directory. Every method holds the store's lock for   *)
(* its whole body. A block's content is the sequence of the writes in it.  *)
(* The directory is named after the file without its extension; the file   *)
(* has one, and no other file shares the rest of its name.                 *)
(*                                                                         *)
(* ClientSequenceMap always is the highest sequence number of each client  *)
(* among the blocks, so it is not kept apart. Client ids are compared as   *)
(* strings: the empty one of the CLI's create comes first, then            *)
(* "merged_content", then the host names (node1 to node10), one host's     *)
(* "host:address" (create) before its "host:rereplicate" and that before   *)
(* its "host_time" (append), and times in their order.                     *)
(***************************************************************************)
EXTENDS Naturals, Sequences, FiniteSets, SequencesExt

NoClient == <<0, 0, 0>>
MergedClient == <<0, 1, 0>>
CreateClient(host) == <<host, 1, 0>>
RereplicateClient(host) == <<host, 2, 0>>
AppendClient(host, time) == <<host, 3, time>>

ClientLess(c, d) ==
  \E i \in 1..3 : c[i] < d[i] /\ \A j \in 1..(i - 1) : c[j] = d[j]

\* The key blocks are collected under: "client:sequence".
Key(b) == <<b.client, b.seq>>

NoFile == [id |-> 0, blocks |-> <<>>, exists |-> FALSE]

NewFile(id, client, data) ==
  [id |-> id, blocks |-> <<[client |-> client, seq |-> 1, data |-> data]>>, exists |-> TRUE]

\* CreateFile fails, and changes nothing, if the directory is there.
CreateFile(f, id, client, data) == IF f.exists THEN f ELSE NewFile(id, client, data)

NextSequence(f, client) ==
  1 + Max({0} \cup {f.blocks[i].seq : i \in {k \in 1..Len(f.blocks) : f.blocks[k].client = client}})

\* AppendFile makes the file if there is none, with FileID 0.
AppendFile(f, client, data) ==
  [f EXCEPT !.exists = TRUE,
            !.blocks = Append(@, [client |-> client, seq |-> NextSequence(f, client), data |-> data])]

GetAllBlocks(f) == ToSet(f.blocks)

\* Mutant: blocks are ordered by their sequence number first, clients backwards.
BlockLess_BySequence(a, b) ==
  a.seq < b.seq \/ (a.seq = b.seq /\ ClientLess(b.client, a.client))

BlockLess(a, b) ==
  ClientLess(a.client, b.client) \/ (a.client = b.client /\ a.seq < b.seq)

\* The blocks, which have different keys, in the order of BlockLess: k - 1 of
\* them come before the k-th.
Sorted(blocks) ==
  [k \in 1..Cardinality(blocks) |->
     CHOOSE b \in blocks : Cardinality({c \in blocks : BlockLess(c, b)}) = k - 1]

\* MergeFile replaces the blocks by the given ones, sorted; the FileID stays.
MergeFile(f, blocks) == [f EXCEPT !.blocks = Sorted(blocks)]

ReadFile(f) == FlattenSeq([i \in 1..Len(f.blocks) |-> f.blocks[i].data])
============================================================================
