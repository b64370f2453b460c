-------------------------------- MODULE Emit --------------------------------
(***************************************************************************)
(* How a task of a middle stage passes its output on: emit, the EOF        *)
(* broadcast and the routing updates of StartOperation                     *)
(* (pkg/rainstorm/api.go), with the flush of ops/count at the end of the   *)
(* stream. Handlers share a pool of connections, one per target address;   *)
(* the tasks behind the addresses may die and come back.                   *)
(*                                                                         *)
(* One handler stands for the connection of each source. What arrives on   *)
(* it is reduced to the tuples it makes the task emit, <<handler, n>>, with *)
(* n as the hash of the key. At a target the duplicate check and the entry  *)
(* of the ID are two steps of the handler of each connection; the log and  *)
(* the output there are Stage's subject.                                   *)
(***************************************************************************)
EXTENDS Naturals, Sequences, FiniteSets, SequencesExt

CONSTANTS
  Handlers,     \* one per source: numSources of them
  Lines, Keys,  \* tuples per handler; keys in the map of count
  Ops,          \* the operators to be looked at: "pass", "count"
  Targets,      \* addresses of the next stage
  FirstList,    \* the -targets flag
  Updates,      \* target lists the leader may send
  MaxTries,     \* attempts per tuple (5 in the code)
  MaxUpdates, MaxCrashes, MaxConns,  \* bounds: routing updates, deaths, connections
  Late          \* may the EOF timeout and the exit come while tuples are emitted?

ASSUME EmitAssumption ==
  /\ IsFiniteSet(Handlers) /\ Handlers # {} /\ IsFiniteSet(Targets) /\ 0 \notin Handlers
  /\ FirstList \in Seq(Targets) /\ FirstList # <<>>
  /\ \A u \in Updates : u \in Seq(Targets) /\ u # <<>>
  /\ Ops \subseteq {"pass", "count"} /\ Late \in BOOLEAN
  /\ Lines \in Nat /\ Keys \in Nat /\ MaxTries \in Nat \ {0} /\ MaxUpdates \in Nat /\ MaxCrashes \in Nat
  /\ MaxConns \in Nat /\ MaxConns >= Len(FirstList)

VARIABLES
  op,          \* the operator this task runs
  status,      \* its process: "up", "exited", "panicked"
  hnd,         \* the handlers, see NewHandler
  mu,          \* who holds CountOp.mu, 0 for nobody
  flushed,     \* CountOp.flushed
  targetList,
  pool,        \* targetEncoders and targetDecoders by address
  conns,       \* every connection ever made, in the order of the dials
  dialling,    \* addresses a routing update is connecting to
  eof,         \* EOF markers counted, the timer, the broadcast
  shutdown,    \* shutdownChan has been signalled
  up, known,   \* the target tasks, and the IDs each of them rejects
  busy,        \* connections whose handler at the target is past the duplicate check
  applied,     \* history: how often each target processed each tuple
  delivered,   \* history: <<tuple, address>> emit has had the ack of
  lost,        \* history: <<tuple, address>> emit has given up
  routed,      \* history: routing updates so far
  deaths       \* history: addresses of the targets that died

vars == <<op, status, hnd, mu, flushed, targetList, pool, conns, dialling, eof, shutdown,
          up, known, busy, applied, delivered, lost, routed, deaths>>

NumSources == Cardinality(Handlers)
Outputs(h) == {h} \X (1..(IF op = "pass" THEN Lines ELSE Keys))
Tuples == Handlers \X (1..(IF Lines > Keys THEN Lines ELSE Keys))
EOF == <<0, 0>>
NoConn == [conn |-> 0, decoder |-> FALSE]

\* ph: receiving tuples, about to flush, flushing, about to count its EOF, done.
\* pc: where emit stands with the tuple t for the address to.
NewHandler(work) ==
  [ph |-> "stream", work |-> work, pc |-> "idle", t |-> EOF, to |-> 0, conn |-> NoConn, try |-> 1]

NewConn(to) == [to |-> to, open |-> TRUE, lock |-> 0, req |-> <<>>, ack |-> <<>>]

Emitting(h) == hnd[h].pc # "idle"
Left(h) == hnd[h].work
----------------------------------------------------------------------------
(* emit on a tuple *)

\* Hash partitioning over the list as it is now.
Route(h) ==
  /\ status = "up" /\ hnd[h].pc = "idle" /\ hnd[h].ph \in {"stream", "flush"}
  /\ \E t \in Left(h) :
       /\ op = "pass" => \A u \in Left(h) : t[2] <= u[2]
       /\ hnd' = [hnd EXCEPT ![h].work = @ \ {t}, ![h].pc = "lookup", ![h].t = t, ![h].try = 1,
                             ![h].to = targetList[1 + (t[2] % Len(targetList))]]
  /\ UNCHANGED <<op, status, mu, flushed, targetList, pool, conns, dialling, eof, shutdown,
                 up, known, busy, applied, delivered, lost, routed, deaths>>

\* The connection in the pool, if there is one.
Lookup(h) ==
  LET c == pool[hnd[h].to] IN
  /\ status = "up" /\ hnd[h].pc = "lookup"
  /\ hnd' = [hnd EXCEPT ![h].conn = c, ![h].pc = IF c.conn = 0 THEN "dial" ELSE "send"]
  /\ UNCHANGED <<op, status, mu, flushed, targetList, pool, conns, dialling, eof, shutdown,
                 up, known, busy, applied, delivered, lost, routed, deaths>>

\* A new connection replaces the one the pool may have got meanwhile.
Connect(a, decoder) ==
  /\ Len(conns) < MaxConns
  /\ conns' = Append(conns, NewConn(a))
  /\ pool' = [pool EXCEPT ![a] = [conn |-> Len(conns) + 1, decoder |-> decoder]]

GiveUp(h) ==
  /\ lost' = lost \cup {<<hnd[h].t, hnd[h].to>>}
  /\ hnd' = [hnd EXCEPT ![h].pc = "idle", ![h].conn = NoConn]

\* The lazy connection: five dials, then the tuple is dropped.
Dial(h) ==
  LET a == hnd[h].to IN
  /\ status = "up" /\ hnd[h].pc = "dial"
  /\ \/ /\ up[a] /\ Connect(a, TRUE)
        /\ hnd' = [hnd EXCEPT ![h].conn = pool'[a], ![h].pc = "send"]
        /\ UNCHANGED lost
     \/ ~up[a] /\ GiveUp(h) /\ UNCHANGED <<pool, conns>>
  /\ UNCHANGED <<op, status, mu, flushed, targetList, dialling, eof, shutdown,
                 up, known, busy, applied, delivered, routed, deaths>>

\* Mutant: a failed attempt is not repeated.
NextTry_Never(h) == MaxTries + 1

NextTry(h) == hnd[h].try + 1

\* Mutant: one attempt too many.
Retry_OneMore(h) ==
  \/ /\ NextTry(h) <= MaxTries + 1
     /\ hnd' = [hnd EXCEPT ![h].try = NextTry(h), ![h].pc = "send"]
     /\ UNCHANGED lost
  \/ NextTry(h) > MaxTries + 1 /\ GiveUp(h)

\* Mutant: every attempt looks the connection up again.
Retry_Redials(h) ==
  \/ /\ NextTry(h) <= MaxTries
     /\ hnd' = [hnd EXCEPT ![h].try = NextTry(h), ![h].pc = "lookup"]
     /\ UNCHANGED lost
  \/ NextTry(h) > MaxTries /\ GiveUp(h)

\* What comes after a failed attempt; the connection is never replaced.
Retry(h) ==
  \/ /\ NextTry(h) <= MaxTries
     /\ hnd' = [hnd EXCEPT ![h].try = NextTry(h), ![h].pc = "send"]
     /\ UNCHANGED lost
  \/ NextTry(h) > MaxTries /\ GiveUp(h)

\* Mutant: the lock is not given back with the tuple.
LockAfter_Kept(h) == h

\* The lock is kept from one attempt to the next.
LockAfter(h) == IF NextTry(h) <= MaxTries THEN h ELSE 0

\* Encode, under the connection's lock. To a peer that is gone it fails at once
\* or at the ack.
Encode(h) ==
  LET i == hnd[h].conn.conn
      c == conns[i]
  IN
  /\ status = "up" /\ hnd[h].pc = "send" /\ c.lock \in {0, h}
  /\ \/ /\ c.open
        /\ conns' = [conns EXCEPT ![i].lock = h, ![i].req = Append(@, hnd[h].t)]
        /\ hnd' = [hnd EXCEPT ![h].pc = "wait"]
        /\ UNCHANGED lost
     \/ /\ ~c.open
        /\ conns' = [conns EXCEPT ![i].lock = h]
        /\ hnd' = [hnd EXCEPT ![h].pc = "wait"]
        /\ UNCHANGED lost
     \/ /\ ~c.open
        /\ conns' = [conns EXCEPT ![i].lock = LockAfter(h)]
        /\ Retry(h)
  /\ UNCHANGED <<op, status, mu, flushed, targetList, pool, dialling, eof, shutdown,
                 up, known, busy, applied, delivered, routed, deaths>>

\* Mutant: any ack will do.
Confirms_Any(id, t) == TRUE

Confirms(id, t) == id = t

\* Decode: an ack, perhaps one that is left over; the end of the connection; or
\* the nil decoder of a connection the broadcast made. There is no deadline.
Decode(h) ==
  LET i == hnd[h].conn.conn
      c == conns[i]
      confirmed == c.ack # <<>> /\ Confirms(Head(c.ack), hnd[h].t)
  IN
  /\ status = "up" /\ hnd[h].pc = "wait"
  /\ \/ /\ ~hnd[h].conn.decoder
        /\ status' = "panicked"
        /\ UNCHANGED <<hnd, conns, delivered, lost>>
     \/ /\ hnd[h].conn.decoder /\ confirmed
        /\ conns' = [conns EXCEPT ![i].lock = 0, ![i].ack = Tail(@)]
        /\ hnd' = [hnd EXCEPT ![h].pc = "idle", ![h].conn = NoConn]
        /\ delivered' = delivered \cup {<<hnd[h].t, hnd[h].to>>}
        /\ UNCHANGED <<status, lost>>
     \/ /\ hnd[h].conn.decoder /\ c.ack # <<>> /\ ~confirmed
        /\ conns' = [conns EXCEPT ![i].lock = LockAfter(h), ![i].ack = Tail(@)]
        /\ Retry(h)
        /\ UNCHANGED <<status, delivered>>
     \/ /\ hnd[h].conn.decoder /\ c.ack = <<>> /\ ~c.open
        /\ conns' = [conns EXCEPT ![i].lock = LockAfter(h)]
        /\ Retry(h)
        /\ UNCHANGED <<status, delivered>>
  /\ UNCHANGED <<op, mu, flushed, targetList, pool, dialling, eof, shutdown,
                 up, known, busy, applied, routed, deaths>>
----------------------------------------------------------------------------
(* The end of the stream *)

\* Mutant: the marker is counted before the flush.
AfterCheck_Counted(h) == [hnd EXCEPT ![h].ph = "mark"]

\* CountOp.Process on an EOF marker: the first one flushes.
AfterCheck(h) == [hnd EXCEPT ![h].ph = IF op = "count" /\ ~flushed THEN "toflush" ELSE "mark"]

CheckFlushed(h) ==
  /\ status = "up" /\ hnd[h].pc = "idle" /\ hnd[h].ph = "stream" /\ Left(h) = {}
  /\ op = "count" => mu = 0
  /\ hnd' = AfterCheck(h)
  /\ flushed' = (flushed \/ op = "count")
  /\ UNCHANGED <<op, status, mu, targetList, pool, conns, dialling, eof, shutdown,
                 up, known, busy, applied, delivered, lost, routed, deaths>>

\* FlushCounts takes the lock again and emits key by key, in any order.
StartFlush(h) ==
  /\ status = "up" /\ hnd[h].ph = "toflush" /\ mu = 0
  /\ mu' = h
  /\ hnd' = [hnd EXCEPT ![h].ph = "flush", ![h].work = Outputs(h)]
  /\ UNCHANGED <<op, status, flushed, targetList, pool, conns, dialling, eof, shutdown,
                 up, known, busy, applied, delivered, lost, routed, deaths>>

EndFlush(h) ==
  /\ status = "up" /\ hnd[h].ph = "flush" /\ hnd[h].pc = "idle" /\ Left(h) = {}
  /\ mu' = 0
  /\ hnd' = [hnd EXCEPT ![h].ph = "mark"]
  /\ UNCHANGED <<op, status, flushed, targetList, pool, conns, dialling, eof, shutdown,
                 up, known, busy, applied, delivered, lost, routed, deaths>>

\* broadcastEOF works on a copy of the list; called again it returns at once.
Broadcast(e, timer) ==
  IF e.broadcast # "no" THEN e
  ELSE [e EXCEPT !.broadcast = "next", !.left = targetList, !.byTimer = timer]

\* emit on the EOF marker.
CountEOF(h) ==
  LET e == [eof EXCEPT !.count = @ + 1] IN
  /\ status = "up" /\ hnd[h].ph = "mark"
  /\ hnd' = [hnd EXCEPT ![h].ph = "done"]
  /\ eof' = IF e.count >= NumSources THEN Broadcast(e, FALSE)
            ELSE [e EXCEPT !.timer = @ \/ e.count = 1]
  /\ shutdown' = (shutdown \/ (e.count >= NumSources /\ e.broadcast # "no"))
  /\ UNCHANGED <<op, status, mu, flushed, targetList, pool, conns, dialling,
                 up, known, busy, applied, delivered, lost, routed, deaths>>

\* Five seconds after the first EOF.
EOFTimeout ==
  /\ status = "up" /\ eof.timer
  /\ Late \/ eof.count >= NumSources
  /\ eof' = IF eof.count < NumSources THEN Broadcast([eof EXCEPT !.timer = FALSE], TRUE)
            ELSE [eof EXCEPT !.timer = FALSE]
  /\ UNCHANGED <<op, status, hnd, mu, flushed, targetList, pool, conns, dialling, shutdown,
                 up, known, busy, applied, delivered, lost, routed, deaths>>

\* The next address of the broadcast: one dial if the pool has no encoder, and
\* then no decoder is made.
BroadcastLookup ==
  LET a == Head(eof.left) IN
  /\ status = "up" /\ eof.broadcast = "next" /\ eof.left # <<>>
  /\ \/ /\ pool[a].conn # 0
        /\ eof' = [eof EXCEPT !.broadcast = "send", !.conn = pool[a].conn]
        /\ UNCHANGED <<pool, conns>>
     \/ /\ pool[a].conn = 0 /\ up[a] /\ Connect(a, FALSE)
        /\ eof' = [eof EXCEPT !.broadcast = "send", !.conn = pool'[a].conn]
     \/ /\ pool[a].conn = 0 /\ ~up[a]
        /\ eof' = [eof EXCEPT !.left = Tail(@)]
        /\ UNCHANGED <<pool, conns>>
  /\ UNCHANGED <<op, status, hnd, mu, flushed, targetList, dialling, shutdown,
                 up, known, busy, applied, delivered, lost, routed, deaths>>

\* The marker goes out under the connection's lock; its ack stays unread.
BroadcastSend ==
  LET c == conns[eof.conn] IN
  /\ status = "up" /\ eof.broadcast = "send" /\ c.lock = 0
  /\ conns' = IF c.open THEN [conns EXCEPT ![eof.conn].req = Append(@, EOF)] ELSE conns
  /\ eof' = [eof EXCEPT !.broadcast = "next", !.left = Tail(@)]
  /\ UNCHANGED <<op, status, hnd, mu, flushed, targetList, pool, dialling, shutdown,
                 up, known, busy, applied, delivered, lost, routed, deaths>>

BroadcastEnd ==
  /\ status = "up" /\ eof.broadcast = "next" /\ eof.left = <<>>
  /\ eof' = [eof EXCEPT !.broadcast = "done"]
  /\ shutdown' = TRUE
  /\ UNCHANGED <<op, status, hnd, mu, flushed, targetList, pool, conns, dialling,
                 up, known, busy, applied, delivered, lost, routed, deaths>>

\* The main goroutine waits a second and a half for the handlers.
Exit ==
  /\ status = "up" /\ shutdown
  /\ Late \/ \A h \in Handlers : hnd[h].ph = "done"
  /\ status' = "exited"
  /\ UNCHANGED <<op, hnd, mu, flushed, targetList, pool, conns, dialling, eof, shutdown,
                 up, known, busy, applied, delivered, lost, routed, deaths>>
----------------------------------------------------------------------------
(* Routing updates *)

\* The leader's routing_update: the list changes at once, the connections to
\* addresses that have none are made in the background.
RoutingUpdate(list) ==
  /\ status = "up" /\ routed < MaxUpdates /\ list # targetList
  /\ routed' = routed + 1
  /\ targetList' = list
  /\ dialling' = dialling \cup {a \in ToSet(list) : pool[a].conn = 0}
  /\ UNCHANGED <<op, status, hnd, mu, flushed, pool, conns, eof, shutdown,
                 up, known, busy, applied, delivered, lost, deaths>>

RoutingDial(a) ==
  /\ status = "up" /\ a \in dialling
  /\ dialling' = dialling \ {a}
  /\ \/ up[a] /\ Connect(a, TRUE)
     \/ ~up[a] /\ UNCHANGED <<pool, conns>>
  /\ UNCHANGED <<op, status, hnd, mu, flushed, targetList, eof, shutdown,
                 up, known, busy, applied, delivered, lost, routed, deaths>>
----------------------------------------------------------------------------
(* The tasks of the next stage *)

IsNew(a, t) == t # EOF /\ t \notin known[a]

\* The handler of a connection at the target reads a tuple that is not among
\* processedIDs, and processes it; the lock is not held meanwhile.
Accept(i) ==
  LET c == conns[i] IN
  /\ c.open /\ i \notin busy /\ c.req # <<>> /\ IsNew(c.to, Head(c.req))
  /\ busy' = busy \cup {i}
  /\ applied' = [applied EXCEPT ![c.to][Head(c.req)] = @ + 1]
  /\ UNCHANGED <<op, status, hnd, mu, flushed, targetList, pool, conns, dialling, eof, shutdown,
                 up, known, delivered, lost, routed, deaths>>

\* It enters the ID of what it has processed. That, a duplicate and an EOF are
\* acknowledged.
Serve(i) ==
  LET c == conns[i]
      t == Head(c.req)
  IN
  /\ c.open /\ c.req # <<>> /\ (i \in busy \/ ~IsNew(c.to, t))
  /\ conns' = [conns EXCEPT ![i].req = Tail(@),
                            ![i].ack = IF status = "up" THEN Append(@, t) ELSE @]
  /\ known' = IF i \in busy THEN [known EXCEPT ![c.to] = @ \cup {t}] ELSE known
  /\ busy' = busy \ {i}
  /\ UNCHANGED <<op, status, hnd, mu, flushed, targetList, pool, dialling, eof, shutdown,
                 up, applied, delivered, lost, routed, deaths>>

\* A target dies; acks that have arrived may still be read.
TargetDies(a) ==
  /\ status = "up" /\ up[a] /\ a \notin deaths /\ Cardinality(deaths) < MaxCrashes
  /\ up' = [up EXCEPT ![a] = FALSE]
  /\ deaths' = deaths \cup {a}
  /\ busy' = {i \in busy : conns[i].to # a}
  /\ \E keep \in BOOLEAN :
       conns' = [i \in 1..Len(conns) |->
                   IF conns[i].to = a
                   THEN [conns[i] EXCEPT !.open = FALSE, !.req = <<>>, !.ack = IF keep THEN @ ELSE <<>>]
                   ELSE conns[i]]
  /\ UNCHANGED <<op, status, hnd, mu, flushed, targetList, pool, dialling, eof, shutdown,
                 known, applied, delivered, lost, routed>>

\* ... and is started again under its address. It is taken to have lost its log:
\* what a restarted task rejects is Stage's subject.
TargetRestarts(a) ==
  /\ status = "up" /\ ~up[a]
  /\ up' = [up EXCEPT ![a] = TRUE]
  /\ known' = [known EXCEPT ![a] = {}]
  /\ UNCHANGED <<op, status, hnd, mu, flushed, targetList, pool, conns, dialling, eof, shutdown,
                 busy, applied, delivered, lost, routed, deaths>>
----------------------------------------------------------------------------
\* The pool is filled before the listener is opened.
Init ==
  /\ op \in Ops
  /\ status = "up"
  /\ hnd = [h \in Handlers |-> NewHandler(IF op = "pass" THEN Outputs(h) ELSE {})]
  /\ mu = 0 /\ flushed = FALSE
  /\ targetList = FirstList
  /\ conns = [i \in 1..Len(FirstList) |-> NewConn(FirstList[i])]
  /\ pool = [a \in Targets |->
               IF \E i \in 1..Len(FirstList) : FirstList[i] = a
               THEN [conn |-> CHOOSE i \in 1..Len(FirstList) : FirstList[i] = a, decoder |-> TRUE]
               ELSE NoConn]
  /\ dialling = {}
  /\ eof = [count |-> 0, timer |-> FALSE, broadcast |-> "no", left |-> <<>>, conn |-> 0,
            byTimer |-> FALSE]
  /\ shutdown = FALSE
  /\ up = [a \in Targets |-> TRUE] /\ known = [a \in Targets |-> {}] /\ busy = {}
  /\ applied = [a \in Targets |-> [t \in Tuples |-> 0]]
  /\ delivered = {} /\ lost = {} /\ routed = 0 /\ deaths = {}

EmitStep(h) == Route(h) \/ Lookup(h) \/ Dial(h) \/ Encode(h) \/ Decode(h)
EOFStep(h) == CheckFlushed(h) \/ StartFlush(h) \/ EndFlush(h) \/ CountEOF(h)
BroadcastStep == BroadcastLookup \/ BroadcastSend \/ BroadcastEnd
TargetStep(i) == Accept(i) \/ Serve(i)

Next ==
  \/ \E h \in Handlers : EmitStep(h) \/ EOFStep(h)
  \/ BroadcastStep \/ EOFTimeout \/ Exit
  \/ \E list \in Updates : RoutingUpdate(list)
  \/ \E a \in Targets : RoutingDial(a) \/ TargetDies(a) \/ TargetRestarts(a)
  \/ \E i \in 1..Len(conns) : TargetStep(i)

Spec == Init /\ [][Next]_vars

\* The handlers, the broadcast and the living targets do not all stop. This is
\* less than the scheduler gives, and enough: their steps are finitely many.
Fairness ==
  /\ WF_vars(\E h \in Handlers : EmitStep(h) \/ EOFStep(h))
  /\ WF_vars(BroadcastStep)
  /\ WF_vars(\E i \in 1..Len(conns) : TargetStep(i))

FairSpec == Spec /\ Fairness
----------------------------------------------------------------------------
HandlerStates ==
  [ph : {"stream", "toflush", "flush", "mark", "done"}, work : SUBSET Tuples,
   pc : {"idle", "lookup", "dial", "send", "wait"}, t : Tuples \cup {EOF},
   to : Targets \cup {0}, conn : [conn : 0..MaxConns, decoder : BOOLEAN], try : 1..MaxTries]

Connections ==
  [to : Targets, open : BOOLEAN, lock : Handlers \cup {0}, req : Seq(Tuples \cup {EOF}),
   ack : Seq(Tuples \cup {EOF})]

\* The variables hold what the Go types and the loops' bounds let them hold.
TypeOK ==
  /\ op \in Ops /\ status \in {"up", "exited", "panicked"}
  /\ hnd \in [Handlers -> HandlerStates] /\ mu \in Handlers \cup {0} /\ flushed \in BOOLEAN
  /\ targetList \in Seq(Targets) /\ dialling \subseteq Targets
  /\ conns \in Seq(Connections) /\ Len(conns) <= MaxConns
  /\ \A a \in Targets : pool[a].conn \in 0..Len(conns)
  /\ eof.count \in 0..NumSources /\ eof.broadcast \in {"no", "next", "send", "done"}
  /\ known \in [Targets -> SUBSET Tuples] /\ busy \subseteq 1..Len(conns)
  /\ applied \in [Targets -> [Tuples -> Nat]]
  /\ delivered \subseteq Tuples \X Targets /\ lost \subseteq Tuples \X Targets

\* What emit takes for delivered the target has processed, although acks of EOF
\* markers and of repeated tuples are left over on the connections and several
\* handlers use them.
DeliveredIsProcessed == \A d \in delivered : applied[d[2]][d[1]] > 0

\* As long as its target does not die no tuple is dropped, whatever the left
\* over acks, routing updates and connections replaced in the pool do.
DropsNeedDeath == \A d \in lost : d[2] \in deaths

\* The repetitions of emit are rejected as duplicates although a target checks
\* for them and enters the ID in different lock sections: a tuple does not go out
\* on two connections of a target, whatever is put into the pool meanwhile.
OncePerTarget == \A a \in Targets, t \in Tuples : a \notin deaths => applied[a][t] <= 1

\* An EOF that is broadcast because all markers have come is the last thing the
\* targets get: every tuple, the counts of the flush included, was emitted.
EOFIsLast ==
  eof.broadcast # "no" /\ ~eof.byTimer =>
    Cardinality({d[1] : d \in delivered \cup lost}) =
      IF op = "pass" THEN NumSources * Lines ELSE Keys

\* emit returns, also when its target dies before it answers.
EmitReturns == \A h \in Handlers : Emitting(h) ~> (~Emitting(h) \/ status # "up")
----------------------------------------------------------------------------
(* What the repository says of the pool and the flush and the code does    *)
(* not keep: see section 5 of the README.                                  *)

\* Tuples reach a task that was restarted: what is dropped had a dead target.
DropsOnlyDead == [][\A d \in lost' \ lost : ~up[d[2]]]_vars

\* The broadcast's connections can be used by emit.
NoPanic == status # "panicked"

\* FlushCounts is over when EOF goes out.
FlushBeforeEOF == eof.broadcast # "no" => \A h \in Handlers : hnd[h].ph \notin {"toflush", "flush"}
============================================================================
