----------------------------- MODULE EmitProofs -----------------------------
(***************************************************************************)
(* Proofs about emit, its pool of connections and the EOF broadcast, for   *)
(* any number of handlers, targets, tuples, routing updates and deaths.    *)
(*                                                                         *)
(* Five invariants, each on top of the first. Base: types, and every emit  *)
(* under way has a connection to its own target. Lane: a tuple waits on    *)
(* one connection at most, the one its handler repeats it on. Service: an  *)
(* ack on the wire stands for a processed tuple, and what a target has in  *)
(* hand or rejects it has processed once. Flow: no tuple is in none of the *)
(* sets it can be in. Drops: what is under way on a connection to a target *)
(* that has not died is at most one answer more than the holder of its     *)
(* lock waits for.                                                         *)
(***************************************************************************)
EXTENDS Emit, FiniteSetTheorems, SequenceTheorems, TLAPS

\* What travels on a connection.
Tags == Tuples \cup {EOF}
\* An entry of the pool: targetEncoders and targetDecoders of an address.
Encoders == [conn : 0..MaxConns, decoder : BOOLEAN]
\* The state of the EOF count, its timer and the broadcast.
EOFStates ==
  [count : Nat, timer : BOOLEAN, broadcast : {"no", "next", "send", "done"}, left : Seq(Targets),
   conn : 0..MaxConns, byTimer : BOOLEAN]

\* The types of the variables, a little more than TypeOK says.
Typing ==
  /\ op \in {"pass", "count"} /\ op \in Ops /\ status \in {"up", "exited", "panicked"}
  /\ hnd \in [Handlers -> HandlerStates] /\ mu \in Handlers \cup {0} /\ flushed \in BOOLEAN
  /\ targetList \in Seq(Targets) /\ targetList # <<>> /\ dialling \subseteq Targets
  /\ conns \in Seq(Connections) /\ Len(conns) <= MaxConns
  /\ pool \in [Targets -> Encoders] /\ \A a \in Targets : pool[a].conn <= Len(conns)
  /\ eof \in EOFStates /\ up \in [Targets -> BOOLEAN] /\ deaths \subseteq Targets
  /\ known \in [Targets -> SUBSET Tags] /\ applied \in [Targets -> [Tuples -> Nat]]
  /\ delivered \subseteq Tuples \X Targets /\ lost \subseteq Tuples \X Targets

\* An emit under way has a tuple and an address, and once it sends a connection to it.
AimedAt(h) ==
  /\ hnd[h].pc # "idle" => hnd[h].t \in Tuples /\ hnd[h].to \in Targets
  /\ hnd[h].pc \in {"send", "wait"} =>
       hnd[h].conn.conn \in 1..Len(conns) /\ conns[hnd[h].conn.conn].to = hnd[h].to

\* ... every handler.
Aimed == \A h \in Handlers : AimedAt(h)

\* The pool keeps connections under the address they go to.
PoolAimed == \A a \in Targets : pool[a].conn # 0 => conns[pool[a].conn].to = a

\* The broadcast sends to the address it is at.
BroadcastAimed ==
  eof.broadcast = "send" =>
    /\ eof.conn \in 1..Len(conns) /\ eof.left # <<>>
    /\ conns[eof.conn].to = Head(eof.left)

\* The handlers that have counted their EOF marker.
Done == {h \in Handlers : hnd[h].ph = "done"}
\* The EOF counter is their number.
Counted == eof.count = Cardinality(Done)

\* A marker is not a tuple.
LEMMA TuplesAreNotEOF == EOF \notin Tuples
BY EmitAssumption DEF Tuples, EOF

\* What a handler emits are tuples.
LEMMA OutputsAreTuples ==
  ASSUME NEW h \in Handlers PROVE Outputs(h) \subseteq Tuples
<1>1. 1..(IF op = "pass" THEN Lines ELSE Keys) \subseteq 1..(IF Lines > Keys THEN Lines ELSE Keys)
  BY EmitAssumption
<1>. QED BY <1>1 DEF Outputs, Tuples

\* What a tuple is routed to.
LEMMA RouteFacts ==
  ASSUME Typing, NEW t \in Tuples
  PROVE  targetList[1 + (t[2] % Len(targetList))] \in Targets
<1>1. Len(targetList) \in Nat \ {0} BY EmptySeq DEF Typing
<1>2. t[2] \in Nat BY EmitAssumption DEF Tuples
<1>3. t[2] % Len(targetList) \in 0..(Len(targetList) - 1) BY <1>1, <1>2
<1>4. 1 + (t[2] % Len(targetList)) \in 1..Len(targetList) BY <1>1, <1>3
<1>. QED BY <1>4, ElementOfSeq DEF Typing

\* A new connection is open, unlocked and empty.
LEMMA NewConnFacts ==
  ASSUME NEW a \in Targets
  PROVE  /\ NewConn(a) \in Connections /\ NewConn(a).to = a /\ NewConn(a).open
         /\ NewConn(a).lock = 0 /\ NewConn(a).req = <<>> /\ NewConn(a).ack = <<>>
BY EmptySeq DEF NewConn, Connections

\* A dial adds a connection and puts it into the pool.
LEMMA ConnectFacts ==
  ASSUME Typing, NEW a \in Targets, NEW d \in BOOLEAN, Connect(a, d)
  PROVE  /\ conns' \in Seq(Connections) /\ Len(conns') = Len(conns) + 1 /\ Len(conns') <= MaxConns
         /\ Len(conns) \in Nat
         /\ \A i \in 1..Len(conns) : conns'[i] = conns[i]
         /\ conns'[Len(conns) + 1] = NewConn(a)
         /\ pool' \in [Targets -> Encoders]
         /\ pool'[a] = [conn |-> Len(conns) + 1, decoder |-> d]
         /\ \A b \in Targets \ {a} : pool'[b] = pool[b]
         /\ \A b \in Targets : pool'[b].conn <= Len(conns')
<1>1. Len(conns) \in Nat /\ Len(conns) < MaxConns /\ MaxConns \in Nat
  BY LenProperties, EmitAssumption DEF Typing, Connect
<1>2. /\ conns' \in Seq(Connections) /\ Len(conns') = Len(conns) + 1
      /\ \A i \in 1..Len(conns) : conns'[i] = conns[i]
      /\ conns'[Len(conns) + 1] = NewConn(a)
  BY NewConnFacts, AppendProperties DEF Typing, Connect
<1>3. [conn |-> Len(conns) + 1, decoder |-> d] \in Encoders BY <1>1 DEF Encoders
<1>4. /\ pool' \in [Targets -> Encoders]
      /\ pool'[a] = [conn |-> Len(conns) + 1, decoder |-> d]
      /\ \A b \in Targets \ {a} : pool'[b] = pool[b]
  BY <1>3 DEF Typing, Connect
<1>5. \A b \in Targets : pool[b].conn \in Nat /\ pool[b].conn <= Len(conns)
  BY <1>1 DEF Typing, Encoders
<1>6. \A b \in Targets : pool'[b].conn <= Len(conns') BY <1>1, <1>2, <1>4, <1>5
<1>. QED BY <1>1, <1>2, <1>4, <1>6

\* One connection changes, and stays a connection to the same address.
LEMMA ConnUpdate ==
  ASSUME Typing, NEW i \in 1..Len(conns), NEW c \in Connections, c.to = conns[i].to,
         conns' = [conns EXCEPT ![i] = c]
  PROVE  /\ conns' \in Seq(Connections) /\ Len(conns') = Len(conns)
         /\ conns'[i] = c
         /\ \A j \in 1..Len(conns) : j # i => conns'[j] = conns[j]
         /\ \A j \in 1..Len(conns) : conns'[j].to = conns[j].to
<1>1. /\ conns' \in Seq(Connections) /\ Len(conns') = Len(conns)
      /\ \A j \in 1..Len(conns) : conns'[j] = IF j = i THEN c ELSE conns[j]
  BY ExceptSeq DEF Typing
<1>. QED BY <1>1

\* The fields of a connection,
LEMMA ConnTypes ==
  ASSUME Typing, NEW i \in 1..Len(conns)
  PROVE  /\ conns[i] \in Connections /\ conns[i].to \in Targets /\ conns[i].open \in BOOLEAN
         /\ conns[i].lock \in Handlers \cup {0}
         /\ conns[i].req \in Seq(Tags) /\ conns[i].ack \in Seq(Tags)
<1>1. conns[i] \in Connections BY ElementOfSeq DEF Typing
<1>. QED BY <1>1 DEF Connections, Tags

\* and of a handler.
LEMMA HandlerTypes ==
  ASSUME Typing, NEW h \in Handlers
  PROVE  /\ hnd[h] \in HandlerStates /\ hnd[h].work \subseteq Tuples /\ hnd[h].conn \in Encoders
         /\ hnd[h].t \in Tags /\ hnd[h].to \in Targets \cup {0}
         /\ hnd[h].try \in Nat /\ hnd[h].try \in 1..MaxTries /\ MaxTries \in Nat \ {0}
BY EmitAssumption, SMTT(30) DEF Typing, HandlerStates, Encoders, Tags

\* Only h's handler has moved.
Only(h) ==
  /\ hnd' \in [Handlers -> HandlerStates]
  /\ \A g \in Handlers \ {h} : hnd'[g] = hnd[g]

\* A handler gets a new state.
LEMMA HandlerUpdate ==
  ASSUME Typing, NEW h \in Handlers, NEW r \in HandlerStates, hnd' = [hnd EXCEPT ![h] = r]
  PROVE  Only(h) /\ hnd'[h] = r
BY DEF Typing, Only

\* emit's choice of a target moves one handler,
LEMMA RouteStep ==
  ASSUME Typing, NEW h \in Handlers, Route(h)
  PROVE  /\ Only(h) /\ hnd[h].ph \in {"stream", "flush"} /\ hnd[h].pc = "idle"
         /\ \E t \in hnd[h].work, a \in Targets :
              hnd'[h] = [hnd[h] EXCEPT !.work = @ \ {t}, !.pc = "lookup", !.t = t, !.try = 1, !.to = a]
<1>1. PICK t \in hnd[h].work :
        hnd' = [hnd EXCEPT ![h].work = @ \ {t}, ![h].pc = "lookup", ![h].t = t, ![h].try = 1,
                           ![h].to = targetList[1 + (t[2] % Len(targetList))]]
  BY DEF Route, Left
<1>2. t \in Tuples BY HandlerTypes
<1>. DEFINE a == targetList[1 + (t[2] % Len(targetList))]
            r == [hnd[h] EXCEPT !.work = @ \ {t}, !.pc = "lookup", !.t = t, !.try = 1, !.to = a]
<1>3. a \in Targets BY <1>2, RouteFacts
<1>4. hnd' = [hnd EXCEPT ![h] = r] BY <1>1 DEF Typing
<1>. HIDE DEF a
<1>7. t \in Tags /\ hnd[h].work \ {t} \in SUBSET Tuples /\ 1 \in 1..MaxTries /\ a \in Targets \cup {0}
  BY <1>2, <1>3, HandlerTypes DEF Tags
<1>5. r \in HandlerStates BY <1>7, HandlerTypes, ZenonT(60) DEF HandlerStates, Tags
<1>. HIDE DEF r
<1>6. Only(h) /\ hnd'[h] = r BY <1>4, <1>5, HandlerUpdate
<1>. QED BY <1>3, <1>6 DEF Route, r

\* so does the look into the pool.
LEMMA LookupStep ==
  ASSUME Typing, Aimed, NEW h \in Handlers, Lookup(h)
  PROVE  /\ Only(h) /\ hnd[h].to \in Targets
         /\ hnd'[h] = [hnd[h] EXCEPT !.conn = pool[hnd[h].to],
                                     !.pc = IF pool[hnd[h].to].conn = 0 THEN "dial" ELSE "send"]
<1>1. hnd[h].to \in Targets BY DEF Lookup, Aimed, AimedAt
<1>. DEFINE c == pool[hnd[h].to]
            r == [hnd[h] EXCEPT !.conn = c, !.pc = IF c.conn = 0 THEN "dial" ELSE "send"]
<1>2. c \in Encoders BY <1>1 DEF Typing
<1>3. hnd' = [hnd EXCEPT ![h] = r] BY DEF Typing, Lookup
<1>. HIDE DEF c
<1>6. (IF c.conn = 0 THEN "dial" ELSE "send") \in {"dial", "send"} OBVIOUS
<1>4. r \in HandlerStates BY <1>2, <1>6, HandlerTypes, ZenonT(60) DEF HandlerStates, Encoders
<1>. USE DEF c
<1>. HIDE DEF r
<1>5. Only(h) /\ hnd'[h] = r BY <1>3, <1>4, HandlerUpdate
<1>. QED BY <1>1, <1>5 DEF r

\* The handler has given up its tuple.
Quit(h) == hnd'[h] = [hnd[h] EXCEPT !.pc = "idle", !.conn = NoConn]

\* Giving up moves one handler.
LEMMA QuitFacts ==
  ASSUME Typing, NEW h \in Handlers, hnd' = [hnd EXCEPT ![h].pc = "idle", ![h].conn = NoConn]
  PROVE  Only(h) /\ Quit(h)
<1>. DEFINE r == [hnd[h] EXCEPT !.pc = "idle", !.conn = NoConn]
<1>1. hnd' = [hnd EXCEPT ![h] = r] BY DEF Typing
<1>2. NoConn \in Encoders BY EmitAssumption DEF NoConn, Encoders
<1>3. r \in HandlerStates BY <1>2, HandlerTypes, ZenonT(60) DEF HandlerStates, Encoders
<1>. HIDE DEF r
<1>4. Only(h) /\ hnd'[h] = r BY <1>1, <1>3, HandlerUpdate
<1>. QED BY <1>4 DEF r, Quit

\* The lazy connection is made, or the tuple is dropped.
LEMMA DialStep ==
  ASSUME Typing, Aimed, NEW h \in Handlers, Dial(h)
  PROVE  /\ Only(h) /\ hnd[h].pc = "dial" /\ hnd[h].to \in Targets
         /\ \/ /\ Connect(hnd[h].to, TRUE) /\ lost' = lost /\ up[hnd[h].to]
               /\ hnd'[h] = [hnd[h] EXCEPT !.conn = pool'[hnd[h].to], !.pc = "send"]
            \/ /\ Quit(h) /\ ~up[hnd[h].to] /\ pool' = pool /\ conns' = conns
               /\ lost' = lost \cup {<<hnd[h].t, hnd[h].to>>}
<1>1. hnd[h].to \in Targets /\ hnd[h].pc = "dial" BY DEF Dial, Aimed, AimedAt
<1>2. CASE up[hnd[h].to] /\ Connect(hnd[h].to, TRUE)
           /\ hnd' = [hnd EXCEPT ![h].conn = pool'[hnd[h].to], ![h].pc = "send"] /\ UNCHANGED lost
  <2>. DEFINE c == pool'[hnd[h].to]
              r == [hnd[h] EXCEPT !.conn = c, !.pc = "send"]
  <2>1. c \in Encoders BY <1>1, <1>2, ConnectFacts
  <2>2. hnd' = [hnd EXCEPT ![h] = r] BY <1>2 DEF Typing
  <2>. HIDE DEF c
  <2>3. r \in HandlerStates BY <2>1, HandlerTypes, ZenonT(60) DEF HandlerStates, Encoders
  <2>. USE DEF c
  <2>. HIDE DEF r
  <2>4. Only(h) /\ hnd'[h] = r BY <2>2, <2>3, HandlerUpdate
  <2>. QED BY <1>1, <1>2, <2>4 DEF r
<1>3. CASE ~up[hnd[h].to] /\ GiveUp(h) /\ UNCHANGED <<pool, conns>>
  <2>1. Only(h) /\ Quit(h) BY <1>3, QuitFacts DEF GiveUp
  <2>. QED BY <1>1, <1>3, <2>1 DEF GiveUp
<1>. QED BY <1>2, <1>3 DEF Dial

\* A failed attempt: once more, or never again.
Again(h) ==
  /\ hnd[h].try < MaxTries /\ lost' = lost
  /\ hnd'[h] = [hnd[h] EXCEPT !.try = hnd[h].try + 1, !.pc = "send"]

\* ... or never again.
Over(h) ==
  /\ hnd[h].try = MaxTries /\ Quit(h)
  /\ lost' = lost \cup {<<hnd[h].t, hnd[h].to>>}

\* What Retry does, with the lock it leaves behind.
LEMMA RetryStep ==
  ASSUME Typing, NEW h \in Handlers, Retry(h)
  PROVE  Only(h) /\ (\/ Again(h) /\ LockAfter(h) = h
                     \/ Over(h) /\ LockAfter(h) = 0)
<1>1. hnd[h].try \in 1..MaxTries /\ hnd[h].try \in Nat /\ MaxTries \in Nat BY HandlerTypes
<1>2. CASE /\ NextTry(h) <= MaxTries
           /\ hnd' = [hnd EXCEPT ![h].try = NextTry(h), ![h].pc = "send"]
           /\ UNCHANGED lost
  <2>. DEFINE r == [hnd[h] EXCEPT !.try = hnd[h].try + 1, !.pc = "send"]
  <2>1. hnd[h].try + 1 \in 1..MaxTries BY <1>1, <1>2 DEF NextTry
  <2>2. hnd' = [hnd EXCEPT ![h] = r] BY <1>2 DEF Typing, NextTry
  <2>3. r \in HandlerStates BY <2>1, HandlerTypes DEF HandlerStates
  <2>. HIDE DEF r
  <2>4. Only(h) /\ hnd'[h] = r BY <2>2, <2>3, HandlerUpdate
  <2>5. hnd[h].try < MaxTries BY <1>1, <2>1
  <2>6. LockAfter(h) = h BY <1>2 DEF LockAfter
  <2>. QED BY <1>2, <2>4, <2>5, <2>6 DEF r, Again
<1>3. CASE NextTry(h) > MaxTries /\ GiveUp(h)
  <2>1. Only(h) /\ Quit(h) BY <1>3, QuitFacts DEF GiveUp
  <2>2. hnd[h].try = MaxTries BY <1>1, <1>3 DEF NextTry
  <2>3. LockAfter(h) = 0 BY <1>1, <2>2 DEF LockAfter, NextTry
  <2>. QED BY <1>3, <2>1, <2>2, <2>3 DEF GiveUp, Over
<1>. QED BY <1>2, <1>3 DEF Retry

\* Only the i-th connection has changed: its lock and what is under way on it.
Touched(i, lock, req, ack) ==
  /\ conns' \in Seq(Connections) /\ Len(conns') = Len(conns)
  /\ \A j \in 1..Len(conns) : j # i => conns'[j] = conns[j]
  /\ conns'[i].to = conns[i].to /\ conns'[i].open = conns[i].open
  /\ conns'[i].lock = lock /\ conns'[i].req = req /\ conns'[i].ack = ack

\* A connection that is replaced by one to the same address is touched.
LEMMA TouchedFacts ==
  ASSUME Typing, NEW i \in 1..Len(conns), NEW c, conns' = [conns EXCEPT ![i] = c],
         c \in Connections, c.to = conns[i].to, c.open = conns[i].open
  PROVE  Touched(i, c.lock, c.req, c.ack)
<1>1. /\ conns' \in Seq(Connections) /\ Len(conns') = Len(conns)
      /\ conns'[i] = c
      /\ \A j \in 1..Len(conns) : j # i => conns'[j] = conns[j]
  BY ConnUpdate
<1>. QED BY <1>1 DEF Touched

\* The three ways a handler changes a connection.
LEMMA Locking ==
  ASSUME Typing, NEW i \in 1..Len(conns), NEW l \in Handlers \cup {0},
         conns' = [conns EXCEPT ![i].lock = l]
  PROVE  Touched(i, l, conns[i].req, conns[i].ack)
<1>. DEFINE c == [conns[i] EXCEPT !.lock = l]
<1>1. conns' = [conns EXCEPT ![i] = c] BY DEF Typing
<1>2. /\ c \in Connections /\ c.to = conns[i].to /\ c.open = conns[i].open
      /\ c.lock = l /\ c.req = conns[i].req /\ c.ack = conns[i].ack
  BY ConnTypes DEF Connections
<1>. HIDE DEF c
<1>3. Touched(i, c.lock, c.req, c.ack) BY <1>1, <1>2, TouchedFacts
<1>. QED BY <1>2, <1>3

\* ... it writes a request,
LEMMA Sending ==
  ASSUME Typing, NEW i \in 1..Len(conns), NEW l \in Handlers, NEW q \in Seq(Tags),
         conns' = [conns EXCEPT ![i].lock = l, ![i].req = q]
  PROVE  Touched(i, l, q, conns[i].ack)
<1>. DEFINE c == [conns[i] EXCEPT !.lock = l, !.req = q]
<1>1. conns' = [conns EXCEPT ![i] = c] BY DEF Typing
<1>2. /\ c \in Connections /\ c.to = conns[i].to /\ c.open = conns[i].open
      /\ c.lock = l /\ c.req = q /\ c.ack = conns[i].ack
  BY ConnTypes DEF Connections, Tags
<1>. HIDE DEF c
<1>3. Touched(i, c.lock, c.req, c.ack) BY <1>1, <1>2, TouchedFacts
<1>. QED BY <1>2, <1>3

\* ... it reads an ack.
LEMMA Reading ==
  ASSUME Typing, NEW i \in 1..Len(conns), NEW l \in Handlers \cup {0}, conns[i].ack # <<>>,
         conns' = [conns EXCEPT ![i].lock = l, ![i].ack = Tail(@)]
  PROVE  Touched(i, l, conns[i].req, Tail(conns[i].ack))
<1>. DEFINE c == [conns[i] EXCEPT !.lock = l, !.ack = Tail(@)]
<1>1. conns' = [conns EXCEPT ![i] = c] BY DEF Typing
<1>2. Tail(conns[i].ack) \in Seq(Tags) BY ConnTypes, HeadTailProperties
<1>3. /\ c \in Connections /\ c.to = conns[i].to /\ c.open = conns[i].open
      /\ c.lock = l /\ c.req = conns[i].req /\ c.ack = Tail(conns[i].ack)
  BY <1>2, ConnTypes DEF Connections, Tags
<1>. HIDE DEF c
<1>4. Touched(i, c.lock, c.req, c.ack) BY <1>1, <1>3, TouchedFacts
<1>. QED BY <1>3, <1>4

\* What an Encode changes, for each of its outcomes.
LEMMA EncodeStep ==
  ASSUME Typing, Aimed, NEW h \in Handlers, Encode(h)
  PROVE  LET i == hnd[h].conn.conn
             c == conns[i]
         IN  /\ i \in 1..Len(conns) /\ c.to = hnd[h].to /\ hnd[h].t \in Tuples /\ hnd[h].to \in Targets
             /\ Only(h) /\ hnd[h].pc = "send" /\ c.lock \in {0, h}
             /\ \/ /\ c.open /\ Touched(i, h, Append(c.req, hnd[h].t), c.ack) /\ lost' = lost
                   /\ hnd'[h] = [hnd[h] EXCEPT !.pc = "wait"]
                \/ /\ ~c.open /\ Touched(i, h, c.req, c.ack) /\ lost' = lost
                   /\ hnd'[h] = [hnd[h] EXCEPT !.pc = "wait"]
                \/ ~c.open /\ Touched(i, h, c.req, c.ack) /\ Again(h)
                \/ ~c.open /\ Touched(i, 0, c.req, c.ack) /\ Over(h)
<1>. DEFINE i == hnd[h].conn.conn
            c == conns[i]
            r == [hnd[h] EXCEPT !.pc = "wait"]
<1>1. /\ i \in 1..Len(conns) /\ c.to = hnd[h].to /\ hnd[h].t \in Tuples /\ hnd[h].to \in Targets
      /\ hnd[h].pc = "send" /\ c.lock \in {0, h}
  BY DEF Encode, Aimed, AimedAt
<1>2. c.req \in Seq(Tags) /\ c.ack \in Seq(Tags) /\ hnd[h].t \in Tags BY <1>1, ConnTypes DEF Tags
<1>3. r \in HandlerStates BY HandlerTypes DEF HandlerStates
<1>4. Append(c.req, hnd[h].t) \in Seq(Tags) BY <1>2, AppendProperties
<1>5. ASSUME hnd' = [hnd EXCEPT ![h].pc = "wait"] PROVE Only(h) /\ hnd'[h] = r
  <2>1. hnd' = [hnd EXCEPT ![h] = r] BY <1>5 DEF Typing
  <2>. HIDE DEF r
  <2>. QED BY <2>1, <1>3, HandlerUpdate
<1>. HIDE DEF r
<1>6. ASSUME NEW l \in Handlers \cup {0}, conns' = [conns EXCEPT ![i].lock = l]
      PROVE  Touched(i, l, c.req, c.ack)
  BY <1>1, <1>6, Locking
<1>7. CASE /\ c.open
           /\ conns' = [conns EXCEPT ![i].lock = h, ![i].req = Append(@, hnd[h].t)]
           /\ hnd' = [hnd EXCEPT ![h].pc = "wait"]
           /\ UNCHANGED lost
  <2>1. conns' = [conns EXCEPT ![i].lock = h, ![i].req = Append(c.req, hnd[h].t)]
    BY <1>1, <1>7 DEF Typing
  <2>3. Touched(i, h, Append(c.req, hnd[h].t), c.ack) BY <2>1, <1>1, <1>4, Sending
  <2>. QED BY <1>1, <1>5, <1>7, <2>3 DEF r
<1>8. CASE /\ ~c.open /\ conns' = [conns EXCEPT ![i].lock = h]
           /\ hnd' = [hnd EXCEPT ![h].pc = "wait"] /\ UNCHANGED lost
  BY <1>1, <1>5, <1>6, <1>8 DEF r
<1>9. CASE ~c.open /\ conns' = [conns EXCEPT ![i].lock = LockAfter(h)] /\ Retry(h)
  <2>1. Only(h) /\ ((Again(h) /\ LockAfter(h) = h) \/ (Over(h) /\ LockAfter(h) = 0)) BY <1>9, RetryStep
  <2>2. Touched(i, LockAfter(h), c.req, c.ack) BY <1>6, <1>9, <2>1
  <2>. QED BY <1>1, <1>9, <2>1, <2>2
<1>. QED BY <1>7, <1>8, <1>9 DEF Encode

\* What a Decode changes, for each of its outcomes.
LEMMA DecodeStep ==
  ASSUME Typing, Aimed, NEW h \in Handlers, Decode(h)
  PROVE  LET i == hnd[h].conn.conn
             c == conns[i]
         IN  /\ i \in 1..Len(conns) /\ c.to = hnd[h].to /\ hnd[h].t \in Tuples /\ hnd[h].to \in Targets
             /\ hnd[h].pc = "wait"
             /\ \/ /\ status' = "panicked" /\ hnd' = hnd /\ conns' = conns
                   /\ delivered' = delivered /\ lost' = lost
                \/ /\ Only(h) /\ Quit(h) /\ status' = status /\ lost' = lost
                   /\ c.ack # <<>> /\ Head(c.ack) = hnd[h].t
                   /\ Touched(i, 0, c.req, Tail(c.ack))
                   /\ delivered' = delivered \cup {<<hnd[h].t, hnd[h].to>>}
                \/ /\ Only(h) /\ status' = status /\ delivered' = delivered
                   /\ c.ack # <<>> /\ Head(c.ack) # hnd[h].t
                   /\ \/ Touched(i, h, c.req, Tail(c.ack)) /\ Again(h)
                      \/ Touched(i, 0, c.req, Tail(c.ack)) /\ Over(h)
                \/ /\ Only(h) /\ status' = status /\ delivered' = delivered
                   /\ c.ack = <<>> /\ ~c.open
                   /\ \/ Touched(i, h, c.req, c.ack) /\ Again(h)
                      \/ Touched(i, 0, c.req, c.ack) /\ Over(h)
<1>. DEFINE i == hnd[h].conn.conn
            c == conns[i]
            confirmed == c.ack # <<>> /\ Confirms(Head(c.ack), hnd[h].t)
<1>1. /\ i \in 1..Len(conns) /\ c.to = hnd[h].to /\ hnd[h].t \in Tuples /\ hnd[h].to \in Targets
      /\ hnd[h].pc = "wait"
  BY DEF Decode, Aimed, AimedAt
<1>2. c.req \in Seq(Tags) /\ c.ack \in Seq(Tags) BY <1>1, ConnTypes
<1>3. c.ack # <<>> => Tail(c.ack) \in Seq(Tags) BY <1>2, HeadTailProperties
<1>4. ASSUME NEW l \in Handlers \cup {0}, conns' = [conns EXCEPT ![i].lock = l]
      PROVE  Touched(i, l, c.req, c.ack)
  BY <1>1, <1>4, Locking
<1>5. ASSUME NEW l \in Handlers \cup {0}, c.ack # <<>>,
             conns' = [conns EXCEPT ![i].lock = l, ![i].ack = Tail(@)]
      PROVE  Touched(i, l, c.req, Tail(c.ack))
  BY <1>1, <1>5, Reading
<1>6. CASE status' = "panicked" /\ UNCHANGED <<hnd, conns, delivered, lost>> BY <1>1, <1>6
<1>7. CASE /\ hnd[h].conn.decoder /\ confirmed
           /\ conns' = [conns EXCEPT ![i].lock = 0, ![i].ack = Tail(@)]
           /\ hnd' = [hnd EXCEPT ![h].pc = "idle", ![h].conn = NoConn]
           /\ delivered' = delivered \cup {<<hnd[h].t, hnd[h].to>>}
           /\ UNCHANGED <<status, lost>>
  <2>1. Only(h) /\ Quit(h) BY <1>7, QuitFacts
  <2>2. Touched(i, 0, c.req, Tail(c.ack)) BY <1>5, <1>7
  <2>. QED BY <1>1, <1>7, <2>1, <2>2 DEF Confirms
<1>8. CASE /\ hnd[h].conn.decoder /\ c.ack # <<>> /\ ~confirmed
           /\ conns' = [conns EXCEPT ![i].lock = LockAfter(h), ![i].ack = Tail(@)]
           /\ Retry(h)
           /\ UNCHANGED <<status, delivered>>
  <2>1. Only(h) /\ ((Again(h) /\ LockAfter(h) = h) \/ (Over(h) /\ LockAfter(h) = 0)) BY <1>8, RetryStep
  <2>2. Touched(i, LockAfter(h), c.req, Tail(c.ack)) BY <1>5, <1>8, <2>1
  <2>3. Head(c.ack) # hnd[h].t BY <1>8 DEF Confirms
  <2>. QED BY <1>1, <1>8, <2>1, <2>2, <2>3
<1>9. CASE /\ hnd[h].conn.decoder /\ c.ack = <<>> /\ ~c.open
           /\ conns' = [conns EXCEPT ![i].lock = LockAfter(h)]
           /\ Retry(h)
           /\ UNCHANGED <<status, delivered>>
  <2>1. Only(h) /\ ((Again(h) /\ LockAfter(h) = h) \/ (Over(h) /\ LockAfter(h) = 0)) BY <1>9, RetryStep
  <2>2. Touched(i, LockAfter(h), c.req, c.ack) BY <1>4, <1>9, <2>1
  <2>. QED BY <1>1, <1>9, <2>1, <2>2
<1>. QED BY <1>6, <1>7, <1>8, <1>9 DEF Decode

\* CountOp.Process on a marker moves one handler to its flush or to its count.
LEMMA CheckStep ==
  ASSUME Typing, NEW h \in Handlers, CheckFlushed(h)
  PROVE  /\ Only(h) /\ hnd[h].ph = "stream" /\ hnd[h].pc = "idle" /\ hnd[h].work = {}
         /\ hnd'[h] = [hnd[h] EXCEPT !.ph = IF op = "count" /\ ~flushed THEN "toflush" ELSE "mark"]
<1>. DEFINE p == IF op = "count" /\ ~flushed THEN "toflush" ELSE "mark"
            r == [hnd[h] EXCEPT !.ph = p]
<1>1. hnd' = [hnd EXCEPT ![h] = r] BY DEF Typing, CheckFlushed, AfterCheck
<1>2. p \in {"toflush", "mark"} OBVIOUS
<1>. HIDE DEF p
<1>3. r \in HandlerStates BY <1>2, HandlerTypes DEF HandlerStates
<1>. HIDE DEF r
<1>4. Only(h) /\ hnd'[h] = r BY <1>1, <1>3, HandlerUpdate
<1>. QED BY <1>4 DEF r, p, CheckFlushed, Left

\* FlushCounts starts,
LEMMA StartFlushStep ==
  ASSUME Typing, NEW h \in Handlers, StartFlush(h)
  PROVE  /\ Only(h) /\ hnd[h].ph = "toflush"
         /\ hnd'[h] = [hnd[h] EXCEPT !.ph = "flush", !.work = Outputs(h)]
<1>. DEFINE o == Outputs(h)
            r == [hnd[h] EXCEPT !.ph = "flush", !.work = o]
<1>1. hnd' = [hnd EXCEPT ![h] = r] BY DEF Typing, StartFlush
<1>2. o \in SUBSET Tuples BY OutputsAreTuples
<1>. HIDE DEF o
<1>3. r \in HandlerStates BY <1>2, HandlerTypes DEF HandlerStates
<1>. HIDE DEF r
<1>4. Only(h) /\ hnd'[h] = r BY <1>1, <1>3, HandlerUpdate
<1>. QED BY <1>4 DEF r, o, StartFlush

\* and ends.
LEMMA EndFlushStep ==
  ASSUME Typing, NEW h \in Handlers, EndFlush(h)
  PROVE  /\ Only(h) /\ hnd[h].ph = "flush" /\ hnd[h].pc = "idle" /\ hnd[h].work = {}
         /\ hnd'[h] = [hnd[h] EXCEPT !.ph = "mark"]
<1>. DEFINE r == [hnd[h] EXCEPT !.ph = "mark"]
<1>1. hnd' = [hnd EXCEPT ![h] = r] BY DEF Typing, EndFlush
<1>3. r \in HandlerStates BY HandlerTypes DEF HandlerStates
<1>. HIDE DEF r
<1>4. Only(h) /\ hnd'[h] = r BY <1>1, <1>3, HandlerUpdate
<1>. QED BY <1>4 DEF r, EndFlush, Left

\* broadcastEOF starts once.
LEMMA BroadcastFacts ==
  ASSUME Typing, NEW e \in EOFStates, NEW b \in BOOLEAN
  PROVE  /\ Broadcast(e, b) \in EOFStates
         /\ Broadcast(e, b).count = e.count
         /\ e.broadcast # "no" => Broadcast(e, b) = e
         /\ e.broadcast = "no" => /\ Broadcast(e, b).broadcast = "next"
                                  /\ Broadcast(e, b).left = targetList
                                  /\ Broadcast(e, b).byTimer = b
<1>1. CASE e.broadcast # "no" BY <1>1 DEF Broadcast
<1>2. CASE e.broadcast = "no"
  <2>1. Broadcast(e, b) = [e EXCEPT !.broadcast = "next", !.left = targetList, !.byTimer = b]
    BY <1>2 DEF Broadcast
  <2>2. targetList \in Seq(Targets) BY DEF Typing
  <2>. QED BY <1>2, <2>1, <2>2 DEF EOFStates
<1>. QED BY <1>1, <1>2

\* emit on a marker counts it, and the last one starts the broadcast.
LEMMA CountStep ==
  ASSUME Typing, NEW h \in Handlers, CountEOF(h)
  PROVE  /\ Only(h) /\ hnd[h].ph = "mark"
         /\ hnd'[h] = [hnd[h] EXCEPT !.ph = "done"]
         /\ eof' \in EOFStates /\ eof'.count = eof.count + 1
         /\ \/ /\ eof'.broadcast = eof.broadcast /\ eof'.left = eof.left /\ eof'.conn = eof.conn
               /\ eof'.byTimer = eof.byTimer
            \/ /\ eof.broadcast = "no" /\ eof'.broadcast = "next" /\ eof'.left = targetList
               /\ eof'.byTimer = FALSE /\ eof.count + 1 >= NumSources
<1>. DEFINE r == [hnd[h] EXCEPT !.ph = "done"]
            e == [eof EXCEPT !.count = @ + 1]
<1>1. hnd' = [hnd EXCEPT ![h] = r] BY DEF Typing, CountEOF
<1>2. r \in HandlerStates BY HandlerTypes DEF HandlerStates
<1>. HIDE DEF r
<1>3. Only(h) /\ hnd'[h] = r BY <1>1, <1>2, HandlerUpdate
<1>8. eof \in EOFStates /\ eof.count + 1 \in Nat BY DEF Typing, EOFStates
<1>4. /\ e \in EOFStates /\ e.count = eof.count + 1 /\ e.broadcast = eof.broadcast /\ e.left = eof.left
      /\ e.conn = eof.conn /\ e.byTimer = eof.byTimer
  BY <1>8 DEF EOFStates
<1>5. eof' = IF e.count >= NumSources THEN Broadcast(e, FALSE) ELSE [e EXCEPT !.timer = @ \/ e.count = 1]
  BY DEF CountEOF
<1>. HIDE DEF e
<1>6. CASE e.count >= NumSources
  <2>1. eof' = Broadcast(e, FALSE) BY <1>5, <1>6
  <2>2. CASE e.broadcast # "no"
    <3>1. eof' = e BY <2>1, <2>2 DEF Broadcast
    <3>. QED BY <3>1, <1>3, <1>4 DEF CountEOF, r
  <2>3. CASE e.broadcast = "no"
    <3>1. /\ eof' \in EOFStates /\ eof'.count = e.count /\ eof'.broadcast = "next"
          /\ eof'.left = targetList /\ eof'.byTimer = FALSE
      BY <2>1, <2>3, <1>4, BroadcastFacts
    <3>2. eof.count + 1 >= NumSources BY <1>4, <1>6
    <3>. QED BY <3>1, <3>2, <2>3, <1>3, <1>4 DEF CountEOF, r
  <2>. QED BY <2>2, <2>3
<1>7. CASE ~(e.count >= NumSources)
  <2>1. eof' = [e EXCEPT !.timer = e.timer \/ e.count = 1] BY <1>5, <1>7
  <2>2. (e.timer \/ e.count = 1) \in BOOLEAN OBVIOUS
  <2>3. /\ eof' \in EOFStates /\ eof'.count = e.count /\ eof'.broadcast = e.broadcast /\ eof'.left = e.left
        /\ eof'.conn = e.conn /\ eof'.byTimer = e.byTimer
    BY <2>1, <2>2, <1>4 DEF EOFStates
  <2>. QED BY <2>3, <1>3, <1>4 DEF CountEOF, r
<1>. QED BY <1>6, <1>7

\* The EOF timer may start the broadcast.
LEMMA TimeoutStep ==
  ASSUME Typing, EOFTimeout
  PROVE  /\ eof' \in EOFStates /\ eof'.count = eof.count
         /\ \/ /\ eof'.broadcast = eof.broadcast /\ eof'.left = eof.left /\ eof'.conn = eof.conn
               /\ eof'.byTimer = eof.byTimer
            \/ /\ eof.broadcast = "no" /\ eof'.broadcast = "next" /\ eof'.left = targetList
               /\ eof'.byTimer = TRUE
<1>. DEFINE e == [eof EXCEPT !.timer = FALSE]
<1>1. /\ e \in EOFStates /\ e.count = eof.count /\ e.broadcast = eof.broadcast /\ e.left = eof.left
      /\ e.conn = eof.conn /\ e.byTimer = eof.byTimer
  BY DEF Typing, EOFStates
<1>2. eof' = Broadcast(e, TRUE) \/ eof' = e BY DEF EOFTimeout
<1>. HIDE DEF e
<1>3. CASE eof' = e BY <1>1, <1>3
<1>4. CASE eof' = Broadcast(e, TRUE)
  <2>2. CASE e.broadcast # "no"
    <3>1. eof' = e BY <1>4, <2>2 DEF Broadcast
    <3>. QED BY <1>1, <3>1
  <2>3. CASE e.broadcast = "no" BY <1>1, <1>4, <2>3, BroadcastFacts
  <2>. QED BY <2>2, <2>3
<1>. QED BY <1>2, <1>3, <1>4

\* The broadcast finds a connection, makes one or passes the address over.
LEMMA BroadcastLookupStep ==
  ASSUME Typing, BroadcastLookup
  PROVE  LET a == Head(eof.left) IN
         /\ a \in Targets /\ eof.left # <<>> /\ eof.broadcast = "next"
         /\ eof' \in EOFStates /\ eof'.count = eof.count /\ eof'.byTimer = eof.byTimer
         /\ \/ /\ pool[a].conn # 0 /\ pool' = pool /\ conns' = conns
               /\ eof'.broadcast = "send" /\ eof'.left = eof.left /\ eof'.conn = pool[a].conn
            \/ /\ Connect(a, FALSE)
               /\ eof'.broadcast = "send" /\ eof'.left = eof.left /\ eof'.conn = pool'[a].conn
            \/ /\ pool' = pool /\ conns' = conns
               /\ eof'.broadcast = "next" /\ eof'.left = Tail(eof.left)
<1>. DEFINE a == Head(eof.left)
<1>1. eof.left \in Seq(Targets) /\ eof.left # <<>> /\ eof.broadcast = "next" /\ eof \in EOFStates
  BY DEF Typing, EOFStates, BroadcastLookup
<1>2. a \in Targets /\ Tail(eof.left) \in Seq(Targets) BY <1>1, HeadTailProperties
<1>3. CASE pool[a].conn # 0 /\ eof' = [eof EXCEPT !.broadcast = "send", !.conn = pool[a].conn]
           /\ UNCHANGED <<pool, conns>>
  <2>1. pool[a].conn \in 0..MaxConns BY <1>2 DEF Typing, Encoders
  <2>. QED BY <1>1, <1>2, <1>3, <2>1 DEF EOFStates
<1>4. CASE Connect(a, FALSE) /\ eof' = [eof EXCEPT !.broadcast = "send", !.conn = pool'[a].conn]
  <2>1. pool'[a].conn \in 0..MaxConns BY <1>2, <1>4, ConnectFacts DEF Encoders
  <2>. QED BY <1>1, <1>2, <1>4, <2>1 DEF EOFStates
<1>5. CASE eof' = [eof EXCEPT !.left = Tail(@)] /\ UNCHANGED <<pool, conns>>
  BY <1>1, <1>2, <1>5 DEF EOFStates
<1>. QED BY <1>3, <1>4, <1>5 DEF BroadcastLookup

\* It sends the marker, if the connection is open.
LEMMA BroadcastSendStep ==
  ASSUME Typing, BroadcastAimed, BroadcastSend
  PROVE  LET i == eof.conn IN
         /\ i \in 1..Len(conns) /\ eof.left # <<>> /\ eof.broadcast = "send" /\ conns[i].lock = 0
         /\ Head(eof.left) \in Targets
         /\ eof' \in EOFStates /\ eof'.count = eof.count /\ eof'.byTimer = eof.byTimer
         /\ eof'.broadcast = "next" /\ eof'.left = Tail(eof.left)
         /\ \/ conns[i].open /\ Touched(i, 0, Append(conns[i].req, EOF), conns[i].ack)
            \/ ~conns[i].open /\ conns' = conns
<1>. DEFINE i == eof.conn
<1>1. /\ i \in 1..Len(conns) /\ eof.left # <<>> /\ eof.broadcast = "send" /\ conns[i].lock = 0
      /\ eof.left \in Seq(Targets) /\ eof \in EOFStates
  BY DEF BroadcastAimed, BroadcastSend, Typing, EOFStates
<1>2. Head(eof.left) \in Targets /\ Tail(eof.left) \in Seq(Targets) BY <1>1, HeadTailProperties
<1>3. /\ eof' \in EOFStates /\ eof'.count = eof.count /\ eof'.byTimer = eof.byTimer
      /\ eof'.broadcast = "next" /\ eof'.left = Tail(eof.left)
  BY <1>1, <1>2 DEF BroadcastSend, EOFStates
<1>4. ASSUME conns[i].open PROVE Touched(i, 0, Append(conns[i].req, EOF), conns[i].ack)
  <2>. DEFINE c == [conns[i] EXCEPT !.req = Append(@, EOF)]
  <2>1. conns' = [conns EXCEPT ![i] = c] BY <1>1, <1>4 DEF BroadcastSend, Typing
  <2>2. Append(conns[i].req, EOF) \in Seq(Tags) BY <1>1, ConnTypes, AppendProperties DEF Tags
  <2>3. /\ c \in Connections /\ c.to = conns[i].to /\ c.open = conns[i].open
        /\ c.lock = 0 /\ c.req = Append(conns[i].req, EOF) /\ c.ack = conns[i].ack
    BY <1>1, <2>2, ConnTypes DEF Connections, Tags
  <2>. HIDE DEF c
  <2>4. Touched(i, c.lock, c.req, c.ack) BY <1>1, <2>1, <2>3, TouchedFacts
  <2>. QED BY <2>3, <2>4
<1>. QED BY <1>1, <1>2, <1>3, <1>4 DEF BroadcastSend

\* It ends when no address is left.
LEMMA BroadcastEndStep ==
  ASSUME Typing, BroadcastEnd
  PROVE  /\ eof' \in EOFStates /\ eof'.count = eof.count /\ eof'.byTimer = eof.byTimer
         /\ eof'.broadcast = "done" /\ eof'.left = eof.left /\ eof.broadcast = "next" /\ eof.left = <<>>
BY DEF BroadcastEnd, Typing, EOFStates

\* A handler at a target lets a tuple pass its duplicate check.
LEMMA AcceptStep ==
  ASSUME Typing, NEW i \in 1..Len(conns), Accept(i)
  PROVE  LET c == conns[i]
             t == Head(c.req)
         IN /\ c.open /\ c.req # <<>> /\ t \in Tuples /\ t \notin known[c.to] /\ i \notin busy
            /\ busy' = busy \cup {i} /\ applied' = [applied EXCEPT ![c.to][t] = @ + 1]
<1>. DEFINE c == conns[i]
            t == Head(c.req)
<1>1. c.req # <<>> /\ c.req \in Seq(Tags) BY ConnTypes DEF Accept
<1>2. t \in Tags BY <1>1, HeadTailProperties
<1>3. t # EOF /\ t \notin known[c.to] BY DEF Accept, IsNew
<1>4. t \in Tuples BY <1>2, <1>3 DEF Tags
<1>. QED BY <1>1, <1>3, <1>4 DEF Accept

\* It answers one request.
LEMMA ServeStep ==
  ASSUME Typing, NEW i \in 1..Len(conns), Serve(i)
  PROVE  LET c == conns[i]
             t == Head(c.req)
         IN /\ c.open /\ c.req # <<>> /\ t \in Tags
            /\ \/ status = "up" /\ Touched(i, c.lock, Tail(c.req), Append(c.ack, t))
               \/ status # "up" /\ Touched(i, c.lock, Tail(c.req), c.ack)
            /\ \/ i \in busy /\ known' = [known EXCEPT ![c.to] = @ \cup {t}]
               \/ i \notin busy /\ (t = EOF \/ t \in known[c.to]) /\ known' = known
            /\ busy' = busy \ {i} /\ applied' = applied
<1>. DEFINE c == conns[i]
            t == Head(c.req)
            ack == IF status = "up" THEN Append(c.ack, t) ELSE c.ack
            d == [c EXCEPT !.req = Tail(@), !.ack = ack]
<1>1. c.open /\ c.req # <<>> /\ c.req \in Seq(Tags) /\ c.ack \in Seq(Tags) /\ c.to \in Targets
  BY ConnTypes DEF Serve
<1>2. t \in Tags /\ Tail(c.req) \in Seq(Tags) BY <1>1, HeadTailProperties
<1>3. Append(c.ack, t) \in Seq(Tags) BY <1>1, <1>2, AppendProperties
<1>4. conns' = [conns EXCEPT ![i] = d] BY DEF Serve, Typing
<1>5. ack \in Seq(Tags) BY <1>1, <1>3
<1>. HIDE DEF ack
<1>6. /\ d \in Connections /\ d.to = c.to /\ d.open = c.open
      /\ d.lock = c.lock /\ d.req = Tail(c.req) /\ d.ack = ack
  BY <1>2, <1>5, ConnTypes DEF Connections, Tags
<1>. HIDE DEF d
<1>7. Touched(i, c.lock, Tail(c.req), ack) BY <1>4, <1>6, TouchedFacts
<1>8. (status = "up" => ack = Append(c.ack, t)) /\ (status # "up" => ack = c.ack) BY DEF ack
<1>9. applied' = applied /\ busy' = busy \ {i} BY DEF Serve
<1>10. \/ i \in busy /\ known' = [known EXCEPT ![c.to] = @ \cup {t}]
       \/ i \notin busy /\ (t = EOF \/ t \in known[c.to]) /\ known' = known
  BY DEF Serve, IsNew
<1>. QED BY <1>1, <1>2, <1>7, <1>8, <1>9, <1>10

\* The connections to a target break with it.
LEMMA DiesStep ==
  ASSUME Typing, NEW a \in Targets, TargetDies(a)
  PROVE  /\ conns' \in Seq(Connections) /\ Len(conns') = Len(conns)
         /\ \A j \in 1..Len(conns) : conns[j].to # a => conns'[j] = conns[j]
         /\ \A j \in 1..Len(conns) :
              conns[j].to = a =>
                /\ conns'[j].to = a /\ ~conns'[j].open /\ conns'[j].lock = conns[j].lock
                /\ conns'[j].req = <<>> /\ conns'[j].ack \in {conns[j].ack, <<>>}
         /\ deaths' = deaths \cup {a} /\ up' = [up EXCEPT ![a] = FALSE]
<1>1. PICK keep \in BOOLEAN :
        conns' = [i \in 1..Len(conns) |->
                   IF conns[i].to = a
                   THEN [conns[i] EXCEPT !.open = FALSE, !.req = <<>>, !.ack = IF keep THEN @ ELSE <<>>]
                   ELSE conns[i]]
  BY DEF TargetDies
<1>. DEFINE cut(i) == [conns[i] EXCEPT !.open = FALSE, !.req = <<>>, !.ack = IF keep THEN @ ELSE <<>>]
<1>2. ASSUME NEW i \in 1..Len(conns)
      PROVE  /\ cut(i) \in Connections /\ cut(i).to = conns[i].to /\ ~cut(i).open
             /\ cut(i).lock = conns[i].lock /\ cut(i).req = <<>>
             /\ cut(i).ack \in {conns[i].ack, <<>>}
  <2>. DEFINE q == IF keep THEN conns[i].ack ELSE <<>>
  <2>1. <<>> \in Seq(Tags) BY EmptySeq
  <2>2. q \in Seq(Tags) /\ q \in {conns[i].ack, <<>>} BY <2>1, ConnTypes
  <2>3. cut(i) = [conns[i] EXCEPT !.open = FALSE, !.req = <<>>, !.ack = q] OBVIOUS
  <2>. HIDE DEF cut, q
  <2>. QED BY <2>1, <2>2, <2>3, ConnTypes DEF Connections, Tags
<1>3. conns' = [i \in 1..Len(conns) |-> IF conns[i].to = a THEN cut(i) ELSE conns[i]] BY <1>1
<1>. HIDE DEF cut
<1>4. \A i \in 1..Len(conns) : conns'[i] \in Connections BY <1>2, <1>3, ConnTypes
<1>5. Len(conns) \in Nat BY LenProperties DEF Typing
<1>6. conns' \in [1..Len(conns) -> Connections] BY <1>3, <1>4
<1>7. conns' \in Seq(Connections) /\ Len(conns') = Len(conns)
  <2>1. conns' \in Seq(Connections) BY <1>5, <1>6, SeqDef
  <2>2. DOMAIN conns' = 1..Len(conns) BY <1>6
  <2>3. DOMAIN conns' = 1..Len(conns') /\ Len(conns') \in Nat BY <2>1, LenProperties
  <2>. QED BY <2>1, <2>2, <2>3, <1>5
<1>. QED BY <1>2, <1>3, <1>7 DEF TargetDies

----------------------------------------------------------------------------
\* The basic invariant.
Base == Typing /\ Aimed /\ PoolAimed /\ BroadcastAimed /\ Counted

\* Connections are added, and no connection changes its address.
Keep ==
  /\ conns' \in Seq(Connections) /\ Len(conns') <= MaxConns
  /\ Len(conns) \in Nat /\ Len(conns') \in Nat /\ Len(conns) <= Len(conns')
  /\ \A i \in 1..Len(conns) : i \in 1..Len(conns') /\ conns'[i].to = conns[i].to

\* Touching a connection,
LEMMA TouchedKeeps ==
  ASSUME Typing, NEW i \in 1..Len(conns), NEW l, NEW q, NEW a, Touched(i, l, q, a)
  PROVE  Keep
<1>1. Len(conns) \in Nat /\ Len(conns) <= MaxConns BY LenProperties DEF Typing
<1>. QED BY <1>1 DEF Touched, Keep

\* doing nothing,
LEMMA UnchangedKeeps ==
  ASSUME Typing, conns' = conns PROVE Keep
<1>1. Len(conns) \in Nat /\ Len(conns) <= MaxConns BY LenProperties DEF Typing
<1>. QED BY <1>1 DEF Keep, Typing

\* a dial
LEMMA ConnectKeeps ==
  ASSUME Typing, NEW a \in Targets, NEW d \in BOOLEAN, Connect(a, d) PROVE Keep
<1>1. Len(conns) \in Nat /\ Len(conns') = Len(conns) + 1 BY ConnectFacts
<1>2. \A i \in 1..Len(conns) : i \in 1..Len(conns') BY <1>1
<1>3. Len(conns) <= Len(conns') /\ Len(conns') \in Nat BY <1>1
<1>. QED BY <1>1, <1>2, <1>3, ConnectFacts DEF Keep

\* and a death keep the addresses of the connections.
LEMMA DiesKeeps ==
  ASSUME Typing, NEW a \in Targets, TargetDies(a) PROVE Keep
<1>1. Len(conns) \in Nat /\ Len(conns) <= MaxConns BY LenProperties DEF Typing
<1>2. Len(conns') = Len(conns) /\ conns' \in Seq(Connections) BY DiesStep
<1>3. \A i \in 1..Len(conns) : conns'[i].to = conns[i].to BY DiesStep
<1>. QED BY <1>1, <1>2, <1>3 DEF Keep

\* What stands still stays aimed.
LEMMA AimedKept ==
  ASSUME Keep, NEW g \in Handlers, AimedAt(g), hnd'[g] = hnd[g] PROVE AimedAt(g)'
BY DEF AimedAt, Keep

\* So the pool stays right,
LEMMA PoolKept ==
  ASSUME Typing, Keep, PoolAimed, pool' = pool
  PROVE  PoolAimed' /\ \A a \in Targets : pool'[a].conn <= Len(conns')
<1>1. \A a \in Targets : pool[a].conn \in Nat /\ pool[a].conn <= Len(conns)
  BY DEF Typing, Encoders
<1>2. \A a \in Targets : pool[a].conn # 0 => pool[a].conn \in 1..Len(conns) BY <1>1 DEF Keep
<1>3. PoolAimed' BY <1>2 DEF PoolAimed, Keep
<1>4. \A a \in Targets : pool[a].conn <= Len(conns') BY <1>1 DEF Keep
<1>. QED BY <1>3, <1>4

\* also with the connection a dial puts into it,
LEMMA PoolConnected ==
  ASSUME Typing, PoolAimed, NEW a \in Targets, NEW d \in BOOLEAN, Connect(a, d)
  PROVE  /\ PoolAimed' /\ pool'[a].conn \in 1..Len(conns') /\ conns'[pool'[a].conn].to = a
         /\ conns'[pool'[a].conn] = NewConn(a) /\ pool'[a].conn = Len(conns) + 1
<1>1. \A b \in Targets : pool[b].conn \in Nat /\ pool[b].conn <= Len(conns)
  BY DEF Typing, Encoders
<1>2. Len(conns) \in Nat /\ Len(conns') = Len(conns) + 1 BY ConnectFacts
<1>3. \A b \in Targets : pool[b].conn # 0 => pool[b].conn \in 1..Len(conns) BY <1>1, <1>2
<1>8. /\ \A i \in 1..Len(conns) : conns'[i] = conns[i]
      /\ conns'[Len(conns) + 1] = NewConn(a)
      /\ pool'[a] = [conn |-> Len(conns) + 1, decoder |-> d]
      /\ \A b \in Targets \ {a} : pool'[b] = pool[b]
  BY ConnectFacts
<1>4. pool'[a].conn = Len(conns) + 1 /\ conns'[Len(conns) + 1] = NewConn(a) BY <1>8
<1>5. conns'[pool'[a].conn].to = a BY <1>4, NewConnFacts
<1>6. \A b \in Targets \ {a} : pool'[b].conn # 0 => conns'[pool'[b].conn].to = b
  BY <1>3, <1>8 DEF PoolAimed
<1>7. PoolAimed' BY <1>5, <1>6 DEF PoolAimed
<1>. QED BY <1>2, <1>4, <1>5, <1>7

\* and so does the broadcast.
LEMMA BroadcastKept ==
  ASSUME Keep, BroadcastAimed, eof' = eof PROVE BroadcastAimed'
BY DEF BroadcastAimed, Keep

\* Handlers that stay where they are, or go on without becoming done.
LEMMA CountedKept ==
  ASSUME Counted, NEW h \in Handlers, Only(h), hnd[h].ph # "done", hnd'[h].ph # "done",
         eof'.count = eof.count
  PROVE  Counted'
<1>1. Done' = Done BY DEF Done, Only
<1>. QED BY <1>1 DEF Counted

\* ... or nobody moves.
LEMMA CountedSame ==
  ASSUME Counted, hnd' = hnd, eof'.count = eof.count PROVE Counted'
<1>1. Done' = Done BY DEF Done
<1>. QED BY <1>1 DEF Counted

\* An idle handler that is done stays done.
LEMMA DoneKept ==
  ASSUME Counted, NEW h \in Handlers, Only(h), hnd'[h].ph = hnd[h].ph, eof'.count = eof.count
  PROVE  Counted'
<1>1. Done' = Done BY DEF Done, Only
<1>. QED BY <1>1 DEF Counted

\* The invariant holds when StartOperation has filled the pool.
LEMMA InitBase == Init => Base
<1>. SUFFICES ASSUME Init PROVE Base
  OBVIOUS
<1>1. /\ op \in Ops /\ status = "up" /\ mu = 0 /\ flushed = FALSE /\ targetList = FirstList
      /\ dialling = {} /\ delivered = {} /\ lost = {} /\ deaths = {}
      /\ up = [a \in Targets |-> TRUE] /\ known = [a \in Targets |-> {}]
      /\ applied = [a \in Targets |-> [t \in Tuples |-> 0]]
      /\ eof = [count |-> 0, timer |-> FALSE, broadcast |-> "no", left |-> <<>>, conn |-> 0,
                byTimer |-> FALSE]
  BY DEF Init
<1>2. conns = [i \in 1..Len(FirstList) |-> NewConn(FirstList[i])]
  BY DEF Init
<1>3. pool = [a \in Targets |->
               IF \E i \in 1..Len(FirstList) : FirstList[i] = a
               THEN [conn |-> CHOOSE i \in 1..Len(FirstList) : FirstList[i] = a, decoder |-> TRUE]
               ELSE NoConn]
  BY DEF Init
<1>4. hnd = [h \in Handlers |-> NewHandler(IF op = "pass" THEN Outputs(h) ELSE {})]
  BY DEF Init
<1>5. FirstList \in Seq(Targets) /\ FirstList # <<>> /\ Len(FirstList) \in Nat /\ Len(FirstList) <= MaxConns
      /\ MaxConns \in Nat /\ MaxTries \in Nat \ {0} /\ \A i \in 1..Len(FirstList) : FirstList[i] \in Targets
  BY EmitAssumption, LenProperties, ElementOfSeq
<1>6. conns \in Seq(Connections) /\ Len(conns) = Len(FirstList)
  <2>1. \A i \in 1..Len(FirstList) : NewConn(FirstList[i]) \in Connections BY <1>5, NewConnFacts
  <2>2. conns \in [1..Len(FirstList) -> Connections] BY <1>2, <2>1
  <2>3. conns \in Seq(Connections) BY <1>5, <2>2, SeqDef
  <2>4. DOMAIN conns = 1..Len(FirstList) BY <2>2
  <2>5. DOMAIN conns = 1..Len(conns) /\ Len(conns) \in Nat BY <2>3, LenProperties
  <2>. QED BY <2>3, <2>4, <2>5, <1>5
<1>7. \A a \in Targets :
        /\ pool[a] \in Encoders /\ pool[a].conn <= Len(conns)
        /\ pool[a].conn # 0 => conns[pool[a].conn].to = a
  <2>. SUFFICES ASSUME NEW a \in Targets
                PROVE  /\ pool[a] \in Encoders /\ pool[a].conn <= Len(conns)
                       /\ pool[a].conn # 0 => conns[pool[a].conn].to = a
    OBVIOUS
  <2>1. CASE \E i \in 1..Len(FirstList) : FirstList[i] = a
    <3>. DEFINE k == CHOOSE i \in 1..Len(FirstList) : FirstList[i] = a
    <3>1. pool[a] = [conn |-> k, decoder |-> TRUE] BY <1>3, <2>1
    <3>2. k \in 1..Len(FirstList) /\ FirstList[k] = a BY <2>1
    <3>. HIDE DEF k
    <3>3. conns[k].to = a BY <1>2, <3>2, NewConnFacts
    <3>4. k \in 0..MaxConns /\ k <= Len(conns) BY <1>5, <1>6, <3>2
    <3>. QED BY <3>1, <3>3, <3>4 DEF Encoders
  <2>2. CASE ~\E i \in 1..Len(FirstList) : FirstList[i] = a
    <3>1. pool[a] = NoConn BY <1>3, <2>2
    <3>. QED BY <3>1, <1>5, <1>6 DEF NoConn, Encoders
  <2>. QED BY <2>1, <2>2
<1>8. pool \in [Targets -> Encoders] BY <1>3, <1>7
<1>9. \A h \in Handlers : hnd[h] \in HandlerStates /\ hnd[h].pc = "idle" /\ hnd[h].ph = "stream"
  <2>. SUFFICES ASSUME NEW h \in Handlers
                PROVE  hnd[h] \in HandlerStates /\ hnd[h].pc = "idle" /\ hnd[h].ph = "stream"
    OBVIOUS
  <2>. DEFINE w == IF op = "pass" THEN Outputs(h) ELSE {}
  <2>1. w \in SUBSET Tuples BY OutputsAreTuples
  <2>2. hnd[h] = NewHandler(w) BY <1>4
  <2>. HIDE DEF w
  <2>. QED BY <2>1, <2>2, <1>5 DEF NewHandler, HandlerStates, NoConn
<1>10. hnd \in [Handlers -> HandlerStates] BY <1>4, <1>9
<1>11. eof \in EOFStates BY <1>1, <1>5, EmptySeq DEF EOFStates
<1>12. op \in {"pass", "count"} BY <1>1, EmitAssumption
<1>13. Typing
  BY <1>1, <1>5, <1>6, <1>7, <1>8, <1>10, <1>11, <1>12 DEF Typing
<1>14. Aimed /\ PoolAimed /\ BroadcastAimed BY <1>1, <1>7, <1>9 DEF Aimed, AimedAt, PoolAimed, BroadcastAimed
<1>15. Done = {} BY <1>9 DEF Done
<1>16. Counted BY <1>1, <1>15, FS_EmptySet DEF Counted
<1>. QED BY <1>13, <1>14, <1>16 DEF Base

\* The variables emit never writes, or only the routing, the targets and the broadcast do.
LEMMA RouteBase ==
  ASSUME Base, NEW h \in Handlers, Route(h) PROVE Base'
<1>. USE DEF Base
<1>1. UNCHANGED <<op, status, mu, flushed, targetList, pool, conns, dialling, eof, shutdown,
                 up, known, applied, delivered, lost, routed, deaths>>
  BY DEF Route
<1>2. Only(h) /\ hnd[h].ph \in {"stream", "flush"} BY RouteStep
<1>3. PICK t \in hnd[h].work, a \in Targets :
        hnd'[h] = [hnd[h] EXCEPT !.work = @ \ {t}, !.pc = "lookup", !.t = t, !.try = 1, !.to = a]
  BY RouteStep
<1>4. hnd'[h].ph = hnd[h].ph /\ hnd'[h].pc = "lookup" /\ hnd'[h].t = t /\ hnd'[h].to = a
  BY <1>3, HandlerTypes DEF HandlerStates
<1>5. AimedAt(h)' BY <1>4, HandlerTypes DEF AimedAt
<1>6. Keep BY <1>1, UnchangedKeeps
<1>7. Aimed' BY <1>2, <1>5, <1>6, AimedKept DEF Only, Aimed
<1>8. PoolAimed' /\ BroadcastAimed' BY <1>1, <1>6, PoolKept, BroadcastKept
<1>9. Counted' BY <1>1, <1>2, <1>4, DoneKept
<1>10. Typing' BY <1>1, <1>2 DEF Typing, Only
<1>. QED BY <1>7, <1>8, <1>9, <1>10

\* So does the look into the pool.
LEMMA LookupBase ==
  ASSUME Base, NEW h \in Handlers, Lookup(h) PROVE Base'
<1>. USE DEF Base
<1>1. UNCHANGED <<op, status, mu, flushed, targetList, pool, conns, dialling, eof, shutdown,
                 up, known, applied, delivered, lost, routed, deaths>>
  BY DEF Lookup
<1>. DEFINE c == pool[hnd[h].to]
<1>2. Only(h) /\ hnd[h].to \in Targets
      /\ hnd'[h] = [hnd[h] EXCEPT !.conn = c, !.pc = IF c.conn = 0 THEN "dial" ELSE "send"]
  BY LookupStep
<1>3. c \in Encoders /\ c.conn <= Len(conns) /\ (c.conn # 0 => conns[c.conn].to = hnd[h].to)
  BY <1>2 DEF Typing, PoolAimed
<1>. HIDE DEF c
<1>4. /\ hnd'[h].ph = hnd[h].ph /\ hnd'[h].pc = (IF c.conn = 0 THEN "dial" ELSE "send")
      /\ hnd'[h].t = hnd[h].t /\ hnd'[h].to = hnd[h].to /\ hnd'[h].conn = c
  BY <1>2, HandlerTypes DEF HandlerStates
<1>5. hnd[h].t \in Tuples BY DEF Lookup, Aimed, AimedAt
<1>6. Keep BY <1>1, UnchangedKeeps
<1>7. c.conn # 0 => c.conn \in 1..Len(conns) BY <1>3, <1>6 DEF Encoders, Keep
<1>8. AimedAt(h)' BY <1>1, <1>2, <1>3, <1>4, <1>5, <1>7 DEF AimedAt
<1>9. Aimed' BY <1>2, <1>8, <1>6, AimedKept DEF Only, Aimed
<1>10. PoolAimed' /\ BroadcastAimed' BY <1>1, <1>6, PoolKept, BroadcastKept
<1>11. Counted' BY <1>1, <1>2, <1>4, DoneKept
<1>12. Typing' BY <1>1, <1>2 DEF Typing, Only
<1>. QED BY <1>9, <1>10, <1>11, <1>12

\* What a handler that gives up looks like.
LEMMA QuitBase ==
  ASSUME Typing, NEW h \in Handlers, Quit(h)
  PROVE  /\ hnd'[h].ph = hnd[h].ph /\ hnd'[h].pc = "idle" /\ hnd'[h].work = hnd[h].work
         /\ hnd'[h].t = hnd[h].t /\ hnd'[h].to = hnd[h].to /\ hnd'[h].try = hnd[h].try
BY HandlerTypes DEF Quit, HandlerStates

\* What a handler keeps when it tries again.
LEMMA AgainFacts ==
  ASSUME Typing, NEW h \in Handlers, Again(h)
  PROVE  /\ hnd'[h].ph = hnd[h].ph /\ hnd'[h].pc = "send" /\ hnd'[h].work = hnd[h].work
         /\ hnd'[h].t = hnd[h].t /\ hnd'[h].to = hnd[h].to /\ hnd'[h].try = hnd[h].try + 1
         /\ hnd'[h].conn = hnd[h].conn
BY HandlerTypes DEF Again, HandlerStates

\* The lazy connection keeps the basic invariant,
LEMMA DialBase ==
  ASSUME Base, NEW h \in Handlers, Dial(h) PROVE Base'
<1>. USE DEF Base
<1>1. UNCHANGED <<op, status, mu, flushed, targetList, dialling, eof, shutdown,
                 up, known, applied, delivered, routed, deaths>>
  BY DEF Dial
<1>2. Only(h) /\ hnd[h].pc = "dial" /\ hnd[h].to \in Targets BY DialStep
<1>3. hnd[h].t \in Tuples BY <1>2 DEF Aimed, AimedAt
<1>4. CASE Connect(hnd[h].to, TRUE) /\ lost' = lost
           /\ hnd'[h] = [hnd[h] EXCEPT !.conn = pool'[hnd[h].to], !.pc = "send"]
  <2>. DEFINE c == pool'[hnd[h].to]
  <2>1. /\ PoolAimed' /\ c.conn \in 1..Len(conns') /\ conns'[c.conn].to = hnd[h].to
    BY <1>2, <1>4, PoolConnected
  <2>2. c \in Encoders BY <1>2, <1>4, ConnectFacts
  <2>3. hnd'[h] = [hnd[h] EXCEPT !.conn = c, !.pc = "send"] BY <1>4
  <2>. HIDE DEF c
  <2>4. /\ hnd'[h].ph = hnd[h].ph /\ hnd'[h].pc = "send"
        /\ hnd'[h].t = hnd[h].t /\ hnd'[h].to = hnd[h].to /\ hnd'[h].conn = c
    BY <2>3, HandlerTypes DEF HandlerStates
  <2>5. AimedAt(h)' BY <1>2, <1>3, <2>1, <2>4 DEF AimedAt
  <2>6. Keep BY <1>2, <1>4, ConnectKeeps
  <2>7. Aimed' BY <1>2, <2>5, <2>6, AimedKept DEF Only, Aimed
  <2>8. BroadcastAimed' BY <1>1, <2>6, BroadcastKept
  <2>9. Counted' BY <1>1, <1>2, <2>4, DoneKept
  <2>10. /\ conns' \in Seq(Connections) /\ Len(conns') <= MaxConns /\ pool' \in [Targets -> Encoders]
         /\ \A b \in Targets : pool'[b].conn <= Len(conns')
    BY <1>2, <1>4, ConnectFacts
  <2>11. Typing' BY <1>1, <1>2, <1>4, <2>10 DEF Typing, Only
  <2>. QED BY <2>1, <2>7, <2>8, <2>9, <2>11
<1>5. CASE /\ Quit(h) /\ pool' = pool /\ conns' = conns
           /\ lost' = lost \cup {<<hnd[h].t, hnd[h].to>>}
  <2>1. hnd'[h].ph = hnd[h].ph /\ hnd'[h].pc = "idle" BY <1>5, QuitBase
  <2>2. AimedAt(h)' BY <2>1 DEF AimedAt
  <2>3. Keep BY <1>5, UnchangedKeeps
  <2>4. Aimed' BY <1>2, <2>2, <2>3, AimedKept DEF Only, Aimed
  <2>5. PoolAimed' /\ BroadcastAimed' BY <1>1, <1>5, <2>3, PoolKept, BroadcastKept
  <2>6. Counted' BY <1>1, <1>2, <2>1, DoneKept
  <2>7. lost' \subseteq Tuples \X Targets BY <1>2, <1>3, <1>5 DEF Typing
  <2>8. Typing' BY <1>1, <1>2, <1>5, <2>7 DEF Typing, Only
  <2>. QED BY <2>4, <2>5, <2>6, <2>8
<1>. QED BY <1>4, <1>5, DialStep

\* An attempt on a connection, whatever comes of it.
LEMMA AttemptBase ==
  ASSUME Base, NEW h \in Handlers, NEW i \in 1..Len(conns), NEW l, NEW q, NEW a, Touched(i, l, q, a),
         Only(h), i = hnd[h].conn.conn, hnd[h].pc \in {"send", "wait"},
         hnd'[h] = [hnd[h] EXCEPT !.pc = "wait"] \/ Again(h) \/ Quit(h),
         UNCHANGED <<op, status, mu, flushed, targetList, pool, dialling, eof, shutdown,
                     up, known, applied, routed, deaths>>,
         delivered' \subseteq delivered \cup {<<hnd[h].t, hnd[h].to>>},
         lost' \subseteq lost \cup {<<hnd[h].t, hnd[h].to>>}
  PROVE  Base'
<1>. USE DEF Base
<1>1. /\ hnd[h].t \in Tuples /\ hnd[h].to \in Targets
      /\ hnd[h].conn.conn \in 1..Len(conns) /\ conns[hnd[h].conn.conn].to = hnd[h].to
  BY DEF Aimed, AimedAt
<1>2. Keep BY TouchedKeeps
<1>3. /\ hnd'[h].ph = hnd[h].ph
      /\ \/ hnd'[h].pc = "idle"
         \/ hnd'[h].t = hnd[h].t /\ hnd'[h].to = hnd[h].to /\ hnd'[h].conn = hnd[h].conn
  <2>1. CASE hnd'[h] = [hnd[h] EXCEPT !.pc = "wait"] BY <2>1, HandlerTypes DEF HandlerStates
  <2>2. CASE Again(h) BY <2>2, AgainFacts
  <2>3. CASE Quit(h) BY <2>3, QuitBase
  <2>. QED BY <2>1, <2>2, <2>3
<1>4. AimedAt(h)' BY <1>1, <1>2, <1>3 DEF AimedAt, Keep
<1>5. Aimed' BY <1>2, <1>4, AimedKept DEF Only, Aimed
<1>6. PoolAimed' /\ BroadcastAimed' /\ \A b \in Targets : pool'[b].conn <= Len(conns')
  BY <1>2, PoolKept, BroadcastKept
<1>7. Counted' BY <1>3, DoneKept
<1>8. lost' \subseteq Tuples \X Targets /\ delivered' \subseteq Tuples \X Targets BY <1>1 DEF Typing
<1>9. Typing' BY <1>2, <1>6, <1>8 DEF Typing, Only, Keep
<1>. QED BY <1>5, <1>6, <1>7, <1>9

\* so does an Encode,
LEMMA EncodeBase ==
  ASSUME Base, NEW h \in Handlers, Encode(h) PROVE Base'
<1>. DEFINE i == hnd[h].conn.conn
            c == conns[i]
<1>1. UNCHANGED <<op, status, mu, flushed, targetList, pool, dialling, eof, shutdown,
                 up, known, applied, delivered, routed, deaths>>
  BY DEF Encode
<1>2. /\ i \in 1..Len(conns) /\ Only(h) /\ hnd[h].pc = "send"
      /\ \/ /\ Touched(i, h, Append(c.req, hnd[h].t), c.ack) /\ lost' = lost
            /\ hnd'[h] = [hnd[h] EXCEPT !.pc = "wait"]
         \/ /\ Touched(i, h, c.req, c.ack) /\ lost' = lost
            /\ hnd'[h] = [hnd[h] EXCEPT !.pc = "wait"]
         \/ Touched(i, h, c.req, c.ack) /\ Again(h)
         \/ Touched(i, 0, c.req, c.ack) /\ Over(h)
  BY EncodeStep DEF Base
<1>3. lost' \subseteq lost \cup {<<hnd[h].t, hnd[h].to>>} BY <1>2 DEF Again, Over
<1>. HIDE DEF i, c
<1>4. PICK l, q, a : Touched(i, l, q, a) BY <1>2
<1>5. hnd'[h] = [hnd[h] EXCEPT !.pc = "wait"] \/ Again(h) \/ Quit(h) BY <1>2 DEF Over
<1>. QED BY <1>1, <1>2, <1>3, <1>4, <1>5, AttemptBase DEF i

\* and a Decode.
LEMMA DecodeBase ==
  ASSUME Base, NEW h \in Handlers, Decode(h) PROVE Base'
<1>. DEFINE i == hnd[h].conn.conn
            c == conns[i]
<1>1. UNCHANGED <<op, mu, flushed, targetList, pool, dialling, eof, shutdown,
                 up, known, applied, routed, deaths>>
  BY DEF Decode
<1>2. i \in 1..Len(conns) /\ hnd[h].pc = "wait" BY DecodeStep DEF Base
<1>3. CASE status' = "panicked" /\ hnd' = hnd /\ conns' = conns /\ delivered' = delivered /\ lost' = lost
  <2>1. Keep BY <1>3, UnchangedKeeps DEF Base
  <2>2. Typing' BY <1>1, <1>3 DEF Base, Typing
  <2>3. Aimed' BY <2>1, <1>3, AimedKept DEF Base, Aimed
  <2>4. PoolAimed' /\ BroadcastAimed' BY <1>1, <2>1, PoolKept, BroadcastKept DEF Base
  <2>5. Counted' BY <1>1, <1>3, CountedSame DEF Base
  <2>. QED BY <2>2, <2>3, <2>4, <2>5 DEF Base
<1>4. CASE ~(status' = "panicked" /\ hnd' = hnd /\ conns' = conns /\ delivered' = delivered /\ lost' = lost)
  <2>1. /\ Only(h) /\ status' = status
        /\ \/ /\ Quit(h) /\ lost' = lost /\ Touched(i, 0, c.req, Tail(c.ack))
              /\ delivered' = delivered \cup {<<hnd[h].t, hnd[h].to>>}
           \/ /\ delivered' = delivered
              /\ \/ Touched(i, h, c.req, Tail(c.ack)) /\ Again(h)
                 \/ Touched(i, 0, c.req, Tail(c.ack)) /\ Over(h)
                 \/ Touched(i, h, c.req, c.ack) /\ Again(h)
                 \/ Touched(i, 0, c.req, c.ack) /\ Over(h)
    BY <1>4, DecodeStep DEF Base
  <2>2. /\ lost' \subseteq lost \cup {<<hnd[h].t, hnd[h].to>>}
        /\ delivered' \subseteq delivered \cup {<<hnd[h].t, hnd[h].to>>}
    BY <2>1 DEF Again, Over
  <2>. HIDE DEF i, c
  <2>3. PICK l, q, a : Touched(i, l, q, a) BY <2>1
  <2>4. Again(h) \/ Quit(h) BY <2>1 DEF Over
  <2>. QED BY <1>1, <1>2, <2>1, <2>2, <2>3, <2>4, AttemptBase DEF i
<1>. QED BY <1>3, <1>4

\* A handler at the end of its stream: not a connection is touched.
LEMMA EndOfStreamBase ==
  ASSUME Base, NEW h \in Handlers, Only(h), hnd'[h].pc = hnd[h].pc, hnd'[h].t = hnd[h].t,
         hnd'[h].to = hnd[h].to, hnd'[h].conn = hnd[h].conn, hnd[h].ph # "done",
         (hnd'[h].ph # "done" /\ eof' = eof) \/ (hnd'[h].ph = "done" /\ eof'.count = eof.count + 1),
         eof' \in EOFStates, BroadcastAimed', mu' \in Handlers \cup {0}, flushed' \in BOOLEAN,
         UNCHANGED <<op, status, targetList, pool, conns, dialling,
                     up, known, applied, delivered, lost, routed, deaths>>
  PROVE  Base'
<1>. USE DEF Base
<1>1. Keep BY UnchangedKeeps
<1>2. AimedAt(h)' BY <1>1 DEF AimedAt, Aimed, Keep
<1>3. Aimed' BY <1>1, <1>2, AimedKept DEF Only, Aimed
<1>4. PoolAimed' BY <1>1, PoolKept
<1>5. Typing' BY DEF Typing, Only
<1>6. CASE hnd'[h].ph # "done" /\ eof' = eof
  <2>1. Counted' BY <1>6, CountedKept
  <2>. QED BY <2>1, <1>3, <1>4, <1>5
<1>7. CASE hnd'[h].ph = "done" /\ eof'.count = eof.count + 1
  <2>1. Done' = Done \cup {h} /\ h \notin Done BY <1>7 DEF Done, Only
  <2>2. IsFiniteSet(Done) BY EmitAssumption, FS_Subset DEF Done
  <2>3. Cardinality(Done') = Cardinality(Done) + 1 BY <2>1, <2>2, FS_AddElement
  <2>4. Counted' BY <2>3, <1>7 DEF Counted
  <2>. QED BY <2>4, <1>3, <1>4, <1>5
<1>. QED BY <1>6, <1>7

\* The end of a stream keeps the basic invariant,
LEMMA EOFStepBase ==
  ASSUME Base, NEW h \in Handlers, EOFStep(h) PROVE Base'
<1>. USE DEF Base
<1>1. CASE CheckFlushed(h)
  <2>. DEFINE p == IF op = "count" /\ ~flushed THEN "toflush" ELSE "mark"
  <2>1. Only(h) /\ hnd[h].ph = "stream" /\ hnd'[h] = [hnd[h] EXCEPT !.ph = p]
    BY <1>1, CheckStep
  <2>2. p # "done" OBVIOUS
  <2>. HIDE DEF p
  <2>3. /\ hnd'[h].ph = p /\ hnd'[h].pc = hnd[h].pc /\ hnd'[h].t = hnd[h].t
        /\ hnd'[h].to = hnd[h].to /\ hnd'[h].conn = hnd[h].conn
    BY <2>1, HandlerTypes DEF HandlerStates
  <2>4. UNCHANGED <<op, status, mu, targetList, pool, conns, dialling, eof, shutdown,
                    up, known, applied, delivered, lost, routed, deaths>>
        /\ flushed' \in BOOLEAN
    BY <1>1 DEF CheckFlushed
  <2>5. BroadcastAimed' /\ eof' \in EOFStates /\ mu' \in Handlers \cup {0}
    BY <2>4 DEF BroadcastAimed, Typing
  <2>. QED BY <2>1, <2>2, <2>3, <2>4, <2>5, EndOfStreamBase
<1>2. CASE StartFlush(h)
  <2>1. Only(h) /\ hnd[h].ph = "toflush" /\ hnd'[h] = [hnd[h] EXCEPT !.ph = "flush", !.work = Outputs(h)]
    BY <1>2, StartFlushStep
  <2>3. /\ hnd'[h].ph = "flush" /\ hnd'[h].pc = hnd[h].pc /\ hnd'[h].t = hnd[h].t
        /\ hnd'[h].to = hnd[h].to /\ hnd'[h].conn = hnd[h].conn
    BY <2>1, HandlerTypes DEF HandlerStates
  <2>4. UNCHANGED <<op, status, flushed, targetList, pool, conns, dialling, eof, shutdown,
                    up, known, applied, delivered, lost, routed, deaths>>
        /\ mu' \in Handlers \cup {0}
    BY <1>2 DEF StartFlush
  <2>5. BroadcastAimed' /\ eof' \in EOFStates /\ flushed' \in BOOLEAN
    BY <2>4 DEF BroadcastAimed, Typing
  <2>. QED BY <2>1, <2>3, <2>4, <2>5, EndOfStreamBase
<1>3. CASE EndFlush(h)
  <2>1. Only(h) /\ hnd[h].ph = "flush" /\ hnd'[h] = [hnd[h] EXCEPT !.ph = "mark"]
    BY <1>3, EndFlushStep
  <2>3. /\ hnd'[h].ph = "mark" /\ hnd'[h].pc = hnd[h].pc /\ hnd'[h].t = hnd[h].t
        /\ hnd'[h].to = hnd[h].to /\ hnd'[h].conn = hnd[h].conn
    BY <2>1, HandlerTypes DEF HandlerStates
  <2>4. UNCHANGED <<op, status, flushed, targetList, pool, conns, dialling, eof, shutdown,
                    up, known, applied, delivered, lost, routed, deaths>>
        /\ mu' \in Handlers \cup {0}
    BY <1>3 DEF EndFlush
  <2>5. BroadcastAimed' /\ eof' \in EOFStates /\ flushed' \in BOOLEAN
    BY <2>4 DEF BroadcastAimed, Typing
  <2>. QED BY <2>1, <2>3, <2>4, <2>5, EndOfStreamBase
<1>4. CASE CountEOF(h)
  <2>1. /\ Only(h) /\ hnd[h].ph = "mark" /\ hnd'[h] = [hnd[h] EXCEPT !.ph = "done"]
        /\ eof' \in EOFStates /\ eof'.count = eof.count + 1
        /\ \/ /\ eof'.broadcast = eof.broadcast /\ eof'.left = eof.left /\ eof'.conn = eof.conn
           \/ /\ eof'.broadcast = "next"
    BY <1>4, CountStep
  <2>3. /\ hnd'[h].ph = "done" /\ hnd'[h].pc = hnd[h].pc /\ hnd'[h].t = hnd[h].t
        /\ hnd'[h].to = hnd[h].to /\ hnd'[h].conn = hnd[h].conn
    BY <2>1, HandlerTypes DEF HandlerStates
  <2>4. UNCHANGED <<op, status, mu, flushed, targetList, pool, conns, dialling,
                    up, known, applied, delivered, lost, routed, deaths>>
    BY <1>4 DEF CountEOF
  <2>5. BroadcastAimed' /\ mu' \in Handlers \cup {0} /\ flushed' \in BOOLEAN
    BY <2>1, <2>4 DEF BroadcastAimed, Typing
  <2>. QED BY <2>1, <2>3, <2>4, <2>5, EndOfStreamBase
<1>. QED BY <1>1, <1>2, <1>3, <1>4 DEF EOFStep

\* Steps that move no handler.
LEMMA QuietBase ==
  ASSUME Base, Keep, hnd' = hnd, eof'.count = eof.count, eof' \in EOFStates, BroadcastAimed', PoolAimed',
         pool' \in [Targets -> Encoders], \A a \in Targets : pool'[a].conn <= Len(conns'),
         status' \in {"up", "exited", "panicked"}, targetList' \in Seq(Targets), targetList' # <<>>,
         dialling' \subseteq Targets, up' \in [Targets -> BOOLEAN], deaths' \subseteq Targets,
         known' \in [Targets -> SUBSET Tags], applied' \in [Targets -> [Tuples -> Nat]],
         UNCHANGED <<op, mu, flushed, delivered, lost>>
  PROVE  Base'
<1>. USE DEF Base
<1>1. Aimed' BY AimedKept DEF Aimed
<1>2. Counted' BY CountedSame
<1>3. Typing' BY DEF Typing, Keep
<1>. QED BY <1>1, <1>2, <1>3

\* so do the broadcast, the EOF timer and the exit,
LEMMA BroadcastBase ==
  ASSUME Base, BroadcastStep \/ EOFTimeout \/ Exit PROVE Base'
<1>. USE DEF Base
<1>0. /\ pool \in [Targets -> Encoders] /\ \A a \in Targets : pool[a].conn <= Len(conns)
      /\ status \in {"up", "exited", "panicked"} /\ targetList \in Seq(Targets) /\ targetList # <<>>
      /\ dialling \subseteq Targets /\ up \in [Targets -> BOOLEAN] /\ deaths \subseteq Targets
      /\ known \in [Targets -> SUBSET Tags] /\ applied \in [Targets -> [Tuples -> Nat]]
      /\ eof \in EOFStates
  BY DEF Typing
<1>1. CASE BroadcastLookup
  <2>. DEFINE a == Head(eof.left)
  <2>1. UNCHANGED <<op, status, hnd, mu, flushed, targetList, dialling, shutdown,
                    up, known, applied, delivered, lost, routed, deaths>>
    BY <1>1 DEF BroadcastLookup
  <2>2. a \in Targets /\ eof.left # <<>> /\ eof' \in EOFStates /\ eof'.count = eof.count
    BY <1>1, BroadcastLookupStep
  <2>3. CASE /\ pool[a].conn # 0 /\ pool' = pool /\ conns' = conns
             /\ eof'.broadcast = "send" /\ eof'.left = eof.left /\ eof'.conn = pool[a].conn
    <3>1. Keep BY <2>3, UnchangedKeeps
    <3>2. pool[a].conn \in 1..Len(conns) /\ conns[pool[a].conn].to = a
      BY <1>0, <2>2, <2>3, <3>1 DEF Encoders, PoolAimed, Keep
    <3>3. BroadcastAimed' BY <2>2, <2>3, <3>2 DEF BroadcastAimed
    <3>4. PoolAimed' BY <2>3, <3>1, PoolKept
    <3>. QED BY <1>0, <2>1, <2>2, <2>3, <3>1, <3>3, <3>4, QuietBase
  <2>4. CASE /\ Connect(a, FALSE)
             /\ eof'.broadcast = "send" /\ eof'.left = eof.left /\ eof'.conn = pool'[a].conn
    <3>1. Keep BY <2>2, <2>4, ConnectKeeps
    <3>2. PoolAimed' /\ pool'[a].conn \in 1..Len(conns') /\ conns'[pool'[a].conn].to = a
      BY <2>2, <2>4, PoolConnected
    <3>3. BroadcastAimed' BY <2>2, <2>4, <3>2 DEF BroadcastAimed
    <3>4. pool' \in [Targets -> Encoders] /\ \A b \in Targets : pool'[b].conn <= Len(conns')
      BY <2>2, <2>4, ConnectFacts
    <3>. QED BY <1>0, <2>1, <2>2, <3>1, <3>2, <3>3, <3>4, QuietBase
  <2>5. CASE /\ pool' = pool /\ conns' = conns
             /\ eof'.broadcast = "next" /\ eof'.left = Tail(eof.left)
    <3>1. Keep BY <2>5, UnchangedKeeps
    <3>3. BroadcastAimed' BY <2>5 DEF BroadcastAimed
    <3>4. PoolAimed' BY <2>5, <3>1, PoolKept
    <3>. QED BY <1>0, <2>1, <2>2, <2>5, <3>1, <3>3, <3>4, QuietBase
  <2>. QED BY <1>1, <2>3, <2>4, <2>5, BroadcastLookupStep
<1>2. CASE BroadcastSend
  <2>. DEFINE i == eof.conn
  <2>1. UNCHANGED <<op, status, hnd, mu, flushed, targetList, pool, dialling, shutdown,
                    up, known, applied, delivered, lost, routed, deaths>>
    BY <1>2 DEF BroadcastSend
  <2>2. /\ i \in 1..Len(conns) /\ eof' \in EOFStates /\ eof'.count = eof.count
        /\ eof'.broadcast = "next"
        /\ Touched(i, 0, Append(conns[i].req, EOF), conns[i].ack) \/ conns' = conns
    BY <1>2, BroadcastSendStep
  <2>3. Keep BY <2>2, TouchedKeeps, UnchangedKeeps
  <2>4. BroadcastAimed' BY <2>2 DEF BroadcastAimed
  <2>5. PoolAimed' /\ \A b \in Targets : pool'[b].conn <= Len(conns') BY <2>1, <2>3, PoolKept
  <2>. QED BY <1>0, <2>1, <2>2, <2>3, <2>4, <2>5, QuietBase
<1>3. CASE BroadcastEnd
  <2>1. UNCHANGED <<op, status, hnd, mu, flushed, targetList, pool, conns, dialling,
                    up, known, applied, delivered, lost, routed, deaths>>
    BY <1>3 DEF BroadcastEnd
  <2>2. eof' \in EOFStates /\ eof'.count = eof.count /\ eof'.broadcast = "done"
    BY <1>3, BroadcastEndStep
  <2>3. Keep BY <2>1, UnchangedKeeps
  <2>4. BroadcastAimed' BY <2>2 DEF BroadcastAimed
  <2>5. PoolAimed' /\ \A b \in Targets : pool'[b].conn <= Len(conns') BY <2>1, <2>3, PoolKept
  <2>. QED BY <1>0, <2>1, <2>2, <2>3, <2>4, <2>5, QuietBase
<1>4. CASE EOFTimeout
  <2>1. UNCHANGED <<op, status, hnd, mu, flushed, targetList, pool, conns, dialling, shutdown,
                    up, known, applied, delivered, lost, routed, deaths>>
    BY <1>4 DEF EOFTimeout
  <2>2. /\ eof' \in EOFStates /\ eof'.count = eof.count
        /\ \/ eof'.broadcast = eof.broadcast /\ eof'.left = eof.left /\ eof'.conn = eof.conn
           \/ eof'.broadcast = "next"
    BY <1>4, TimeoutStep
  <2>3. Keep BY <2>1, UnchangedKeeps
  <2>4. BroadcastAimed' BY <2>1, <2>2 DEF BroadcastAimed
  <2>5. PoolAimed' /\ \A b \in Targets : pool'[b].conn <= Len(conns') BY <2>1, <2>3, PoolKept
  <2>. QED BY <1>0, <2>1, <2>2, <2>3, <2>4, <2>5, QuietBase
<1>5. CASE Exit
  <2>1. UNCHANGED <<op, hnd, mu, flushed, targetList, pool, conns, dialling, eof, shutdown,
                    up, known, applied, delivered, lost, routed, deaths>> /\ status' = "exited"
    BY <1>5 DEF Exit
  <2>3. Keep BY <2>1, UnchangedKeeps
  <2>4. BroadcastAimed' BY <2>1, <2>3, BroadcastKept
  <2>5. PoolAimed' /\ \A b \in Targets : pool'[b].conn <= Len(conns') BY <2>1, <2>3, PoolKept
  <2>. QED BY <1>0, <2>1, <2>3, <2>4, <2>5, QuietBase
<1>. QED BY <1>1, <1>2, <1>3, <1>4, <1>5 DEF BroadcastStep

\* the routing updates and the connections made for them,
LEMMA RoutingBase ==
  ASSUME Base, (\E list \in Updates : RoutingUpdate(list)) \/ \E a \in Targets : RoutingDial(a)
  PROVE  Base'
<1>. USE DEF Base
<1>0. /\ pool \in [Targets -> Encoders] /\ \A a \in Targets : pool[a].conn <= Len(conns)
      /\ status \in {"up", "exited", "panicked"} /\ targetList \in Seq(Targets) /\ targetList # <<>>
      /\ dialling \subseteq Targets /\ up \in [Targets -> BOOLEAN] /\ deaths \subseteq Targets
      /\ known \in [Targets -> SUBSET Tags] /\ applied \in [Targets -> [Tuples -> Nat]]
      /\ eof \in EOFStates
  BY DEF Typing
<1>1. ASSUME NEW list \in Updates, RoutingUpdate(list) PROVE Base'
  <2>1. UNCHANGED <<op, status, hnd, mu, flushed, pool, conns, eof, shutdown,
                    up, known, applied, delivered, lost, deaths>>
        /\ targetList' = list /\ dialling' = dialling \cup {a \in ToSet(list) : pool[a].conn = 0}
    BY <1>1 DEF RoutingUpdate
  <2>2. list \in Seq(Targets) /\ list # <<>> BY EmitAssumption
  <2>3. ToSet(list) \subseteq Targets BY <2>2, LenProperties DEF ToSet
  <2>4. dialling' \subseteq Targets BY <1>0, <2>1, <2>3
  <2>5. Keep BY <2>1, UnchangedKeeps
  <2>6. BroadcastAimed' BY <2>1, <2>5, BroadcastKept
  <2>7. PoolAimed' /\ \A b \in Targets : pool'[b].conn <= Len(conns') BY <2>1, <2>5, PoolKept
  <2>. QED BY <1>0, <2>1, <2>2, <2>4, <2>5, <2>6, <2>7, QuietBase
<1>2. ASSUME NEW a \in Targets, RoutingDial(a) PROVE Base'
  <2>1. UNCHANGED <<op, status, hnd, mu, flushed, targetList, eof, shutdown,
                    up, known, applied, delivered, lost, routed, deaths>>
        /\ dialling' \subseteq Targets
    BY <1>0, <1>2 DEF RoutingDial
  <2>2. CASE Connect(a, TRUE)
    <3>1. Keep BY <2>2, ConnectKeeps
    <3>2. PoolAimed' BY <2>2, PoolConnected
    <3>3. BroadcastAimed' BY <2>1, <3>1, BroadcastKept
    <3>4. pool' \in [Targets -> Encoders] /\ \A b \in Targets : pool'[b].conn <= Len(conns')
      BY <2>2, ConnectFacts
    <3>. QED BY <1>0, <2>1, <3>1, <3>2, <3>3, <3>4, QuietBase
  <2>3. CASE UNCHANGED <<pool, conns>>
    <3>1. Keep BY <2>3, UnchangedKeeps
    <3>2. BroadcastAimed' BY <2>1, <3>1, BroadcastKept
    <3>3. PoolAimed' /\ \A b \in Targets : pool'[b].conn <= Len(conns') BY <2>3, <3>1, PoolKept
    <3>. QED BY <1>0, <2>1, <2>3, <3>1, <3>2, <3>3, QuietBase
  <2>. QED BY <1>2, <2>2, <2>3 DEF RoutingDial
<1>. QED BY <1>1, <1>2

\* and the targets.
LEMMA TargetBase ==
  ASSUME Base, \/ \E a \in Targets : TargetDies(a) \/ TargetRestarts(a)
               \/ \E i \in 1..Len(conns) : TargetStep(i)
  PROVE  Base'
<1>. USE DEF Base
<1>0. /\ pool \in [Targets -> Encoders] /\ \A a \in Targets : pool[a].conn <= Len(conns)
      /\ status \in {"up", "exited", "panicked"} /\ targetList \in Seq(Targets) /\ targetList # <<>>
      /\ dialling \subseteq Targets /\ up \in [Targets -> BOOLEAN] /\ deaths \subseteq Targets
      /\ known \in [Targets -> SUBSET Tags] /\ applied \in [Targets -> [Tuples -> Nat]]
      /\ eof \in EOFStates
  BY DEF Typing
<1>1. ASSUME NEW a \in Targets, TargetDies(a) PROVE Base'
  <2>1. UNCHANGED <<op, status, hnd, mu, flushed, targetList, pool, dialling, eof, shutdown,
                    known, applied, delivered, lost, routed>>
    BY <1>1 DEF TargetDies
  <2>2. deaths' = deaths \cup {a} /\ up' = [up EXCEPT ![a] = FALSE] BY <1>1 DEF TargetDies
  <2>3. deaths' \subseteq Targets /\ up' \in [Targets -> BOOLEAN] BY <1>0, <2>2
  <2>4. Keep BY <1>1, DiesKeeps
  <2>5. BroadcastAimed' BY <2>1, <2>4, BroadcastKept
  <2>6. PoolAimed' /\ \A b \in Targets : pool'[b].conn <= Len(conns') BY <2>1, <2>4, PoolKept
  <2>. QED BY <1>0, <2>1, <2>3, <2>4, <2>5, <2>6, QuietBase
<1>2. ASSUME NEW a \in Targets, TargetRestarts(a) PROVE Base'
  <2>1. UNCHANGED <<op, status, hnd, mu, flushed, targetList, pool, conns, dialling, eof, shutdown,
                    applied, delivered, lost, routed, deaths>>
    BY <1>2 DEF TargetRestarts
  <2>2. up' \in [Targets -> BOOLEAN] /\ known' \in [Targets -> SUBSET Tags]
    BY <1>0, <1>2 DEF TargetRestarts
  <2>4. Keep BY <2>1, UnchangedKeeps
  <2>5. BroadcastAimed' BY <2>1, <2>4, BroadcastKept
  <2>6. PoolAimed' /\ \A b \in Targets : pool'[b].conn <= Len(conns') BY <2>1, <2>4, PoolKept
  <2>. QED BY <1>0, <2>1, <2>2, <2>4, <2>5, <2>6, QuietBase
<1>3. ASSUME NEW i \in 1..Len(conns), Serve(i) PROVE Base'
  <2>. DEFINE c == conns[i]
              t == Head(c.req)
  <2>1. UNCHANGED <<op, status, hnd, mu, flushed, targetList, pool, dialling, eof, shutdown,
                    up, applied, delivered, lost, routed, deaths>>
    BY <1>3 DEF Serve
  <2>2. /\ \/ Touched(i, c.lock, Tail(c.req), Append(c.ack, t))
           \/ Touched(i, c.lock, Tail(c.req), c.ack)
        /\ t \in Tags
        /\ known' = [known EXCEPT ![c.to] = @ \cup {t}] \/ known' = known
    BY <1>3, ServeStep
  <2>3. c.to \in Targets BY ConnTypes
  <2>. HIDE DEF c, t
  <2>4. known' \in [Targets -> SUBSET Tags]
    <3>1. known \in [Targets -> SUBSET Tags] BY <1>0
    <3>2. known[c.to] \cup {t} \in SUBSET Tags BY <2>2, <2>3, <3>1
    <3>. QED BY <2>2, <2>3, <3>1, <3>2
  <2>6. Keep BY <2>2, TouchedKeeps
  <2>7. BroadcastAimed' BY <2>1, <2>6, BroadcastKept
  <2>8. PoolAimed' /\ \A b \in Targets : pool'[b].conn <= Len(conns') BY <2>1, <2>6, PoolKept
  <2>. QED BY <1>0, <2>1, <2>4, <2>6, <2>7, <2>8, QuietBase
<1>4. ASSUME NEW i \in 1..Len(conns), Accept(i) PROVE Base'
  <2>. DEFINE c == conns[i]
              t == Head(c.req)
  <2>1. UNCHANGED <<op, status, hnd, mu, flushed, targetList, pool, conns, dialling, eof, shutdown,
                    up, known, delivered, lost, routed, deaths>>
    BY <1>4 DEF Accept
  <2>2. t \in Tuples /\ applied' = [applied EXCEPT ![c.to][t] = @ + 1] BY <1>4, AcceptStep
  <2>3. c.to \in Targets BY ConnTypes
  <2>. HIDE DEF c, t
  <2>5. applied' \in [Targets -> [Tuples -> Nat]]
    <3>1. applied[c.to][t] + 1 \in Nat BY <1>0, <2>2, <2>3
    <3>2. [applied[c.to] EXCEPT ![t] = @ + 1] \in [Tuples -> Nat] BY <1>0, <2>3, <3>1
    <3>. QED BY <1>0, <2>2, <2>3, <3>2
  <2>6. Keep BY <2>1, UnchangedKeeps
  <2>7. BroadcastAimed' BY <2>1, <2>6, BroadcastKept
  <2>8. PoolAimed' /\ \A b \in Targets : pool'[b].conn <= Len(conns') BY <2>1, <2>6, PoolKept
  <2>. QED BY <1>0, <2>1, <2>5, <2>6, <2>7, <2>8, QuietBase
<1>. QED BY <1>1, <1>2, <1>3, <1>4 DEF TargetStep

\* Every step keeps the basic invariant.
LEMMA StepBase == Base /\ [Next]_vars => Base'
<1>. SUFFICES ASSUME Base, [Next]_vars PROVE Base'
  OBVIOUS
<1>1. ASSUME NEW h \in Handlers, EmitStep(h) PROVE Base'
  BY <1>1, RouteBase, LookupBase, DialBase, EncodeBase, DecodeBase DEF EmitStep
<1>2. CASE UNCHANGED vars
  <2>1. Keep BY <1>2, UnchangedKeeps DEF Base, vars
  <2>2. BroadcastAimed' /\ PoolAimed' BY <1>2, <2>1, BroadcastKept, PoolKept DEF Base, vars
  <2>. QED BY <1>2, <2>1, <2>2, QuietBase DEF Base, Typing, vars
<1>. QED BY <1>1, <1>2, EOFStepBase, BroadcastBase, RoutingBase, TargetBase DEF Next

----------------------------------------------------------------------------
\* The tuples that wait on a connection for the target's handler.
Reqs(c) == {c.req[k] : k \in 1..Len(c.req)} \cap Tuples

\* A handler emits its own tuples, one after the other, while it streams (pass) or
\* flushes (count).
Own(h) ==
  /\ \A t \in hnd[h].work : t[1] = h
  /\ hnd[h].pc # "idle" => hnd[h].t[1] = h /\ hnd[h].t \notin hnd[h].work
  /\ hnd[h].work # {} \/ hnd[h].pc # "idle" =>
       hnd[h].ph = "flush" \/ (hnd[h].ph = "stream" /\ op = "pass")

\* A tuple that waits on the i-th connection has been routed, will not be routed again,
\* and is repeated on this connection only.
Way(i, t) ==
  LET s == hnd[t[1]] IN
  /\ s.ph # "toflush" /\ (s.ph = "stream" => op = "pass")
  /\ t \notin s.work
  /\ s.pc # "idle" /\ s.t = t => s.pc \in {"send", "wait"} /\ s.conn.conn = i

\* Every handler emits its own, ...
Owned == \A h \in Handlers : Own(h)
\* ... each tuple that waits is where its handler sends it, ...
Wired == \A i \in 1..Len(conns) : \A t \in Reqs(conns[i]) : Way(i, t)
\* ... and nowhere else.
Single ==
  \A i, j \in 1..Len(conns) : \A t \in Reqs(conns[i]) : t \in Reqs(conns[j]) => i = j

\* The invariant about the tuples under way: none waits on two connections.
Lane == Owned /\ Wired /\ Single

\* Steps in which no tuple is sent.
NoNewReqs ==
  \A i \in 1..Len(conns') :
    Reqs(conns'[i]) = {} \/ (i \in 1..Len(conns) /\ Reqs(conns'[i]) \subseteq Reqs(conns[i]))

\* The requests of a connection after one was answered, or one more was sent.
LEMMA ReqParts ==
  ASSUME NEW c, NEW d, c.req \in Seq(Tags)
  PROVE  /\ c.req # <<>> /\ Head(c.req) \in Tuples => Head(c.req) \in Reqs(c)
         /\ c.req # <<>> /\ d.req = Tail(c.req) => Reqs(d) \subseteq Reqs(c)
         /\ d.req = c.req => Reqs(d) = Reqs(c)
         /\ d.req = <<>> => Reqs(d) = {}
         /\ \A x \in Tags : d.req = Append(c.req, x) => Reqs(d) \subseteq Reqs(c) \cup ({x} \cap Tuples)
<1>1. Len(c.req) \in Nat BY LenProperties
<1>2. ASSUME c.req # <<>>, d.req = Tail(c.req) PROVE Reqs(d) \subseteq Reqs(c)
  <2>1. Len(d.req) = Len(c.req) - 1 /\ \A k \in 1..Len(d.req) : d.req[k] = c.req[k + 1]
    BY <1>2, HeadTailProperties
  <2>2. \A k \in 1..Len(d.req) : k + 1 \in 1..Len(c.req) BY <1>1, <2>1
  <2>. QED BY <2>1, <2>2 DEF Reqs
<1>3. ASSUME c.req # <<>>, Head(c.req) \in Tuples PROVE Head(c.req) \in Reqs(c)
  <2>1. Len(c.req) # 0 BY <1>3, EmptySeq
  <2>2. Head(c.req) = c.req[1] BY <1>3, <2>1
  <2>3. 1 \in 1..Len(c.req) BY <1>1, <2>1
  <2>. QED BY <1>3, <2>2, <2>3 DEF Reqs
<1>4. d.req = <<>> => Reqs(d) = {} BY DEF Reqs
<1>5. ASSUME NEW x \in Tags, d.req = Append(c.req, x) PROVE Reqs(d) \subseteq Reqs(c) \cup ({x} \cap Tuples)
  <2>1. /\ Len(d.req) = Len(c.req) + 1 /\ \A k \in 1..Len(c.req) : d.req[k] = c.req[k]
        /\ d.req[Len(c.req) + 1] = x
    BY <1>5, AppendProperties
  <2>2. PICK I, J, q : I = 1..Len(c.req) /\ J = 1..Len(d.req) /\ q = Len(c.req) + 1 OBVIOUS
  <2>3. J = I \cup {q} BY <1>1, <2>1, <2>2
  <2>4. Reqs(c) = {c.req[k] : k \in I} \cap Tuples /\ Reqs(d) = {d.req[k] : k \in J} \cap Tuples
    BY <2>2, Zenon DEF Reqs
  <2>5. d.req[q] = x /\ \A k \in I : d.req[k] = c.req[k] BY <2>1, <2>2
  <2>. QED BY <2>3, <2>4, <2>5
<1>. QED BY <1>2, <1>3, <1>4, <1>5 DEF Reqs

\* Answers and EOF markers send no tuple,
LEMMA TouchedReqs ==
  ASSUME Typing, NEW i \in 1..Len(conns), NEW l, NEW q, NEW a, Touched(i, l, q, a),
         \/ q = conns[i].req \/ (conns[i].req # <<>> /\ q = Tail(conns[i].req))
         \/ q = Append(conns[i].req, EOF)
  PROVE  NoNewReqs
<1>1. conns'[i].req = q /\ Len(conns') = Len(conns)
      /\ \A j \in 1..Len(conns) : j # i => conns'[j] = conns[j]
  BY DEF Touched
<1>2. EOF \in Tags /\ {EOF} \cap Tuples = {} BY TuplesAreNotEOF DEF Tags
<1>. DEFINE c == conns[i]
            d == conns'[i]
<1>3. c.req \in Seq(Tags) BY ConnTypes
<1>4. d.req = c.req \/ (c.req # <<>> /\ d.req = Tail(c.req)) \/ d.req = Append(c.req, EOF) BY <1>1
<1>5. Reqs(d) \subseteq Reqs(c)
  <2>. HIDE DEF c, d
  <2>1. /\ c.req # <<>> /\ d.req = Tail(c.req) => Reqs(d) \subseteq Reqs(c)
        /\ d.req = c.req => Reqs(d) = Reqs(c)
        /\ d.req = Append(c.req, EOF) => Reqs(d) \subseteq Reqs(c) \cup ({EOF} \cap Tuples)
    BY <1>2, <1>3, ReqParts
  <2>. QED BY <1>2, <1>4, <2>1
<1>. QED BY <1>1, <1>5 DEF NoNewReqs

\* nor does a dial or a death.
LEMMA OtherReqs ==
  ASSUME Typing, \/ conns' = conns
                 \/ \E a \in Targets, d \in BOOLEAN : Connect(a, d)
                 \/ \E a \in Targets : TargetDies(a)
  PROVE  NoNewReqs
<1>1. CASE conns' = conns BY <1>1 DEF NoNewReqs
<1>2. ASSUME NEW a \in Targets, NEW d \in BOOLEAN, Connect(a, d) PROVE NoNewReqs
  <2>1. /\ Len(conns') = Len(conns) + 1 /\ Len(conns) \in Nat
        /\ \A i \in 1..Len(conns) : conns'[i] = conns[i]
        /\ conns'[Len(conns) + 1] = NewConn(a)
    BY <1>2, ConnectFacts
  <2>2. Reqs(NewConn(a)) = {} BY NewConnFacts DEF Reqs
  <2>3. \A i \in 1..Len(conns') : i \in 1..Len(conns) \/ i = Len(conns) + 1 BY <2>1
  <2>. QED BY <2>1, <2>2, <2>3 DEF NoNewReqs
<1>3. ASSUME NEW a \in Targets, TargetDies(a) PROVE NoNewReqs
  <2>1. /\ Len(conns') = Len(conns)
        /\ \A j \in 1..Len(conns) : conns[j].to # a => conns'[j] = conns[j]
        /\ \A j \in 1..Len(conns) : conns[j].to = a => conns'[j].req = <<>>
    BY <1>3, DiesStep
  <2>2. \A j \in 1..Len(conns) : conns'[j].req = <<>> => Reqs(conns'[j]) = {} BY DEF Reqs
  <2>. QED BY <2>1, <2>2 DEF NoNewReqs
<1>. QED BY <1>1, <1>2, <1>3

\* The owner of a tuple under way is a handler.
LEMMA ReqOwner ==
  ASSUME NEW c, NEW t \in Reqs(c) PROVE t \in Tuples /\ t[1] \in Handlers
BY DEF Reqs, Tuples

\* When no handler moves and no tuple is sent the lanes stay,
LEMMA QuietLane ==
  ASSUME Lane, NoNewReqs, hnd' = hnd, op' = op PROVE Lane'
<1>1. Owned' BY DEF Lane, Owned, Own
<1>2. \A i \in 1..Len(conns') : \A t \in Reqs(conns'[i]) : i \in 1..Len(conns) /\ t \in Reqs(conns[i])
  BY DEF NoNewReqs
<1>3. Wired' BY <1>2 DEF Lane, Wired, Way
<1>4. Single' BY <1>2 DEF Lane, Single
<1>. QED BY <1>1, <1>3, <1>4 DEF Lane

\* and when one moves as it may.
LEMMA HandlerLane ==
  ASSUME Lane, NoNewReqs, NEW h \in Handlers, Only(h), op' = op, Own(h)',
         \A i \in 1..Len(conns) : \A t \in Reqs(conns[i]) : t[1] = h => Way(i, t)'
  PROVE  Lane'
<1>1. Owned'
  <2>1. \A g \in Handlers \ {h} : Own(g)' BY DEF Lane, Owned, Own, Only
  <2>. QED BY <2>1 DEF Owned
<1>2. \A i \in 1..Len(conns') : \A t \in Reqs(conns'[i]) : i \in 1..Len(conns) /\ t \in Reqs(conns[i])
  BY DEF NoNewReqs
<1>3. Wired'
  <2>. SUFFICES ASSUME NEW i \in 1..Len(conns'), NEW t \in Reqs(conns'[i]) PROVE Way(i, t)'
    BY DEF Wired, Reqs
  <2>1. i \in 1..Len(conns) /\ t \in Reqs(conns[i]) BY <1>2
  <2>2. t[1] \in Handlers BY <2>1, ReqOwner
  <2>3. CASE t[1] = h BY <2>1, <2>3
  <2>4. CASE t[1] # h
    <3>1. Way(i, t) BY <2>1 DEF Lane, Wired
    <3>2. hnd'[t[1]] = hnd[t[1]] BY <2>2, <2>4 DEF Only
    <3>. QED BY <3>1, <3>2 DEF Way
  <2>. QED BY <2>3, <2>4
<1>4. Single' BY <1>2 DEF Lane, Single
<1>. QED BY <1>1, <1>3, <1>4 DEF Lane

\* A handler that repeats, waits or gives up stays on its lane.
LEMMA AttemptLane ==
  ASSUME Typing, Lane, NoNewReqs, NEW h \in Handlers, Only(h), op' = op,
         hnd[h].pc \in {"send", "wait"},
         hnd'[h] = [hnd[h] EXCEPT !.pc = "wait"] \/ Again(h) \/ Quit(h)
  PROVE  Lane'
<1>1. /\ hnd'[h].ph = hnd[h].ph /\ hnd'[h].work = hnd[h].work
      /\ \/ hnd'[h].pc = "idle"
         \/ hnd'[h].pc \in {"send", "wait"} /\ hnd'[h].t = hnd[h].t /\ hnd'[h].conn = hnd[h].conn
  <2>1. CASE hnd'[h] = [hnd[h] EXCEPT !.pc = "wait"] BY <2>1, HandlerTypes DEF HandlerStates
  <2>2. CASE Again(h) BY <2>2, AgainFacts
  <2>3. CASE Quit(h) BY <2>3, QuitBase
  <2>. QED BY <2>1, <2>2, <2>3
<1>2. Own(h) BY DEF Lane, Owned
<1>3. Own(h)' BY <1>1, <1>2 DEF Own
<1>4. ASSUME NEW i \in 1..Len(conns), NEW t \in Reqs(conns[i]), t[1] = h PROVE Way(i, t)'
  <2>1. Way(i, t) BY DEF Lane, Wired
  <2>. QED BY <1>1, <1>4, <2>1 DEF Way
<1>. QED BY <1>3, <1>4, HandlerLane

\* So no step of emit leads a tuple astray,
LEMMA EmitLane ==
  ASSUME Base, Lane, NEW h \in Handlers, EmitStep(h) PROVE Lane'
<1>. USE DEF Base
<1>1. Own(h) BY DEF Lane, Owned
<1>2. CASE Route(h)
  <2>1. conns' = conns /\ op' = op BY <1>2 DEF Route
  <2>2. Only(h) /\ hnd[h].ph \in {"stream", "flush"} /\ hnd[h].pc = "idle" BY <1>2, RouteStep
  <2>3. PICK u \in hnd[h].work, a \in Targets :
          hnd'[h] = [hnd[h] EXCEPT !.work = @ \ {u}, !.pc = "lookup", !.t = u, !.try = 1, !.to = a]
    BY <1>2, RouteStep
  <2>4. /\ hnd'[h].ph = hnd[h].ph /\ hnd'[h].pc = "lookup" /\ hnd'[h].t = u
        /\ hnd'[h].work = hnd[h].work \ {u}
    BY <2>3, HandlerTypes DEF HandlerStates
  <2>5. Own(h)' BY <1>1, <2>1, <2>4 DEF Own
  <2>6. ASSUME NEW i \in 1..Len(conns), NEW t \in Reqs(conns[i]), t[1] = h PROVE Way(i, t)'
    <3>1. Way(i, t) BY DEF Lane, Wired
    <3>2. t \notin hnd[h].work BY <2>6, <3>1 DEF Way
    <3>. QED BY <2>1, <2>4, <2>6, <3>1, <3>2 DEF Way
  <2>7. NoNewReqs BY <2>1, OtherReqs
  <2>. QED BY <2>1, <2>2, <2>5, <2>6, <2>7, HandlerLane
<1>3. CASE Lookup(h) \/ Dial(h)
  <2>1. op' = op BY <1>3 DEF Lookup, Dial
  <2>2. NoNewReqs
    <3>1. CASE Lookup(h) BY <3>1, OtherReqs DEF Lookup
    <3>2. CASE Dial(h)
      <4>1. hnd[h].to \in Targets /\ (Connect(hnd[h].to, TRUE) \/ conns' = conns) BY <3>2, DialStep
      <4>. QED BY <4>1, OtherReqs
    <3>. QED BY <1>3, <3>1, <3>2
  <2>3. hnd[h].pc \in {"lookup", "dial"} BY <1>3 DEF Lookup, Dial
  <2>4. /\ Only(h) /\ hnd'[h].ph = hnd[h].ph /\ hnd'[h].work = hnd[h].work /\ hnd'[h].t = hnd[h].t
    <3>1. CASE Lookup(h) BY <3>1, LookupStep, HandlerTypes DEF HandlerStates
    <3>2. CASE Dial(h)
      <4>1. Only(h) /\ (Quit(h) \/ hnd'[h] = [hnd[h] EXCEPT !.conn = pool'[hnd[h].to], !.pc = "send"])
        BY <3>2, DialStep
      <4>2. CASE Quit(h) BY <4>1, <4>2, QuitBase
      <4>3. CASE hnd'[h] = [hnd[h] EXCEPT !.conn = pool'[hnd[h].to], !.pc = "send"]
        BY <4>1, <4>3, HandlerTypes DEF HandlerStates
      <4>. QED BY <4>1, <4>2, <4>3
    <3>. QED BY <1>3, <3>1, <3>2
  <2>5. Own(h)' BY <1>1, <2>1, <2>3, <2>4 DEF Own
  <2>6. ASSUME NEW i \in 1..Len(conns), NEW t \in Reqs(conns[i]), t[1] = h PROVE Way(i, t)'
    <3>1. Way(i, t) BY DEF Lane, Wired
    <3>2. t # hnd[h].t BY <2>3, <2>6, <3>1 DEF Way
    <3>. QED BY <2>1, <2>4, <2>6, <3>1, <3>2 DEF Way
  <2>. QED BY <2>1, <2>2, <2>4, <2>5, <2>6, HandlerLane
<1>4. CASE Encode(h)
  <2>. DEFINE k == hnd[h].conn.conn
              c == conns[k]
              u == hnd[h].t
  <2>1. op' = op BY <1>4 DEF Encode
  <2>2. k \in 1..Len(conns) /\ u \in Tuples /\ Only(h) /\ hnd[h].pc = "send" BY <1>4, EncodeStep
  <2>3. CASE ~c.open
    <3>1. /\ Touched(k, h, c.req, c.ack) \/ Touched(k, 0, c.req, c.ack)
          /\ hnd'[h] = [hnd[h] EXCEPT !.pc = "wait"] \/ Again(h) \/ Quit(h)
      BY <1>4, <2>3, EncodeStep DEF Over
    <3>2. NoNewReqs BY <2>2, <3>1, TouchedReqs
    <3>. QED BY <2>1, <2>2, <3>1, <3>2, AttemptLane
  <2>4. CASE c.open
    <3>1. Touched(k, h, Append(c.req, u), c.ack) /\ hnd'[h] = [hnd[h] EXCEPT !.pc = "wait"]
      BY <1>4, <2>4, EncodeStep
    <3>2. /\ hnd'[h].ph = hnd[h].ph /\ hnd'[h].work = hnd[h].work /\ hnd'[h].pc = "wait"
          /\ hnd'[h].t = u /\ hnd'[h].conn = hnd[h].conn
      BY <3>1, HandlerTypes DEF HandlerStates
    <3>3. u[1] = h /\ u \notin hnd[h].work
          /\ (hnd[h].ph = "flush" \/ (hnd[h].ph = "stream" /\ op = "pass"))
      BY <1>1, <2>2 DEF Own
    <3>4. Own(h)' BY <1>1, <2>1, <2>2, <3>2 DEF Own
    <3>5. Owned'
      <4>1. \A g \in Handlers \ {h} : Own(g)' BY <2>1, <2>2 DEF Lane, Owned, Own, Only
      <4>. QED BY <3>4, <4>1 DEF Owned
    <3>6. Len(conns') = Len(conns) /\ \A j \in 1..Len(conns) : j # k => conns'[j] = conns[j]
      BY <3>1 DEF Touched
    <3>7. Reqs(conns'[k]) \subseteq Reqs(conns[k]) \cup {u}
      <4>. DEFINE d == conns'[k]
      <4>1. d.req = Append(c.req, u) /\ c.req \in Seq(Tags) /\ u \in Tags
        BY <2>2, <3>1, ConnTypes DEF Touched, Tags
      <4>. HIDE DEF c, d, u
      <4>2. Reqs(d) \subseteq Reqs(c) \cup ({u} \cap Tuples) BY <4>1, ReqParts
      <4>. QED BY <4>2 DEF c, d
    <3>8. \A i \in 1..Len(conns') : \A t \in Reqs(conns'[i]) :
            i \in 1..Len(conns) /\ (t \in Reqs(conns[i]) \/ (i = k /\ t = u))
      BY <2>2, <3>6, <3>7
    <3>9. \A i \in 1..Len(conns) : u \in Reqs(conns[i]) => i = k
      <4>. SUFFICES ASSUME NEW i \in 1..Len(conns), u \in Reqs(conns[i]) PROVE i = k
        OBVIOUS
      <4>1. Way(i, u) BY DEF Lane, Wired
      <4>. QED BY <2>2, <3>3, <4>1 DEF Way
    <3>10. Single'
      <4>. SUFFICES ASSUME NEW i \in 1..Len(conns'), NEW j \in 1..Len(conns'),
                           NEW t \in Reqs(conns'[i]), t \in Reqs(conns'[j])
                    PROVE  i = j
        BY DEF Single, Reqs
      <4>1. /\ i \in 1..Len(conns) /\ (t \in Reqs(conns[i]) \/ (i = k /\ t = u))
            /\ j \in 1..Len(conns) /\ (t \in Reqs(conns[j]) \/ (j = k /\ t = u))
        BY <3>8
      <4>2. CASE t = u BY <3>9, <4>1, <4>2
      <4>3. CASE t # u BY <4>1, <4>3 DEF Lane, Single
      <4>. QED BY <4>2, <4>3
    <3>11. Wired'
      <4>. SUFFICES ASSUME NEW i \in 1..Len(conns'), NEW t \in Reqs(conns'[i]) PROVE Way(i, t)'
        BY DEF Wired, Reqs
      <4>1. CASE i = k /\ t = u BY <2>1, <3>2, <3>3, <4>1 DEF Way
      <4>2. CASE i \in 1..Len(conns) /\ t \in Reqs(conns[i])
        <5>1. Way(i, t) /\ t[1] \in Handlers BY <4>2, ReqOwner DEF Lane, Wired
        <5>2. CASE t[1] = h BY <2>1, <2>2, <3>2, <5>1, <5>2 DEF Way
        <5>3. CASE t[1] # h
          <6>1. hnd'[t[1]] = hnd[t[1]] BY <2>2, <5>1, <5>3 DEF Only
          <6>. QED BY <2>1, <5>1, <6>1 DEF Way
        <5>. QED BY <5>2, <5>3
      <4>. QED BY <3>8, <4>1, <4>2
    <3>. QED BY <3>5, <3>10, <3>11 DEF Lane
  <2>. QED BY <2>3, <2>4
<1>5. CASE Decode(h)
  <2>. DEFINE k == hnd[h].conn.conn
              c == conns[k]
  <2>1. op' = op BY <1>5 DEF Decode
  <2>2. k \in 1..Len(conns) /\ hnd[h].pc = "wait" BY <1>5, DecodeStep
  <2>3. \/ hnd' = hnd /\ conns' = conns
        \/ /\ Only(h) /\ (Again(h) \/ Quit(h))
           /\ \/ Touched(k, 0, c.req, Tail(c.ack)) \/ Touched(k, h, c.req, Tail(c.ack))
              \/ Touched(k, 0, c.req, c.ack) \/ Touched(k, h, c.req, c.ack)
    BY <1>5, DecodeStep DEF Over
  <2>4. CASE hnd' = hnd /\ conns' = conns BY <2>1, <2>4, OtherReqs, QuietLane
  <2>5. CASE hnd' # hnd \/ conns' # conns
    <3>1. NoNewReqs BY <2>2, <2>3, <2>5, TouchedReqs
    <3>. QED BY <2>1, <2>2, <2>3, <2>5, <3>1, AttemptLane
  <2>. QED BY <2>4, <2>5
<1>. QED BY <1>2, <1>3, <1>4, <1>5 DEF EmitStep

\* the flush starts before its tuples are under way,
LEMMA EOFStepLane ==
  ASSUME Base, Lane, NEW h \in Handlers, EOFStep(h) PROVE Lane'
<1>. USE DEF Base
<1>1. Own(h) BY DEF Lane, Owned
<1>2. op' = op /\ conns' = conns
  BY DEF EOFStep, CheckFlushed, StartFlush, EndFlush, CountEOF
<1>3. NoNewReqs BY <1>2, OtherReqs
<1>4. CASE StartFlush(h)
  <2>1. /\ Only(h) /\ hnd[h].ph = "toflush"
        /\ hnd'[h] = [hnd[h] EXCEPT !.ph = "flush", !.work = Outputs(h)]
    BY <1>4, StartFlushStep
  <2>2. /\ hnd'[h].ph = "flush" /\ hnd'[h].work = Outputs(h) /\ hnd'[h].pc = hnd[h].pc
    BY <2>1, HandlerTypes DEF HandlerStates
  <2>3. hnd[h].pc = "idle" BY <1>1, <2>1 DEF Own
  <2>4. \A t \in Outputs(h) : t[1] = h BY DEF Outputs
  <2>5. Own(h)' BY <1>2, <2>2, <2>3, <2>4 DEF Own
  <2>6. ASSUME NEW i \in 1..Len(conns), NEW t \in Reqs(conns[i]), t[1] = h PROVE Way(i, t)'
    <3>1. Way(i, t) BY DEF Lane, Wired
    <3>. QED BY <2>1, <2>6, <3>1 DEF Way
  <2>. QED BY <1>2, <1>3, <2>1, <2>5, <2>6, HandlerLane
<1>5. CASE CheckFlushed(h) \/ EndFlush(h) \/ CountEOF(h)
  <2>1. PICK p \in {"toflush", "mark", "done"} :
          /\ Only(h) /\ hnd'[h] = [hnd[h] EXCEPT !.ph = p]
          /\ p = "toflush" => op = "count" /\ hnd[h].ph = "stream"
    BY <1>5, CheckStep, EndFlushStep, CountStep
  <2>2. hnd[h].pc = "idle" /\ hnd[h].work = {}
    <3>1. CASE CheckFlushed(h) BY <3>1, CheckStep
    <3>2. CASE EndFlush(h) BY <3>2, EndFlushStep
    <3>3. CASE CountEOF(h) BY <3>3, <1>1, CountStep DEF Own
    <3>. QED BY <1>5, <3>1, <3>2, <3>3
  <2>3. /\ hnd'[h].ph = p /\ hnd'[h].work = hnd[h].work /\ hnd'[h].pc = hnd[h].pc
    BY <2>1, HandlerTypes DEF HandlerStates
  <2>5. Own(h)' BY <2>2, <2>3 DEF Own
  <2>6. ASSUME NEW i \in 1..Len(conns), NEW t \in Reqs(conns[i]), t[1] = h PROVE Way(i, t)'
    <3>1. Way(i, t) BY DEF Lane, Wired
    <3>. QED BY <2>1, <2>2, <2>3, <2>6, <3>1 DEF Way
  <2>. QED BY <1>2, <1>3, <2>1, <2>5, <2>6, HandlerLane
<1>. QED BY <1>4, <1>5 DEF EOFStep

\* nothing is under way at the start,
LEMMA InitLane == Init => Lane
<1>. SUFFICES ASSUME Init PROVE Lane
  OBVIOUS
<1>1. Base BY InitBase
<1>2. conns = [i \in 1..Len(FirstList) |-> NewConn(FirstList[i])]
      /\ hnd = [h \in Handlers |-> NewHandler(IF op = "pass" THEN Outputs(h) ELSE {})]
  BY DEF Init
<1>3. \A i \in 1..Len(conns) : Reqs(conns[i]) = {}
  <2>2. DOMAIN conns = 1..Len(conns) BY <1>1, LenProperties DEF Base, Typing
  <2>3. DOMAIN conns = 1..Len(FirstList) BY <1>2
  <2>4. \A i \in 1..Len(conns) : conns[i].req = <<>> BY <1>2, <2>2, <2>3 DEF NewConn
  <2>. QED BY <2>4 DEF Reqs
<1>4. ASSUME NEW h \in Handlers PROVE Own(h)
  <2>1. hnd[h] = NewHandler(IF op = "pass" THEN Outputs(h) ELSE {}) BY <1>2
  <2>2. /\ hnd[h].pc = "idle" /\ hnd[h].ph = "stream"
        /\ hnd[h].work = (IF op = "pass" THEN Outputs(h) ELSE {})
    BY <2>1 DEF NewHandler
  <2>3. \A t \in Outputs(h) : t[1] = h BY DEF Outputs
  <2>. QED BY <2>2, <2>3 DEF Own
<1>. QED BY <1>3, <1>4 DEF Lane, Owned, Wired, Single

\* and no other step sends a tuple.
LEMMA StepLane == Base /\ Lane /\ [Next]_vars => Lane'
<1>. SUFFICES ASSUME Base, Lane, [Next]_vars PROVE Lane'
  OBVIOUS
<1>. USE DEF Base
<1>1. CASE BroadcastStep
  <2>1. CASE BroadcastLookup
    <3>1. Head(eof.left) \in Targets /\ (conns' = conns \/ Connect(Head(eof.left), FALSE))
      BY <2>1, BroadcastLookupStep
    <3>2. NoNewReqs BY <3>1, OtherReqs
    <3>. QED BY <2>1, <3>2, QuietLane DEF BroadcastLookup
  <2>2. CASE BroadcastSend
    <3>1. /\ eof.conn \in 1..Len(conns)
          /\ \/ Touched(eof.conn, 0, Append(conns[eof.conn].req, EOF), conns[eof.conn].ack)
             \/ conns' = conns
      BY <2>2, BroadcastSendStep
    <3>2. NoNewReqs BY <3>1, OtherReqs, TouchedReqs
    <3>. QED BY <2>2, <3>2, QuietLane DEF BroadcastSend
  <2>3. CASE BroadcastEnd BY <2>3, OtherReqs, QuietLane DEF BroadcastEnd
  <2>. QED BY <1>1, <2>1, <2>2, <2>3 DEF BroadcastStep
<1>2. CASE EOFTimeout \/ Exit \/ (\E list \in Updates : RoutingUpdate(list)) \/ UNCHANGED vars
  <2>1. hnd' = hnd /\ op' = op /\ conns' = conns BY <1>2 DEF EOFTimeout, Exit, RoutingUpdate, vars
  <2>. QED BY <2>1, OtherReqs, QuietLane
<1>3. ASSUME NEW a \in Targets, RoutingDial(a) \/ TargetDies(a) \/ TargetRestarts(a) PROVE Lane'
  <2>1. hnd' = hnd /\ op' = op BY <1>3 DEF RoutingDial, TargetDies, TargetRestarts
  <2>2. conns' = conns \/ Connect(a, TRUE) \/ TargetDies(a) BY <1>3 DEF RoutingDial, TargetRestarts
  <2>3. NoNewReqs BY <2>2, OtherReqs
  <2>. QED BY <2>1, <2>3, QuietLane
<1>4. ASSUME NEW i \in 1..Len(conns), TargetStep(i) PROVE Lane'
  <2>1. hnd' = hnd /\ op' = op BY <1>4 DEF TargetStep, Accept, Serve
  <2>2. CASE Accept(i) BY <2>1, <2>2, OtherReqs, QuietLane DEF Accept
  <2>3. CASE Serve(i)
    <3>. DEFINE c == conns[i]
    <3>1. c.req # <<>> /\ (\/ Touched(i, c.lock, Tail(c.req), Append(c.ack, Head(c.req)))
                           \/ Touched(i, c.lock, Tail(c.req), c.ack))
      BY <2>3, ServeStep
    <3>2. NoNewReqs BY <3>1, TouchedReqs
    <3>. QED BY <2>1, <3>2, QuietLane
  <2>. QED BY <1>4, <2>2, <2>3 DEF TargetStep
<1>. QED BY <1>1, <1>2, <1>3, <1>4, EmitLane, EOFStepLane DEF Next

----------------------------------------------------------------------------
\* The acks that wait on a connection.
Acks(c) == {c.ack[k] : k \in 1..Len(c.ack)}

\* They were given for EOF markers and for tuples the target had processed,
Acked ==
  \A i \in 1..Len(conns) : \A x \in Acks(conns[i]) : x = EOF \/ applied[conns[i].to][x] > 0

\* A handler of a that is past the duplicate check has t in hand.
InHand(a, t) == \E i \in busy : conns[i].to = a /\ Head(conns[i].req) = t

\* What a handler at a target has in hand is at the head of its connection, and counts
\* as processed.
Marked ==
  /\ busy \subseteq 1..Len(conns)
  /\ \A i \in busy : /\ conns[i].req # <<>> /\ Head(conns[i].req) \in Tuples
                     /\ applied[conns[i].to][Head(conns[i].req)] > 0

\* a target rejects only what it has processed,
KnownProcessed == \A a \in Targets : \A t \in known[a] : t \in Tuples /\ applied[a][t] > 0

\* and one that never died runs and has processed exactly once what it rejects or has
\* in hand.
Unbroken ==
  \A a \in Targets \ deaths :
    up[a] /\ \A t \in Tuples : applied[a][t] = IF t \in known[a] \/ InHand(a, t) THEN 1 ELSE 0

\* The invariant about the targets.
Service == Acked /\ Marked /\ KnownProcessed /\ Unbroken /\ DeliveredIsProcessed

\* Steps in which no ack is written.
NoNewAcks ==
  \A i \in 1..Len(conns') :
    \/ Acks(conns'[i]) = {}
    \/ i \in 1..Len(conns) /\ conns'[i].to = conns[i].to /\ Acks(conns'[i]) \subseteq Acks(conns[i])

\* The acks of a connection after reading one, losing all, or getting one more.
LEMMA AckParts ==
  ASSUME NEW S, NEW c, NEW d, c.ack \in Seq(S)
  PROVE  /\ c.ack # <<>> => Head(c.ack) \in Acks(c)
         /\ c.ack # <<>> /\ d.ack = Tail(c.ack) => Acks(d) \subseteq Acks(c)
         /\ d.ack = c.ack => Acks(d) = Acks(c)
         /\ d.ack = <<>> => Acks(d) = {}
         /\ \A x \in S : d.ack = Append(c.ack, x) => Acks(d) = Acks(c) \cup {x}
<1>1. Len(c.ack) \in Nat BY LenProperties
<1>2. ASSUME c.ack # <<>>, d.ack = Tail(c.ack) PROVE Acks(d) \subseteq Acks(c)
  <2>1. Len(d.ack) = Len(c.ack) - 1 /\ \A k \in 1..Len(d.ack) : d.ack[k] = c.ack[k + 1]
    BY <1>2, HeadTailProperties
  <2>2. \A k \in 1..Len(d.ack) : k + 1 \in 1..Len(c.ack) BY <1>1, <2>1
  <2>. QED BY <2>1, <2>2 DEF Acks
<1>3. ASSUME c.ack # <<>> PROVE Head(c.ack) \in Acks(c)
  <2>1. Len(c.ack) # 0 BY <1>3, EmptySeq
  <2>2. Head(c.ack) = c.ack[1] BY <1>3, <2>1
  <2>3. 1 \in 1..Len(c.ack) BY <1>1, <2>1
  <2>. QED BY <2>2, <2>3 DEF Acks
<1>4. d.ack = <<>> => Acks(d) = {} BY DEF Acks
<1>5. ASSUME NEW x \in S, d.ack = Append(c.ack, x) PROVE Acks(d) = Acks(c) \cup {x}
  <2>1. /\ Len(d.ack) = Len(c.ack) + 1 /\ \A k \in 1..Len(c.ack) : d.ack[k] = c.ack[k]
        /\ d.ack[Len(c.ack) + 1] = x
    BY <1>5, AppendProperties
  <2>2. PICK I, J, q : I = 1..Len(c.ack) /\ J = 1..Len(d.ack) /\ q = Len(c.ack) + 1 OBVIOUS
  <2>3. J = I \cup {q} BY <1>1, <2>1, <2>2
  <2>4. Acks(c) = {c.ack[k] : k \in I} /\ Acks(d) = {d.ack[k] : k \in J} BY <2>2, Zenon DEF Acks
  <2>5. d.ack[q] = x /\ \A k \in I : d.ack[k] = c.ack[k] BY <2>1, <2>2
  <2>. QED BY <2>3, <2>4, <2>5
<1>. QED BY <1>2, <1>3, <1>4, <1>5 DEF Acks

\* A handler only reads acks;
LEMMA TouchedAcks ==
  ASSUME Typing, NEW i \in 1..Len(conns), NEW l, NEW q, NEW a, Touched(i, l, q, a),
         a = conns[i].ack \/ (conns[i].ack # <<>> /\ a = Tail(conns[i].ack))
  PROVE  NoNewAcks
<1>1. conns'[i].ack = a /\ conns'[i].to = conns[i].to /\ Len(conns') = Len(conns)
      /\ \A j \in 1..Len(conns) : j # i => conns'[j] = conns[j]
  BY DEF Touched
<1>2. Acks(conns'[i]) \subseteq Acks(conns[i]) BY <1>1, ConnTypes, AckParts
<1>. QED BY <1>1, <1>2 DEF NoNewAcks

\* a dial or a death writes none.
LEMMA OtherAcks ==
  ASSUME Typing, \/ conns' = conns
                 \/ \E a \in Targets, d \in BOOLEAN : Connect(a, d)
                 \/ \E a \in Targets : TargetDies(a)
  PROVE  NoNewAcks
<1>1. CASE conns' = conns BY <1>1 DEF NoNewAcks
<1>2. ASSUME NEW a \in Targets, NEW d \in BOOLEAN, Connect(a, d) PROVE NoNewAcks
  <2>1. /\ Len(conns') = Len(conns) + 1 /\ Len(conns) \in Nat
        /\ \A i \in 1..Len(conns) : conns'[i] = conns[i]
        /\ conns'[Len(conns) + 1] = NewConn(a)
    BY <1>2, ConnectFacts
  <2>2. Acks(NewConn(a)) = {} BY NewConnFacts DEF Acks
  <2>3. \A i \in 1..Len(conns') : i \in 1..Len(conns) \/ i = Len(conns) + 1 BY <2>1
  <2>. QED BY <2>1, <2>2, <2>3 DEF NoNewAcks
<1>3. ASSUME NEW a \in Targets, TargetDies(a) PROVE NoNewAcks
  <2>1. /\ Len(conns') = Len(conns)
        /\ \A j \in 1..Len(conns) : conns[j].to # a => conns'[j] = conns[j]
        /\ \A j \in 1..Len(conns) :
              conns[j].to = a => conns'[j].to = a /\ conns'[j].ack \in {conns[j].ack, <<>>}
    BY <1>3, DiesStep
  <2>2. \A j \in 1..Len(conns) : conns'[j].ack = conns[j].ack => Acks(conns'[j]) = Acks(conns[j])
    BY DEF Acks
  <2>3. \A j \in 1..Len(conns) : conns'[j].ack = <<>> => Acks(conns'[j]) = {} BY DEF Acks
  <2>. QED BY <2>1, <2>2, <2>3 DEF NoNewAcks
<1>. QED BY <1>1, <1>2, <1>3

\* Steps that leave what is at the head of a connection where it is.
Steady ==
  \A i \in 1..Len(conns) :
    /\ i \in 1..Len(conns') /\ conns'[i].to = conns[i].to
    /\ conns[i].req # <<>> => conns'[i].req # <<>> /\ Head(conns'[i].req) = Head(conns[i].req)

\* What is sent queues up behind it;
LEMMA TouchedSteady ==
  ASSUME Typing, NEW i \in 1..Len(conns), NEW l, NEW q, NEW a, Touched(i, l, q, a),
         q = conns[i].req \/ \E x \in Tags : q = Append(conns[i].req, x)
  PROVE  Steady
<1>1. /\ conns'[i].req = q /\ conns'[i].to = conns[i].to /\ Len(conns') = Len(conns)
      /\ \A j \in 1..Len(conns) : j # i => conns'[j] = conns[j]
  BY DEF Touched
<1>. DEFINE r == conns[i].req
<1>2. r \in Seq(Tags) BY ConnTypes
<1>3. r # <<>> => q # <<>> /\ Head(q) = Head(r)
  <2>. SUFFICES ASSUME r # <<>>, NEW x \in Tags, q = Append(r, x) PROVE q # <<>> /\ Head(q) = Head(r)
    OBVIOUS
  <2>. HIDE DEF r
  <2>1. Len(r) \in Nat /\ Len(r) # 0 BY <1>2, EmptySeq, LenProperties
  <2>2. q \in Seq(Tags) /\ Len(q) = Len(r) + 1 /\ q[1] = r[1] BY <1>2, <2>1, AppendProperties
  <2>3. q # <<>> BY <2>1, <2>2
  <2>4. Head(q) = q[1] /\ Head(r) = r[1] BY <1>2, <2>2, <2>3, HeadTailProperties
  <2>. QED BY <2>2, <2>3, <2>4
<1>. QED BY <1>1, <1>3 DEF Steady

\* a dial touches no other connection.
LEMMA OtherSteady ==
  ASSUME Typing, conns' = conns \/ \E a \in Targets, d \in BOOLEAN : Connect(a, d)
  PROVE  Steady
<1>1. CASE conns' = conns BY <1>1 DEF Steady
<1>2. ASSUME NEW a \in Targets, NEW d \in BOOLEAN, Connect(a, d) PROVE Steady
  <2>1. /\ Len(conns') = Len(conns) + 1 /\ Len(conns) \in Nat
        /\ \A i \in 1..Len(conns) : conns'[i] = conns[i]
    BY <1>2, ConnectFacts
  <2>2. \A i \in 1..Len(conns) : i \in 1..Len(conns') BY <2>1
  <2>. QED BY <2>1, <2>2 DEF Steady
<1>. QED BY <1>1, <1>2

\* A step of the handlers.
LEMMA HandlerAcks ==
  ASSUME Base, NEW h \in Handlers, EmitStep(h) \/ EOFStep(h)
  PROVE  /\ NoNewAcks /\ Steady /\ UNCHANGED <<known, busy, applied, up, deaths>>
         /\ \/ delivered' = delivered
            \/ /\ delivered' = delivered \cup {<<hnd[h].t, hnd[h].to>>}
               /\ \E i \in 1..Len(conns) :
                    conns[i].to = hnd[h].to /\ hnd[h].t \in Tuples /\ hnd[h].t \in Acks(conns[i])
<1>. USE DEF Base
<1>1. CASE Route(h) \/ Lookup(h) \/ EOFStep(h)
  <2>1. conns' = conns /\ UNCHANGED <<known, busy, applied, up, deaths, delivered>>
    BY <1>1 DEF Route, Lookup, EOFStep, CheckFlushed, StartFlush, EndFlush, CountEOF
  <2>. QED BY <2>1, OtherAcks, OtherSteady
<1>2. CASE Dial(h)
  <2>1. UNCHANGED <<known, busy, applied, up, deaths, delivered>> BY <1>2 DEF Dial
  <2>2. hnd[h].to \in Targets /\ (Connect(hnd[h].to, TRUE) \/ conns' = conns) BY <1>2, DialStep
  <2>. QED BY <2>1, <2>2, OtherAcks, OtherSteady
<1>3. CASE Encode(h)
  <2>. DEFINE i == hnd[h].conn.conn
              c == conns[i]
  <2>1. UNCHANGED <<known, busy, applied, up, deaths, delivered>> BY <1>3 DEF Encode
  <2>2. /\ i \in 1..Len(conns)
        /\ \/ Touched(i, h, Append(c.req, hnd[h].t), c.ack)
           \/ Touched(i, h, c.req, c.ack)
           \/ Touched(i, 0, c.req, c.ack)
    BY <1>3, EncodeStep
  <2>3. NoNewAcks BY <2>2, TouchedAcks
  <2>4. hnd[h].t \in Tags BY HandlerTypes
  <2>5. Steady BY <2>2, <2>4, TouchedSteady
  <2>. QED BY <2>1, <2>3, <2>5
<1>4. CASE Decode(h)
  <2>. DEFINE i == hnd[h].conn.conn
              c == conns[i]
  <2>1. UNCHANGED <<known, busy, applied, up, deaths>> BY <1>4 DEF Decode
  <2>2. i \in 1..Len(conns) /\ c.to = hnd[h].to /\ hnd[h].t \in Tuples BY <1>4, DecodeStep
  <2>3. \/ conns' = conns
        \/ c.ack # <<>> /\ Touched(i, 0, c.req, Tail(c.ack))
        \/ c.ack # <<>> /\ Touched(i, h, c.req, Tail(c.ack))
        \/ Touched(i, h, c.req, c.ack)
        \/ Touched(i, 0, c.req, c.ack)
    BY <1>4, DecodeStep
  <2>4. NoNewAcks BY <2>2, <2>3, TouchedAcks, OtherAcks
  <2>7. Steady BY <2>2, <2>3, TouchedSteady, OtherSteady
  <2>5. CASE delivered' = delivered BY <2>1, <2>4, <2>5, <2>7
  <2>6. CASE delivered' # delivered
    <3>1. c.ack # <<>> /\ Head(c.ack) = hnd[h].t
          /\ delivered' = delivered \cup {<<hnd[h].t, hnd[h].to>>}
      BY <1>4, <2>6, DecodeStep
    <3>3. c.ack \in Seq(Tags) BY <2>2, ConnTypes
    <3>2. Head(c.ack) \in Acks(c)
      <4>. HIDE DEF c
      <4>. QED BY <3>1, <3>3, AckParts
    <3>. QED BY <2>1, <2>2, <2>4, <2>7, <3>1, <3>2
  <2>. QED BY <2>5, <2>6
<1>. QED BY <1>1, <1>2, <1>3, <1>4 DEF EmitStep

\* Every other step but the targets' own.
LEMMA OtherStepsAcks ==
  ASSUME Base, BroadcastStep \/ EOFTimeout \/ Exit \/ (\E list \in Updates : RoutingUpdate(list))
               \/ (\E a \in Targets : RoutingDial(a)) \/ UNCHANGED vars
  PROVE  NoNewAcks /\ Steady /\ UNCHANGED <<known, busy, applied, up, deaths, delivered>>
<1>. USE DEF Base
<1>1. CASE BroadcastLookup
  <2>1. Head(eof.left) \in Targets /\ (conns' = conns \/ Connect(Head(eof.left), FALSE))
    BY <1>1, BroadcastLookupStep
  <2>2. UNCHANGED <<known, busy, applied, up, deaths, delivered>> BY <1>1 DEF BroadcastLookup
  <2>. QED BY <2>1, <2>2, OtherAcks, OtherSteady
<1>2. CASE BroadcastSend
  <2>. DEFINE i == eof.conn
  <2>1. /\ i \in 1..Len(conns)
        /\ Touched(i, 0, Append(conns[i].req, EOF), conns[i].ack) \/ conns' = conns
    BY <1>2, BroadcastSendStep
  <2>2. UNCHANGED <<known, busy, applied, up, deaths, delivered>> BY <1>2 DEF BroadcastSend
  <2>3. NoNewAcks BY <2>1, OtherAcks, TouchedAcks
  <2>4. EOF \in Tags BY DEF Tags
  <2>5. Steady BY <2>1, <2>4, OtherSteady, TouchedSteady
  <2>. QED BY <2>2, <2>3, <2>5
<1>3. CASE BroadcastEnd \/ EOFTimeout \/ Exit \/ (\E list \in Updates : RoutingUpdate(list)) \/ UNCHANGED vars
  <2>1. UNCHANGED <<conns, known, busy, applied, up, deaths, delivered>>
    BY <1>3 DEF BroadcastEnd, EOFTimeout, Exit, RoutingUpdate, vars
  <2>. QED BY <2>1, OtherAcks, OtherSteady
<1>4. ASSUME NEW a \in Targets, RoutingDial(a)
      PROVE  NoNewAcks /\ Steady /\ UNCHANGED <<known, busy, applied, up, deaths, delivered>>
  <2>1. (conns' = conns \/ Connect(a, TRUE)) /\ UNCHANGED <<known, busy, applied, up, deaths, delivered>>
    BY <1>4 DEF RoutingDial
  <2>. QED BY <2>1, OtherAcks, OtherSteady
<1>. QED BY <1>1, <1>2, <1>3, <1>4 DEF BroadcastStep

\* Without new acks those on the connections still stand for processed tuples.
LEMMA AckedKept ==
  ASSUME Acked, NoNewAcks, applied' = applied PROVE Acked'
BY DEF Acked, NoNewAcks

\* What the targets have in hand stays there,
LEMMA HandsKept ==
  ASSUME Marked, Steady, busy' = busy
  PROVE  \A a \in Targets, t \in Tuples : InHand(a, t)' <=> InHand(a, t)
<1>1. \A i \in busy : conns'[i].to = conns[i].to /\ Head(conns'[i].req) = Head(conns[i].req)
  BY DEF Marked, Steady
<1>. QED BY <1>1 DEF InHand

\* and counts as processed.
LEMMA MarkedKept ==
  ASSUME Marked, Steady, busy' = busy, applied' = applied PROVE Marked'
BY DEF Marked, Steady

\* Steps in which no target does anything.
LEMMA TargetsRest ==
  ASSUME Service, NoNewAcks, Steady, UNCHANGED <<known, busy, applied, up, deaths>>
  PROVE  Acked' /\ Marked' /\ KnownProcessed' /\ Unbroken'
<1>1. Acked' BY AckedKept DEF Service
<1>2. Marked' BY MarkedKept DEF Service
<1>3. KnownProcessed' BY DEF Service, KnownProcessed
<1>4. \A a \in Targets, t \in Tuples : InHand(a, t)' <=> InHand(a, t) BY HandsKept DEF Service
<1>5. Unbroken' BY <1>4 DEF Service, Unbroken
<1>. QED BY <1>1, <1>2, <1>3, <1>5

\* No ack waits when the task starts.
LEMMA InitService == Init => Service
<1>. SUFFICES ASSUME Init PROVE Service
  OBVIOUS
<1>1. /\ delivered = {} /\ deaths = {} /\ up = [a \in Targets |-> TRUE] /\ known = [a \in Targets |-> {}] /\ busy = {}
      /\ applied = [a \in Targets |-> [t \in Tuples |-> 0]]
      /\ conns = [i \in 1..Len(FirstList) |-> NewConn(FirstList[i])]
  BY DEF Init
<1>2. \A i \in 1..Len(conns) : Acks(conns[i]) = {}
  <2>1. Base BY InitBase
  <2>2. DOMAIN conns = 1..Len(conns) BY <2>1, LenProperties DEF Base, Typing
  <2>3. DOMAIN conns = 1..Len(FirstList) BY <1>1
  <2>4. \A i \in 1..Len(conns) : conns[i].ack = <<>> BY <1>1, <2>2, <2>3 DEF NewConn
  <2>. QED BY <2>4 DEF Acks
<1>3. Acked BY <1>2 DEF Acked
<1>. QED BY <1>1, <1>3 DEF Service, Marked, InHand, KnownProcessed, Unbroken, DeliveredIsProcessed

\* The duplicate check lets a tuple pass once: it is on no other connection.
LEMMA AcceptService ==
  ASSUME Base, Lane, Service, NEW i \in 1..Len(conns), Accept(i) PROVE Service'
<1>. DEFINE c == conns[i]
            a == c.to
            t == Head(c.req)
<1>1. UNCHANGED <<up, delivered, deaths, conns, known>> BY DEF Accept
<1>2. /\ c.req # <<>> /\ t \in Tuples /\ t \notin known[a] /\ i \notin busy /\ a \in Targets
      /\ busy' = busy \cup {i} /\ applied' = [applied EXCEPT ![a][t] = @ + 1]
  BY AcceptStep, ConnTypes DEF Base
<1>3. known \in [Targets -> SUBSET Tags] /\ applied \in [Targets -> [Tuples -> Nat]]
  BY DEF Base, Typing
<1>4. ASSUME NEW j \in busy, conns[j].to = a, Head(conns[j].req) = t PROVE FALSE
  <2>1. j \in 1..Len(conns) /\ conns[j].req # <<>> BY DEF Service, Marked
  <2>2. conns[j].req \in Seq(Tags) /\ c.req \in Seq(Tags) BY <2>1, ConnTypes DEF Base
  <2>. DEFINE d == conns[j]
  <2>3. t \in Reqs(c) /\ t \in Reqs(d)
    <3>1. d.req # <<>> /\ Head(d.req) = t /\ d.req \in Seq(Tags) BY <1>4, <2>1, <2>2
    <3>. HIDE DEF d
    <3>2. Head(d.req) \in Reqs(d) BY <1>2, <3>1, ReqParts
    <3>3. c.req # <<>> /\ Head(c.req) \in Tuples /\ c.req \in Seq(Tags) BY <1>2, <2>2
    <3>. HIDE DEF c
    <3>4. Head(c.req) \in Reqs(c) BY <3>3, ReqParts
    <3>. QED BY <3>1, <3>2, <3>4
  <2>. QED BY <1>2, <2>1, <2>3 DEF Lane, Single
<1>5. ~InHand(a, t) BY <1>4 DEF InHand
<1>6. \A b \in Targets, u \in Tuples : InHand(b, u)' <=> InHand(b, u) \/ (b = a /\ u = t)
  BY <1>1, <1>2 DEF InHand
<1>. HIDE DEF a, t, c
<1>7. applied[a][t] \in Nat /\ applied'[a][t] = applied[a][t] + 1 BY <1>2, <1>3
<1>8. \A b \in Targets, u \in Tuples : <<b, u>> # <<a, t>> => applied'[b][u] = applied[b][u]
  BY <1>2, <1>3
<1>9. ASSUME NEW b \in Targets, NEW u \in Tuples, applied[b][u] > 0 PROVE applied'[b][u] > 0
  <2>1. CASE b = a /\ u = t BY <1>7, <2>1
  <2>2. CASE <<b, u>> # <<a, t>> BY <1>8, <1>9, <2>2
  <2>. QED BY <2>1, <2>2
<1>10. Acked'
  <2>0. \A j \in 1..Len(conns) : Acks(conns'[j]) = Acks(conns[j]) BY <1>1
  <2>. SUFFICES ASSUME NEW j \in 1..Len(conns), NEW x \in Acks(conns[j]), x # EOF
                PROVE  applied'[conns[j].to][x] > 0
    BY <1>1, <2>0 DEF Acked
  <2>1. applied[conns[j].to][x] > 0 BY DEF Service, Acked
  <2>2. x \in Tuples
    <3>1. conns[j].ack \in Seq(Tags) BY ConnTypes DEF Base
    <3>2. x \in Tags BY <3>1, ElementOfSeq DEF Acks
    <3>. QED BY <3>2 DEF Tags
  <2>3. conns[j].to \in Targets BY ConnTypes DEF Base
  <2>. QED BY <1>9, <2>1, <2>2, <2>3
<1>11. Marked'
  <2>1. busy' \subseteq 1..Len(conns') BY <1>1, <1>2 DEF Service, Marked
  <2>2. ASSUME NEW j \in busy'
        PROVE  /\ conns[j].req # <<>> /\ Head(conns[j].req) \in Tuples
               /\ applied'[conns[j].to][Head(conns[j].req)] > 0
    <3>1. CASE j = i BY <1>2, <1>7, <3>1 DEF a, t, c
    <3>2. CASE j \in busy
      <4>1. /\ j \in 1..Len(conns) /\ conns[j].req # <<>> /\ Head(conns[j].req) \in Tuples
            /\ applied[conns[j].to][Head(conns[j].req)] > 0
        BY <3>2 DEF Service, Marked
      <4>2. conns[j].to \in Targets BY <4>1, ConnTypes DEF Base
      <4>. QED BY <1>9, <4>1, <4>2
    <3>. QED BY <1>2, <3>1, <3>2
  <2>. QED BY <1>1, <2>1, <2>2 DEF Marked
<1>12. KnownProcessed' BY <1>1, <1>9 DEF Service, KnownProcessed
<1>13. Unbroken'
  <2>. SUFFICES ASSUME NEW b \in Targets \ deaths
                PROVE  up[b] /\ \A u \in Tuples :
                         applied'[b][u] = IF u \in known[b] \/ InHand(b, u)' THEN 1 ELSE 0
    BY <1>1 DEF Unbroken
  <2>1. up[b] /\ \A u \in Tuples : applied[b][u] = IF u \in known[b] \/ InHand(b, u) THEN 1 ELSE 0
    BY DEF Service, Unbroken
  <2>2. ASSUME NEW u \in Tuples
        PROVE  applied'[b][u] = IF u \in known[b] \/ InHand(b, u)' THEN 1 ELSE 0
    <3>1. CASE b = a /\ u = t
      <4>1. applied[a][t] = 0 BY <1>2, <1>5, <2>1, <3>1
      <4>2. InHand(b, u)' BY <1>6, <3>1
      <4>. QED BY <1>7, <3>1, <4>1, <4>2
    <3>2. CASE <<b, u>> # <<a, t>>
      <4>1. InHand(b, u)' <=> InHand(b, u) BY <1>6, <3>2
      <4>2. applied'[b][u] = applied[b][u] BY <1>8, <3>2
      <4>3. applied[b][u] = IF u \in known[b] \/ InHand(b, u) THEN 1 ELSE 0 BY <2>1
      <4>. QED BY <4>1, <4>2, <4>3
    <3>. QED BY <3>1, <3>2
  <2>. QED BY <2>1, <2>2
<1>14. DeliveredIsProcessed'
  <2>1. delivered \subseteq Tuples \X Targets BY DEF Base, Typing
  <2>. QED BY <1>1, <1>9, <2>1 DEF Service, DeliveredIsProcessed
<1>. QED BY <1>10, <1>11, <1>12, <1>13, <1>14 DEF Service

\* What it has in hand the target will reject from now on.
LEMMA ServeService ==
  ASSUME Base, Service, NEW i \in 1..Len(conns), Serve(i) PROVE Service'
<1>. DEFINE c == conns[i]
            a == c.to
            t == Head(c.req)
<1>1. UNCHANGED <<up, delivered, deaths, applied>> /\ busy' = busy \ {i} BY DEF Serve
<1>2. a \in Targets /\ c.ack \in Seq(Tags) /\ t \in Tags /\ c.req # <<>>
  BY ConnTypes, ServeStep DEF Base
<1>3. known \in [Targets -> SUBSET Tags] BY DEF Base, Typing
<1>4. /\ Len(conns') = Len(conns) /\ conns'[i].to = conns[i].to
      /\ \A j \in 1..Len(conns) : j # i => conns'[j] = conns[j]
      /\ conns'[i].ack = Append(c.ack, t) \/ conns'[i].ack = c.ack
  <2>1. \/ Touched(i, c.lock, Tail(c.req), Append(c.ack, t))
        \/ Touched(i, c.lock, Tail(c.req), c.ack)
    BY ServeStep DEF Base
  <2>. QED BY <2>1 DEF Touched
<1>5. \A j \in 1..Len(conns') :
        /\ j \in 1..Len(conns) /\ conns'[j].to = conns[j].to
        /\ Acks(conns'[j]) \subseteq Acks(conns[j]) \cup (IF j = i THEN {t} ELSE {})
  <2>1. Acks(conns'[i]) \subseteq Acks(c) \cup {t}
    <3>. DEFINE d == conns'[i]
    <3>1. d.ack = Append(c.ack, t) \/ d.ack = c.ack BY <1>4
    <3>5. c.ack \in Seq(Tags) /\ t \in Tags BY <1>2
    <3>. HIDE DEF c, d, t
    <3>2. d.ack = Append(c.ack, t) => Acks(d) = Acks(c) \cup {t} BY <3>5, AckParts
    <3>3. d.ack = c.ack => Acks(d) = Acks(c) BY DEF Acks
    <3>4. Acks(d) \subseteq Acks(c) \cup {t} BY <3>1, <3>2, <3>3
    <3>. QED BY <3>4 DEF d
  <2>. QED BY <1>4, <2>1
<1>6. \/ i \in busy /\ known' = [known EXCEPT ![a] = @ \cup {t}]
      \/ i \notin busy /\ (t = EOF \/ t \in known[a]) /\ known' = known
  BY ServeStep DEF Base
<1>7. t = EOF \/ (t \in Tuples /\ applied[a][t] > 0)
  <2>1. CASE i \in busy BY <2>1 DEF Service, Marked
  <2>2. CASE i \notin busy BY <1>2, <1>6, <2>2 DEF Service, KnownProcessed
  <2>. QED BY <2>1, <2>2
<1>8. Acked'
  <2>. SUFFICES ASSUME NEW j \in 1..Len(conns'), NEW x \in Acks(conns'[j]), x # EOF
                PROVE  applied[conns'[j].to][x] > 0
    BY <1>1 DEF Acked
  <2>1. j \in 1..Len(conns) /\ conns'[j].to = conns[j].to BY <1>5
  <2>2. CASE x \in Acks(conns[j]) BY <2>1, <2>2 DEF Service, Acked
  <2>3. CASE x \notin Acks(conns[j])
    <3>1. j = i /\ x = t BY <1>5, <2>3
    <3>. QED BY <1>7, <2>1, <3>1
  <2>. QED BY <2>2, <2>3
<1>9. Marked'
  <2>1. \A j \in busy' : j \in busy /\ j \in 1..Len(conns) /\ conns'[j] = conns[j]
    BY <1>1, <1>4 DEF Service, Marked
  <2>. QED BY <1>1, <1>4, <2>1 DEF Service, Marked
<1>10. \A b \in Targets : known'[b] = IF i \in busy /\ b = a THEN known[b] \cup {t} ELSE known[b]
  BY <1>2, <1>3, <1>6
<1>11. i \in busy => t \in Tuples BY DEF Service, Marked
<1>12. KnownProcessed'
  <2>. SUFFICES ASSUME NEW b \in Targets, NEW u \in known'[b] PROVE u \in Tuples /\ applied[b][u] > 0
    BY <1>1 DEF KnownProcessed
  <2>1. CASE u \in known[b] BY <2>1 DEF Service, KnownProcessed
  <2>2. CASE u \notin known[b]
    <3>1. i \in busy /\ b = a /\ u = t BY <1>10, <2>2
    <3>2. t \in Tuples BY <1>11, <3>1
    <3>3. applied[a][t] > 0 BY <1>7, <3>2, TuplesAreNotEOF
    <3>. QED BY <3>1, <3>2, <3>3
  <2>. QED BY <2>1, <2>2
<1>13. \A b \in Targets, u \in Tuples :
         InHand(b, u) <=> InHand(b, u)' \/ (i \in busy /\ b = a /\ u = t)
  <2>1. busy \subseteq 1..Len(conns) BY DEF Service, Marked
  <2>2. \A j \in busy' : j \in busy /\ conns'[j] = conns[j] BY <1>1, <1>4, <2>1
  <2>. QED BY <1>1, <2>2 DEF InHand
<1>14. Unbroken'
  <2>. SUFFICES ASSUME NEW b \in Targets \ deaths
                PROVE  up[b] /\ \A u \in Tuples :
                         applied[b][u] = IF u \in known'[b] \/ InHand(b, u)' THEN 1 ELSE 0
    BY <1>1 DEF Unbroken
  <2>1. up[b] /\ \A u \in Tuples : applied[b][u] = IF u \in known[b] \/ InHand(b, u) THEN 1 ELSE 0
    BY DEF Service, Unbroken
  <2>2. ASSUME NEW u \in Tuples
        PROVE  u \in known'[b] \/ InHand(b, u)' <=> u \in known[b] \/ InHand(b, u)
    <3>1. InHand(b, u) <=> InHand(b, u)' \/ (i \in busy /\ b = a /\ u = t) BY <1>13
    <3>2. u \in known'[b] <=> u \in known[b] \/ (i \in busy /\ b = a /\ u = t) BY <1>10
    <3>. QED BY <3>1, <3>2
  <2>. QED BY <2>1, <2>2
<1>. QED BY <1>1, <1>8, <1>9, <1>12, <1>14 DEF Service, DeliveredIsProcessed

\* Every step keeps the invariant about the targets.
LEMMA StepService == Base /\ Lane /\ Service /\ [Next]_vars => Service'
<1>. SUFFICES ASSUME Base, Lane, Service, [Next]_vars PROVE Service'
  OBVIOUS
<1>1. ASSUME NEW h \in Handlers, EmitStep(h) \/ EOFStep(h) PROVE Service'
  <2>1. /\ NoNewAcks /\ Steady /\ UNCHANGED <<known, busy, applied, up, deaths>>
        /\ \/ delivered' = delivered
           \/ /\ delivered' = delivered \cup {<<hnd[h].t, hnd[h].to>>}
              /\ \E i \in 1..Len(conns) :
                    conns[i].to = hnd[h].to /\ hnd[h].t \in Tuples /\ hnd[h].t \in Acks(conns[i])
    BY <1>1, HandlerAcks
  <2>2. Acked' /\ Marked' /\ KnownProcessed' /\ Unbroken' BY <2>1, TargetsRest
  <2>3. DeliveredIsProcessed'
    <3>1. CASE delivered' = delivered BY <2>1, <3>1 DEF Service, DeliveredIsProcessed
    <3>2. CASE delivered' # delivered
      <4>1. PICK i \in 1..Len(conns) :
                    conns[i].to = hnd[h].to /\ hnd[h].t \in Tuples /\ hnd[h].t \in Acks(conns[i])
        BY <2>1, <3>2
      <4>2. hnd[h].t # EOF BY <4>1, TuplesAreNotEOF
      <4>3. applied[hnd[h].to][hnd[h].t] > 0 BY <4>1, <4>2 DEF Service, Acked
      <4>4. delivered' = delivered \cup {<<hnd[h].t, hnd[h].to>>} BY <2>1, <3>2
      <4>. QED BY <2>1, <4>3, <4>4 DEF Service, DeliveredIsProcessed
    <3>. QED BY <3>1, <3>2
  <2>. QED BY <2>2, <2>3 DEF Service
<1>2. CASE BroadcastStep \/ EOFTimeout \/ Exit \/ (\E list \in Updates : RoutingUpdate(list))
           \/ (\E a \in Targets : RoutingDial(a)) \/ UNCHANGED vars
  <2>1. NoNewAcks /\ Steady /\ UNCHANGED <<known, busy, applied, up, deaths, delivered>>
    BY <1>2, OtherStepsAcks
  <2>2. Acked' /\ Marked' /\ KnownProcessed' /\ Unbroken' BY <2>1, TargetsRest
  <2>. QED BY <2>1, <2>2 DEF Service, DeliveredIsProcessed
<1>3. ASSUME NEW a \in Targets, TargetDies(a) PROVE Service'
  <2>1. NoNewAcks BY <1>3, OtherAcks DEF Base
  <2>2. /\ UNCHANGED <<known, applied, delivered>> /\ deaths' = deaths \cup {a}
        /\ up' = [up EXCEPT ![a] = FALSE] /\ busy' = {i \in busy : conns[i].to # a}
    BY <1>3 DEF TargetDies
  <2>3. Acked' BY <2>1, <2>2, AckedKept DEF Service
  <2>4. /\ Len(conns') = Len(conns)
        /\ \A j \in 1..Len(conns) : conns[j].to # a => conns'[j] = conns[j]
    BY <1>3, DiesStep DEF Base
  <2>5. \A j \in busy' : j \in busy /\ j \in 1..Len(conns) /\ conns'[j] = conns[j]
    BY <2>2, <2>4 DEF Service, Marked
  <2>6. Marked' BY <2>2, <2>4, <2>5 DEF Service, Marked
  <2>7. \A b \in Targets \ {a}, u \in Tuples : InHand(b, u)' <=> InHand(b, u)
    BY <2>2, <2>5 DEF InHand
  <2>8. Unbroken'
    <3>. SUFFICES ASSUME NEW b \in Targets \ deaths, b # a
                  PROVE  up'[b] /\ \A u \in Tuples :
                           applied[b][u] = IF u \in known[b] \/ InHand(b, u)' THEN 1 ELSE 0
      BY <2>2 DEF Unbroken
    <3>1. up[b] /\ \A u \in Tuples : applied[b][u] = IF u \in known[b] \/ InHand(b, u) THEN 1 ELSE 0
      BY DEF Service, Unbroken
    <3>2. up'[b] = up[b] BY <2>2 DEF Base, Typing
    <3>. QED BY <2>7, <3>1, <3>2
  <2>. QED BY <2>2, <2>3, <2>6, <2>8 DEF Service, KnownProcessed, DeliveredIsProcessed
<1>4. ASSUME NEW a \in Targets, TargetRestarts(a) PROVE Service'
  <2>1. /\ UNCHANGED <<conns, busy, applied, delivered, deaths>> /\ ~up[a]
        /\ up' = [up EXCEPT ![a] = TRUE] /\ known' = [known EXCEPT ![a] = {}]
    BY <1>4 DEF TargetRestarts
  <2>2. a \in deaths BY <2>1 DEF Service, Unbroken
  <2>3. Acked' BY <2>1 DEF Service, Acked
  <2>4. Unbroken' BY <2>1, <2>2 DEF Service, Unbroken, InHand, Base, Typing
  <2>5. KnownProcessed' BY <2>1 DEF Service, KnownProcessed, Base, Typing
  <2>6. Marked' BY <2>1 DEF Service, Marked
  <2>. QED BY <2>1, <2>3, <2>4, <2>5, <2>6 DEF Service, DeliveredIsProcessed
<1>. QED BY <1>1, <1>2, <1>3, <1>4, AcceptService, ServeService DEF Next, TargetStep

\* It holds in every state.
LEMMA ServiceAlways == Spec => [](Base /\ Lane /\ Service)
BY InitBase, StepBase, InitLane, StepLane, InitService, StepService, PTL DEF Spec

\* The handlers, the pool, the connections and the EOF count stay within their
\* types: an attempt counter never passes maxRetries, the pool never holds a
\* connection that was not made, and no more markers are counted than there are
\* sources.
THEOREM TypeCorrect == Spec => []TypeOK
<1>1. Base /\ Service => TypeOK
  <2>. SUFFICES ASSUME Base, Service PROVE TypeOK
    OBVIOUS
  <2>1. Cardinality(Done) \in Nat /\ Cardinality(Done) <= NumSources
    <3>1. Done \in SUBSET Handlers BY DEF Done
    <3>2. IsFiniteSet(Done) /\ Cardinality(Done) <= Cardinality(Handlers) BY <3>1, EmitAssumption, FS_Subset
    <3>3. Cardinality(Done) \in Nat BY <3>2, FS_CardinalityType
    <3>. QED BY <3>2, <3>3 DEF NumSources
  <2>2. NumSources \in Nat BY EmitAssumption, FS_CardinalityType DEF NumSources
  <2>3. eof.count \in 0..NumSources BY <2>1, <2>2 DEF Base, Counted
  <2>4. eof.broadcast \in {"no", "next", "send", "done"} BY DEF Base, Typing, EOFStates
  <2>5. Len(conns) \in Nat BY LenProperties DEF Base, Typing
  <2>6. \A a \in Targets : pool[a].conn \in 0..Len(conns) BY <2>5 DEF Base, Typing, Encoders
  <2>7. known \in [Targets -> SUBSET Tuples] BY DEF Base, Typing, Service, KnownProcessed
  <2>8. busy \subseteq 1..Len(conns) BY DEF Service, Marked
  <2>. QED BY <2>3, <2>4, <2>6, <2>7, <2>8 DEF Base, Typing, TypeOK
<1>. QED BY <1>1, ServiceAlways, PTL

\* emit takes a tuple for delivered only when its target has processed it: acks left
\* over from EOF markers and from repetitions never confirm another tuple, over
\* whichever connection and for whichever handler they are read.
THEOREM Processed == Spec => []DeliveredIsProcessed
<1>1. Base /\ Service => DeliveredIsProcessed BY DEF Service
<1>. QED BY <1>1, ServiceAlways, PTL

\* A target that has not died processes a tuple at most once, however often emit
\* repeats it, although the target checks for duplicates and enters the ID in two lock
\* sections and serves its connections side by side: emit keeps to one connection.
THEOREM Once == Spec => []OncePerTarget
<1>1. Base /\ Lane /\ Service => OncePerTarget
  <2>. SUFFICES ASSUME Base, Service, NEW a \in Targets, NEW t \in Tuples, a \notin deaths
                PROVE  applied[a][t] <= 1
    BY DEF OncePerTarget
  <2>1. applied[a][t] = IF t \in known[a] \/ InHand(a, t) THEN 1 ELSE 0 BY DEF Service, Unbroken
  <2>. QED BY <2>1
<1>. QED BY <1>1, ServiceAlways, PTL

----------------------------------------------------------------------------
\* The tuples emit is done with,
Finished == {d[1] : d \in delivered \cup lost}
\* those a handler still has to emit,
Mine(h) == hnd[h].work \cup (IF hnd[h].pc = "idle" THEN {} ELSE {hnd[h].t})
\* those of all handlers together,
Pending == UNION {Mine(h) : h \in Handlers}
\* and everything a stateless operator has to emit.
AllLines == Handlers \X (1..Lines)
\* A handler with nothing to emit.
Resting(h) == hnd[h].work = {} /\ hnd[h].pc = "idle"

\* Handlers have something to emit while they stream or flush.
OnlyBusyEmit == \A h \in Handlers : hnd[h].ph \notin {"stream", "flush"} => Resting(h)

\* A stateless operator emits what arrives, and nothing is forgotten.
PassFlow ==
  /\ \A h \in Handlers : hnd[h].ph \notin {"toflush", "flush"}
  /\ Finished \cup Pending = AllLines

\* f is the handler that flushes.
Flushes(f) ==
  /\ hnd[f].ph # "stream"
  /\ \A h \in Handlers \ {f} : hnd[h].ph \notin {"toflush", "flush"}
  /\ hnd[f].ph = "toflush" => Finished = {}
  /\ hnd[f].ph # "toflush" => Finished \cup Mine(f) = Outputs(f)

\* count emits only in the flush, and one handler flushes.
CountFlow ==
  /\ \A h \in Handlers : hnd[h].ph = "stream" => Resting(h)
  /\ ~flushed => Finished = {} /\ \A h \in Handlers : hnd[h].ph = "stream"
  /\ flushed => \E f \in Handlers : Flushes(f)

\* An EOF that no timer sent waits for all handlers.
AllDone == eof.broadcast # "no" /\ ~eof.byTimer => \A h \in Handlers : hnd[h].ph = "done"

\* The invariant about the tuples.
Flow ==
  /\ OnlyBusyEmit /\ (op = "pass" => PassFlow) /\ (op = "count" => CountFlow) /\ AllDone

\* An emit step moves tuples from a handler to the finished ones and loses none.
EmitFlow(h) ==
  /\ Only(h) /\ hnd[h].ph \in {"stream", "flush"} /\ ~Resting(h)
  /\ hnd'[h].ph = hnd[h].ph
  /\ Finished' \cup Mine(h)' = Finished \cup Mine(h)
  /\ UNCHANGED <<op, flushed, eof>>

\* A tuple is finished with an ack or with a drop.
LEMMA FinishedGrows ==
  ASSUME NEW x, delivered' \cup lost' = (delivered \cup lost) \cup {x}
  PROVE  Finished' = Finished \cup {x[1]}
BY DEF Finished

\* A handler that drops its tuple, or has the ack of it.
LEMMA QuitFlow ==
  ASSUME Base, OnlyBusyEmit, NEW h \in Handlers, Only(h), Quit(h), hnd[h].pc # "idle",
         delivered' \cup lost' = (delivered \cup lost) \cup {<<hnd[h].t, hnd[h].to>>},
         UNCHANGED <<op, flushed, eof>>
  PROVE  EmitFlow(h)
<1>1. hnd[h].ph \in {"stream", "flush"} /\ ~Resting(h) BY DEF OnlyBusyEmit, Resting
<1>2. hnd'[h].ph = hnd[h].ph /\ hnd'[h].pc = "idle" /\ hnd'[h].work = hnd[h].work
  BY QuitBase DEF Base
<1>3. Mine(h)' = hnd[h].work /\ Mine(h) = hnd[h].work \cup {hnd[h].t} BY <1>2 DEF Mine
<1>4. Finished' = Finished \cup {hnd[h].t}
  <2>. DEFINE x == <<hnd[h].t, hnd[h].to>>
  <2>1. x[1] = hnd[h].t OBVIOUS
  <2>. HIDE DEF x
  <2>2. Finished' = Finished \cup {x[1]} BY FinishedGrows DEF x
  <2>. QED BY <2>1, <2>2
<1>. QED BY <1>1, <1>2, <1>3, <1>4 DEF EmitFlow

\* A handler that goes on with its tuple.
LEMMA StayFlow ==
  ASSUME Base, OnlyBusyEmit, NEW h \in Handlers, Only(h), hnd[h].pc # "idle", hnd'[h].pc # "idle",
         hnd'[h].t = hnd[h].t, hnd'[h].work = hnd[h].work, hnd'[h].ph = hnd[h].ph,
         UNCHANGED <<op, flushed, eof, delivered, lost>>
  PROVE  EmitFlow(h)
<1>1. hnd[h].ph \in {"stream", "flush"} /\ ~Resting(h) BY DEF OnlyBusyEmit, Resting
<1>2. Mine(h)' = Mine(h) BY DEF Mine
<1>3. Finished' = Finished BY DEF Finished
<1>. QED BY <1>1, <1>2, <1>3 DEF EmitFlow

\* Every step of emit is of this kind or changes nothing of it.
LEMMA EmitFlows ==
  ASSUME Base, OnlyBusyEmit, NEW h \in Handlers, EmitStep(h)
  PROVE  EmitFlow(h) \/ (UNCHANGED <<hnd, op, flushed, eof, delivered, lost>>)
<1>. USE DEF Base
<1>1. CASE Route(h)
  <2>1. UNCHANGED <<op, flushed, eof, delivered, lost>> BY <1>1 DEF Route
  <2>2. Only(h) /\ hnd[h].ph \in {"stream", "flush"} /\ hnd[h].pc = "idle" BY <1>1, RouteStep
  <2>3. PICK t \in hnd[h].work, a \in Targets :
        hnd'[h] = [hnd[h] EXCEPT !.work = @ \ {t}, !.pc = "lookup", !.t = t, !.try = 1, !.to = a]
    BY <1>1, RouteStep
  <2>4. hnd'[h].ph = hnd[h].ph /\ hnd'[h].pc = "lookup" /\ hnd'[h].t = t /\ hnd'[h].work = hnd[h].work \ {t}
    BY <2>3, HandlerTypes DEF HandlerStates
  <2>5. Mine(h)' = Mine(h) BY <2>2, <2>3, <2>4 DEF Mine
  <2>6. Finished' = Finished BY <2>1 DEF Finished
  <2>7. ~Resting(h) BY <2>3 DEF Resting
  <2>. QED BY <2>1, <2>2, <2>4, <2>5, <2>6, <2>7 DEF EmitFlow
<1>2. CASE Lookup(h)
  <2>1. UNCHANGED <<op, flushed, eof, delivered, lost>> /\ hnd[h].pc = "lookup" BY <1>2 DEF Lookup
  <2>. DEFINE c == pool[hnd[h].to]
              p == IF c.conn = 0 THEN "dial" ELSE "send"
  <2>2. Only(h) /\ hnd'[h] = [hnd[h] EXCEPT !.conn = c, !.pc = p] BY <1>2, LookupStep
  <2>3. p # "idle" OBVIOUS
  <2>. HIDE DEF c, p
  <2>4. /\ hnd'[h].ph = hnd[h].ph /\ hnd'[h].pc = p /\ hnd'[h].t = hnd[h].t /\ hnd'[h].work = hnd[h].work
    BY <2>2, HandlerTypes DEF HandlerStates
  <2>. QED BY <2>1, <2>2, <2>3, <2>4, StayFlow
<1>3. CASE Dial(h)
  <2>1. UNCHANGED <<op, flushed, eof, delivered>> /\ hnd[h].pc = "dial" /\ Only(h) BY <1>3, DialStep DEF Dial
  <2>2. CASE lost' = lost /\ hnd'[h] = [hnd[h] EXCEPT !.conn = pool'[hnd[h].to], !.pc = "send"]
    <3>1. hnd'[h].ph = hnd[h].ph /\ hnd'[h].pc = "send" /\ hnd'[h].t = hnd[h].t /\ hnd'[h].work = hnd[h].work
      BY <2>2, HandlerTypes DEF HandlerStates
    <3>. QED BY <2>1, <2>2, <3>1, StayFlow
  <2>3. CASE Quit(h) /\ lost' = lost \cup {<<hnd[h].t, hnd[h].to>>}
    <3>1. delivered' \cup lost' = (delivered \cup lost) \cup {<<hnd[h].t, hnd[h].to>>} BY <2>1, <2>3
    <3>. QED BY <2>1, <2>3, <3>1, QuitFlow
  <2>. QED BY <1>3, <2>2, <2>3, DialStep
<1>4. ASSUME Only(h), Again(h), hnd[h].pc # "idle", UNCHANGED <<op, flushed, eof, delivered>> PROVE EmitFlow(h)
  BY <1>4, AgainFacts, StayFlow DEF Again
<1>5. ASSUME Only(h), Over(h), hnd[h].pc # "idle", UNCHANGED <<op, flushed, eof, delivered>> PROVE EmitFlow(h)
  <2>1. delivered' \cup lost' = (delivered \cup lost) \cup {<<hnd[h].t, hnd[h].to>>} BY <1>5 DEF Over
  <2>. QED BY <1>5, <2>1, QuitFlow DEF Over
<1>6. CASE Encode(h)
  <2>1. UNCHANGED <<op, flushed, eof, delivered>> BY <1>6 DEF Encode
  <2>2. /\ Only(h) /\ hnd[h].pc = "send"
        /\ \/ hnd'[h] = [hnd[h] EXCEPT !.pc = "wait"] /\ lost' = lost
           \/ Again(h) \/ Over(h)
    BY <1>6, EncodeStep
  <2>3. CASE hnd'[h] = [hnd[h] EXCEPT !.pc = "wait"] /\ lost' = lost
    <3>1. hnd'[h].ph = hnd[h].ph /\ hnd'[h].pc = "wait" /\ hnd'[h].t = hnd[h].t /\ hnd'[h].work = hnd[h].work
      BY <2>3, HandlerTypes DEF HandlerStates
    <3>. QED BY <2>1, <2>2, <2>3, <3>1, StayFlow
  <2>. QED BY <1>4, <1>5, <2>1, <2>2, <2>3
<1>7. CASE Decode(h)
  <2>1. UNCHANGED <<op, flushed, eof>> /\ hnd[h].pc = "wait" BY <1>7 DEF Decode
  <2>2. \/ hnd' = hnd /\ delivered' = delivered /\ lost' = lost
        \/ /\ Only(h) /\ Quit(h) /\ lost' = lost /\ delivered' = delivered \cup {<<hnd[h].t, hnd[h].to>>}
        \/ Only(h) /\ delivered' = delivered /\ (Again(h) \/ Over(h))
    BY <1>7, DecodeStep
  <2>3. CASE Only(h) /\ Quit(h) /\ lost' = lost /\ delivered' = delivered \cup {<<hnd[h].t, hnd[h].to>>}
    <3>1. delivered' \cup lost' = (delivered \cup lost) \cup {<<hnd[h].t, hnd[h].to>>} BY <2>3
    <3>. QED BY <2>1, <2>3, <3>1, QuitFlow
  <2>. QED BY <1>4, <1>5, <2>1, <2>2, <2>3
<1>. QED BY <1>1, <1>2, <1>3, <1>6, <1>7 DEF EmitStep

\* The tuples of the other handlers stay.
LEMMA OthersFlow ==
  ASSUME NEW h \in Handlers, Only(h)
  PROVE  /\ \A g \in Handlers \ {h} : Mine(g)' = Mine(g) /\ (Resting(g)' <=> Resting(g))
         /\ \E rest : Pending = Mine(h) \cup rest /\ Pending' = Mine(h)' \cup rest
<1>1. \A g \in Handlers \ {h} : Mine(g)' = Mine(g) /\ (Resting(g)' <=> Resting(g))
  BY DEF Only, Mine, Resting
<1>. DEFINE rest == UNION {Mine(g) : g \in Handlers \ {h}}
<1>2. Pending = Mine(h) \cup rest BY DEF Pending
<1>3. Pending' = Mine(h)' \cup UNION {Mine(g)' : g \in Handlers \ {h}} BY DEF Pending
<1>4. UNION {Mine(g)' : g \in Handlers \ {h}} = rest BY <1>1
<1>. QED BY <1>1, <1>2, <1>3, <1>4

\* So emit keeps the invariant about the tuples.
LEMMA EmitKeepsFlow ==
  ASSUME Base, Flow, NEW h \in Handlers, EmitFlow(h) PROVE Flow'
<1>. USE DEF Flow
<1>1. /\ Only(h) /\ hnd[h].ph \in {"stream", "flush"} /\ ~Resting(h)
      /\ hnd'[h].ph = hnd[h].ph
      /\ Finished' \cup Mine(h)' = Finished \cup Mine(h)
      /\ UNCHANGED <<op, flushed, eof>>
  BY DEF EmitFlow
<1>2. \A g \in Handlers \ {h} : hnd'[g] = hnd[g] BY <1>1 DEF Only
<1>3. \A g \in Handlers : hnd'[g].ph = hnd[g].ph BY <1>1, <1>2
<1>4. OnlyBusyEmit' BY <1>1, <1>2 DEF OnlyBusyEmit, Resting
<1>5. AllDone' BY <1>1, <1>3 DEF AllDone
<1>6. ASSUME op = "pass" PROVE PassFlow'
  <2>1. PICK rest : Pending = Mine(h) \cup rest /\ Pending' = Mine(h)' \cup rest BY <1>1, OthersFlow
  <2>2. Finished' \cup Pending' = Finished \cup Pending BY <1>1, <2>1
  <2>. QED BY <1>3, <1>6, <2>2 DEF PassFlow, AllLines
<1>7. ASSUME op = "count" PROVE CountFlow'
  <2>1. hnd[h].ph = "flush" BY <1>1, <1>7 DEF CountFlow
  <2>2. flushed BY <1>7, <2>1 DEF CountFlow
  <2>3. PICK f \in Handlers : Flushes(f) BY <1>7, <2>2 DEF CountFlow
  <2>4. h = f BY <2>1, <2>3 DEF Flushes
  <2>5. Outputs(h)' = Outputs(h) BY <1>1 DEF Outputs
  <2>6. Flushes(h)' BY <1>1, <1>3, <2>1, <2>3, <2>4, <2>5 DEF Flushes
  <2>7. \A g \in Handlers : hnd'[g].ph = "stream" => Resting(g)'
    BY <1>1, <1>2, <1>7, <2>1 DEF CountFlow, Resting
  <2>. QED BY <1>1, <2>2, <2>6, <2>7 DEF CountFlow
<1>. QED BY <1>1, <1>4, <1>5, <1>6, <1>7

\* Steps that touch no tuple.
LEMMA QuietFlow ==
  ASSUME Flow, UNCHANGED <<hnd, op, flushed, delivered, lost>>, AllDone' PROVE Flow'
<1>1. Finished' = Finished /\ \A h \in Handlers : Mine(h)' = Mine(h) /\ Outputs(h)' = Outputs(h)
      /\ (Resting(h)' <=> Resting(h))
  BY DEF Finished, Mine, Outputs, Resting
<1>2. Pending' = Pending BY <1>1 DEF Pending
<1>3. OnlyBusyEmit' BY <1>1 DEF Flow, OnlyBusyEmit
<1>4. ASSUME op = "pass" PROVE PassFlow' BY <1>1, <1>2, <1>4 DEF Flow, PassFlow, AllLines
<1>5. ASSUME op = "count" PROVE CountFlow' BY <1>1, <1>5 DEF Flow, CountFlow, Flushes
<1>. QED BY <1>3, <1>4, <1>5 DEF Flow

\* The check on a marker: the first one of count goes on to flush.
LEMMA CheckFlow ==
  ASSUME Base, Flow, NEW h \in Handlers, CheckFlushed(h) PROVE Flow'
<1>. USE DEF Base, Flow
<1>. DEFINE p == IF op = "count" /\ ~flushed THEN "toflush" ELSE "mark"
<1>1. /\ Only(h) /\ hnd[h].ph = "stream" /\ hnd[h].pc = "idle" /\ hnd[h].work = {}
      /\ hnd'[h] = [hnd[h] EXCEPT !.ph = p]
  BY CheckStep
<1>2. UNCHANGED <<op, eof, delivered, lost>> /\ flushed' = (flushed \/ op = "count")
  BY DEF CheckFlushed
<1>3. op \in {"pass", "count"} /\ flushed \in BOOLEAN BY DEF Typing
<1>4. (op = "pass" \/ flushed => p = "mark") /\ (op = "count" /\ ~flushed => p = "toflush") OBVIOUS
<1>5. p \in {"mark", "toflush"} OBVIOUS
<1>. HIDE DEF p
<1>6. hnd'[h].ph = p /\ hnd'[h].pc = "idle" /\ hnd'[h].work = {}
  BY <1>1, HandlerTypes DEF HandlerStates
<1>7. \A g \in Handlers \ {h} : hnd'[g] = hnd[g] BY <1>1 DEF Only
<1>8. Finished' = Finished /\ Mine(h)' = Mine(h) BY <1>1, <1>2, <1>6 DEF Finished, Mine
<1>9. OnlyBusyEmit' BY <1>6, <1>7 DEF OnlyBusyEmit, Resting
<1>10. AllDone' BY <1>1, <1>2 DEF AllDone
<1>11. ASSUME op = "pass" PROVE PassFlow'
  <2>1. PICK rest : Pending = Mine(h) \cup rest /\ Pending' = Mine(h)' \cup rest BY <1>1, OthersFlow
  <2>2. Finished' \cup Pending' = Finished \cup Pending BY <1>8, <2>1
  <2>. QED BY <1>4, <1>6, <1>7, <1>11, <2>2 DEF PassFlow, AllLines
<1>12. ASSUME op = "count" PROVE CountFlow'
  <2>1. flushed' = TRUE BY <1>2, <1>3, <1>12
  <2>2. \A g \in Handlers : hnd'[g].ph = "stream" => Resting(g)'
    BY <1>5, <1>6, <1>7, <1>12 DEF CountFlow, Resting
  <2>3. CASE flushed
    <3>1. PICK f \in Handlers : Flushes(f) BY <1>12, <2>3 DEF CountFlow
    <3>2. f # h BY <1>1, <3>1 DEF Flushes
    <3>3. Mine(f)' = Mine(f) /\ Outputs(f)' = Outputs(f) /\ hnd'[f] = hnd[f]
      BY <1>2, <1>7, <3>2 DEF Mine, Outputs
    <3>4. \A g \in Handlers \ {f} : hnd'[g].ph \notin {"toflush", "flush"}
      BY <1>4, <1>6, <1>7, <2>3, <3>1 DEF Flushes
    <3>5. Flushes(f)' BY <1>8, <3>1, <3>3, <3>4 DEF Flushes
    <3>. QED BY <2>1, <2>2, <3>5 DEF CountFlow
  <2>4. CASE ~flushed
    <3>1. hnd'[h].ph = "toflush" BY <1>4, <1>6, <1>12, <2>4
    <3>2. \A g \in Handlers \ {h} : hnd'[g].ph = "stream" BY <1>7, <1>12, <2>4 DEF CountFlow
    <3>3. Finished' = {} BY <1>8, <1>12, <2>4 DEF CountFlow
    <3>4. Flushes(h)' BY <3>1, <3>2, <3>3 DEF Flushes
    <3>. QED BY <2>1, <2>2, <3>4 DEF CountFlow
  <2>. QED BY <2>3, <2>4, <1>3
<1>. QED BY <1>2, <1>9, <1>10, <1>11, <1>12

\* The flush begins and ends.
LEMMA FlushFlow ==
  ASSUME Base, Flow, NEW h \in Handlers, StartFlush(h) \/ EndFlush(h) PROVE Flow'
<1>. USE DEF Base, Flow
<1>1. UNCHANGED <<op, flushed, eof, delivered, lost>> BY DEF StartFlush, EndFlush
<1>2. hnd[h].ph \in {"toflush", "flush"} BY StartFlushStep, EndFlushStep
<1>3. op = "count" BY <1>2 DEF PassFlow, Typing
<1>4. flushed BY <1>2, <1>3 DEF CountFlow
<1>5. PICK f \in Handlers : Flushes(f) BY <1>3, <1>4 DEF CountFlow
<1>6. h = f BY <1>2, <1>5 DEF Flushes
<1>7. Only(h) BY StartFlushStep, EndFlushStep
<1>8. \A g \in Handlers \ {h} : hnd'[g] = hnd[g] BY <1>7 DEF Only
<1>9. Finished' = Finished /\ Outputs(h)' = Outputs(h) BY <1>1 DEF Finished, Outputs
<1>10. \A g \in Handlers \ {h} : hnd'[g].ph \notin {"toflush", "flush"} BY <1>5, <1>6, <1>8 DEF Flushes
<1>11. /\ hnd'[h].ph \in {"flush", "mark"} /\ (hnd'[h].ph = "mark" => Resting(h)')
       /\ Finished' \cup Mine(h)' = Outputs(h)
  <2>1. CASE StartFlush(h)
    <3>1. hnd[h].ph = "toflush" /\ hnd'[h] = [hnd[h] EXCEPT !.ph = "flush", !.work = Outputs(h)]
      BY <2>1, StartFlushStep
    <3>2. Resting(h) BY <3>1 DEF OnlyBusyEmit
    <3>3. hnd'[h].ph = "flush" /\ hnd'[h].work = Outputs(h) /\ hnd'[h].pc = "idle"
      BY <3>1, <3>2, HandlerTypes DEF HandlerStates, Resting
    <3>4. Finished' = {} BY <1>5, <1>6, <1>9, <3>1 DEF Flushes
    <3>. QED BY <3>3, <3>4 DEF Mine
  <2>2. CASE EndFlush(h)
    <3>1. /\ hnd[h].ph = "flush" /\ hnd[h].pc = "idle" /\ hnd[h].work = {}
          /\ hnd'[h] = [hnd[h] EXCEPT !.ph = "mark"]
      BY <2>2, EndFlushStep
    <3>2. hnd'[h].ph = "mark" /\ hnd'[h].work = {} /\ hnd'[h].pc = "idle"
      BY <3>1, HandlerTypes DEF HandlerStates
    <3>3. Mine(h)' = Mine(h) BY <3>1, <3>2 DEF Mine
    <3>4. Finished \cup Mine(h) = Outputs(h) BY <1>5, <1>6, <3>1 DEF Flushes
    <3>. QED BY <1>9, <3>2, <3>3, <3>4 DEF Resting
  <2>. QED BY <2>1, <2>2
<1>12. Flushes(h)' BY <1>9, <1>10, <1>11 DEF Flushes
<1>13. \A g \in Handlers : hnd'[g].ph = "stream" => Resting(g)'
  BY <1>3, <1>8, <1>11 DEF CountFlow, Resting
<1>14. CountFlow' BY <1>1, <1>4, <1>12, <1>13 DEF CountFlow
<1>15. OnlyBusyEmit' BY <1>8, <1>11 DEF OnlyBusyEmit, Resting
<1>16. AllDone' BY <1>1, <1>2 DEF AllDone
<1>. QED BY <1>1, <1>3, <1>14, <1>15, <1>16

\* The last marker finds every handler done.
LEMMA MarkFlow ==
  ASSUME Base, Flow, Base', NEW h \in Handlers, CountEOF(h) PROVE Flow'
<1>. USE DEF Flow
<1>1. UNCHANGED <<op, flushed, delivered, lost>> BY DEF CountEOF
<1>2. /\ Only(h) /\ hnd[h].ph = "mark" /\ hnd'[h] = [hnd[h] EXCEPT !.ph = "done"]
      /\ eof'.count = eof.count + 1
      /\ \/ eof'.broadcast = eof.broadcast /\ eof'.byTimer = eof.byTimer
         \/ eof.count + 1 >= NumSources
  BY CountStep DEF Base
<1>3. Resting(h) BY <1>2 DEF OnlyBusyEmit
<1>4. hnd'[h].ph = "done" /\ hnd'[h].work = {} /\ hnd'[h].pc = "idle"
  BY <1>2, <1>3, HandlerTypes DEF HandlerStates, Resting, Base
<1>5. \A g \in Handlers \ {h} : hnd'[g] = hnd[g] BY <1>2 DEF Only
<1>6. Finished' = Finished /\ Mine(h)' = Mine(h) BY <1>1, <1>3, <1>4 DEF Finished, Mine, Resting
<1>7. OnlyBusyEmit' BY <1>4, <1>5 DEF OnlyBusyEmit, Resting
<1>8. AllDone'
  <2>1. CASE eof'.broadcast = eof.broadcast /\ eof'.byTimer = eof.byTimer BY <1>2, <2>1 DEF AllDone
  <2>2. CASE eof.count + 1 >= NumSources
    <3>1. Cardinality(Done') = eof.count + 1 BY <1>2 DEF Base, Counted
    <3>2. Done' \in SUBSET Handlers BY DEF Done
    <3>3. Cardinality(Done') <= Cardinality(Handlers) /\ IsFiniteSet(Done')
      BY <3>2, EmitAssumption, FS_Subset
    <3>4. Cardinality(Done') \in Nat /\ Cardinality(Handlers) \in Nat
      BY <3>3, EmitAssumption, FS_CardinalityType
    <3>5. Cardinality(Done') = Cardinality(Handlers) BY <2>2, <3>1, <3>3, <3>4 DEF NumSources
    <3>6. Done' = Handlers BY <3>2, <3>5, EmitAssumption, FS_Subset
    <3>. QED BY <3>6 DEF AllDone, Done
  <2>. QED BY <1>2, <2>1, <2>2
<1>9. ASSUME op = "pass" PROVE PassFlow'
  <2>1. PICK rest : Pending = Mine(h) \cup rest /\ Pending' = Mine(h)' \cup rest BY <1>2, OthersFlow
  <2>2. Finished' \cup Pending' = Finished \cup Pending BY <1>6, <2>1
  <2>. QED BY <1>4, <1>5, <1>9, <2>2 DEF PassFlow, AllLines
<1>10. ASSUME op = "count" PROVE CountFlow'
  <2>1. flushed BY <1>2, <1>10 DEF CountFlow
  <2>2. PICK f \in Handlers : Flushes(f) BY <1>10, <2>1 DEF CountFlow
  <2>3. Mine(f)' = Mine(f) /\ Outputs(f)' = Outputs(f)
    BY <1>1, <1>5, <1>6 DEF Mine, Outputs
  <2>4. hnd'[f].ph # "stream" /\ (hnd'[f].ph = "toflush" <=> hnd[f].ph = "toflush")
    BY <1>2, <1>4, <1>5, <2>2 DEF Flushes
  <2>5. \A g \in Handlers \ {f} : hnd'[g].ph \notin {"toflush", "flush"}
    BY <1>4, <1>5, <2>2 DEF Flushes
  <2>6. Flushes(f)' BY <1>6, <2>2, <2>3, <2>4, <2>5 DEF Flushes
  <2>7. \A g \in Handlers : hnd'[g].ph = "stream" => Resting(g)'
    BY <1>4, <1>5, <1>10 DEF CountFlow, Resting
  <2>. QED BY <1>1, <2>1, <2>6, <2>7 DEF CountFlow
<1>. QED BY <1>1, <1>7, <1>8, <1>9, <1>10

\* Every line is still to be emitted when the task starts.
LEMMA InitFlow == Init => Flow
<1>. SUFFICES ASSUME Init PROVE Flow
  OBVIOUS
<1>1. /\ op \in Ops /\ flushed = FALSE /\ delivered = {} /\ lost = {}
      /\ hnd = [h \in Handlers |-> NewHandler(IF op = "pass" THEN Outputs(h) ELSE {})]
      /\ eof.broadcast = "no"
  BY DEF Init
<1>2. \A h \in Handlers : /\ hnd[h].ph = "stream" /\ hnd[h].pc = "idle"
                          /\ hnd[h].work = IF op = "pass" THEN Outputs(h) ELSE {}
  BY <1>1 DEF NewHandler
<1>3. Finished = {} BY <1>1 DEF Finished
<1>4. OnlyBusyEmit /\ AllDone BY <1>1, <1>2 DEF OnlyBusyEmit, AllDone
<1>5. ASSUME op = "pass" PROVE PassFlow
  <2>1. \A h \in Handlers : Mine(h) = {h} \X (1..Lines) BY <1>2, <1>5 DEF Mine, Outputs
  <2>2. Pending = UNION {{h} \X (1..Lines) : h \in Handlers} BY <2>1 DEF Pending
  <2>3. UNION {{h} \X (1..Lines) : h \in Handlers} = AllLines BY DEF AllLines
  <2>. QED BY <1>2, <1>3, <2>2, <2>3 DEF PassFlow
<1>6. ASSUME op = "count" PROVE CountFlow BY <1>1, <1>2, <1>3, <1>6 DEF CountFlow, Resting
<1>. QED BY <1>4, <1>5, <1>6 DEF Flow

\* Every step keeps the invariant about the tuples.
LEMMA StepFlow == Base /\ Flow /\ [Next]_vars => Flow'
<1>. SUFFICES ASSUME Base, Flow, [Next]_vars PROVE Flow'
  OBVIOUS
<1>1. Base' BY StepBase
<1>2. ASSUME NEW h \in Handlers, EmitStep(h) PROVE Flow'
  <2>1. EmitFlow(h) \/ (UNCHANGED <<hnd, op, flushed, eof, delivered, lost>>) BY <1>2, EmitFlows DEF Flow
  <2>2. CASE UNCHANGED <<hnd, op, flushed, eof, delivered, lost>>
    <3>1. AllDone' BY <2>2 DEF Flow, AllDone
    <3>. QED BY <2>2, <3>1, QuietFlow
  <2>. QED BY <2>1, <2>2, EmitKeepsFlow
<1>3. ASSUME NEW h \in Handlers, EOFStep(h) PROVE Flow'
  BY <1>1, <1>3, CheckFlow, FlushFlow, MarkFlow DEF EOFStep
<1>4. CASE BroadcastStep \/ EOFTimeout
  <2>1. UNCHANGED <<hnd, op, flushed, delivered, lost>>
    BY <1>4 DEF BroadcastStep, BroadcastLookup, BroadcastSend, BroadcastEnd, EOFTimeout
  <2>2. \/ eof'.broadcast # "no" /\ eof.broadcast # "no" /\ eof'.byTimer = eof.byTimer
        \/ eof'.broadcast = eof.broadcast /\ eof'.byTimer = eof.byTimer
        \/ eof'.byTimer = TRUE
    <3>1. CASE BroadcastLookup BY <3>1, BroadcastLookupStep DEF Base
    <3>2. CASE BroadcastSend BY <3>2, BroadcastSendStep DEF Base
    <3>3. CASE BroadcastEnd BY <3>3, BroadcastEndStep DEF Base
    <3>4. CASE EOFTimeout BY <3>4, TimeoutStep DEF Base
    <3>. QED BY <1>4, <3>1, <3>2, <3>3, <3>4 DEF BroadcastStep
  <2>3. AllDone' BY <2>1, <2>2 DEF Flow, AllDone
  <2>. QED BY <2>1, <2>3, QuietFlow
<1>5. CASE \/ Exit \/ (\E list \in Updates : RoutingUpdate(list)) \/ UNCHANGED vars
           \/ (\E a \in Targets : RoutingDial(a) \/ TargetDies(a) \/ TargetRestarts(a))
           \/ (\E i \in 1..Len(conns) : TargetStep(i))
  <2>1. UNCHANGED <<hnd, op, flushed, eof, delivered, lost>>
    BY <1>5 DEF Exit, RoutingUpdate, RoutingDial, TargetDies, TargetRestarts, TargetStep, Accept, Serve,
              vars
  <2>2. AllDone' BY <2>1 DEF Flow, AllDone
  <2>. QED BY <2>1, <2>2, QuietFlow
<1>. QED BY <1>2, <1>3, <1>4, <1>5 DEF Next

\* The number of lines.
LEMMA IntervalSize ==
  ASSUME NEW n \in Nat PROVE IsFiniteSet(1..n) /\ Cardinality(1..n) = n
<1>1. 1 \in Int /\ n \in Int OBVIOUS
<1>2. IsFiniteSet(1..n) /\ Cardinality(1..n) = IF 1 > n THEN 0 ELSE n - 1 + 1 BY <1>1, FS_Interval
<1>. QED BY <1>2

\* When broadcastEOF runs because the marker of every source has come, every tuple,
\* the counts of the flush included, has been delivered or dropped: nothing is
\* emitted after the EOF, with any number of sources, keys and targets.
THEOREM EOFLast == Spec => []EOFIsLast
<1>1. Base /\ Flow => EOFIsLast
  <2>. SUFFICES ASSUME Base, Flow, eof.broadcast # "no", ~eof.byTimer
                PROVE  Cardinality(Finished) = IF op = "pass" THEN NumSources * Lines ELSE Keys
    BY DEF EOFIsLast, Finished
  <2>1. \A h \in Handlers : hnd[h].ph = "done" BY DEF Flow, AllDone
  <2>2. \A h \in Handlers : Mine(h) = {} BY <2>1 DEF Flow, OnlyBusyEmit, Resting, Mine
  <2>3. CASE op = "pass"
    <3>1. Pending = {} BY <2>2 DEF Pending
    <3>2. Finished = AllLines BY <2>3, <3>1 DEF Flow, PassFlow
    <3>3. IsFiniteSet(1..Lines) /\ Cardinality(1..Lines) = Lines BY IntervalSize, EmitAssumption
    <3>4. Cardinality(AllLines) = Cardinality(Handlers) * Cardinality(1..Lines)
      BY <3>3, EmitAssumption, FS_Product DEF AllLines
    <3>. QED BY <2>3, <3>2, <3>3, <3>4 DEF NumSources
  <2>4. CASE op = "count"
    <3>1. flushed BY <2>1, <2>4, EmitAssumption DEF Flow, CountFlow
    <3>2. PICK f \in Handlers : Flushes(f) BY <2>4, <3>1 DEF Flow, CountFlow
    <3>3. Finished = {f} \X (1..Keys) BY <2>1, <2>2, <2>4, <3>2 DEF Flushes, Outputs
    <3>4. IsFiniteSet(1..Keys) /\ Cardinality(1..Keys) = Keys BY IntervalSize, EmitAssumption
    <3>5. IsFiniteSet({f}) /\ Cardinality({f}) = 1 BY FS_Singleton
    <3>6. Cardinality({f} \X (1..Keys)) = 1 * Keys
      <4>1. Cardinality({f} \X (1..Keys)) = Cardinality({f}) * Cardinality(1..Keys) BY <3>4, <3>5, FS_Product
      <4>. QED BY <3>4, <3>5, <4>1
    <3>7. 1 * Keys = Keys BY EmitAssumption
    <3>. QED BY <2>4, <3>3, <3>6, <3>7
  <2>. QED BY <2>3, <2>4 DEF Base, Typing
<1>. QED BY <1>1, InitBase, StepBase, InitFlow, StepFlow, PTL DEF Spec

----------------------------------------------------------------------------
\* The addresses of a list are those of different tasks.
Distinct(s) == \A i, j \in 1..Len(s) : s[i] = s[j] => i = j

\* ... in the list emit routes by and in the copy broadcastEOF works on.
DistinctLists == Distinct(targetList) /\ Distinct(eof.left)

\* h is in the loop of its attempts, which it does not leave without the lock.
Tries(h) == hnd[h].pc = "wait" \/ (hnd[h].pc = "send" /\ hnd[h].try > 1)

\* The lock of a connection is held by the one handler that is in its loop on it.
Locked ==
  /\ \A h \in Handlers : hnd[h].pc \in {"lookup", "dial"} => hnd[h].try = 1
  /\ \A h \in Handlers : Tries(h) => conns[hnd[h].conn.conn].lock = h
  /\ \A i \in 1..Len(conns) :
       conns[i].lock # 0 => Tries(conns[i].lock) /\ hnd[conns[i].lock].conn.conn = i

\* Connections break with their target.
ClosedAreDead == \A i \in 1..Len(conns) : ~conns[i].open => conns[i].to \in deaths

\* What is under way on a connection, and whether an EOF may still come to it.
Load(ack, req) == Len(ack) + Len(req)
\* ... as long as the broadcast has not passed the address.
Owed(a) == eof.broadcast = "no" \/ \E k \in 1..Len(eof.left) : eof.left[k] = a

\* Everything after the first p places of the connection's traffic is t.
From(ack, req, p, t) ==
  /\ \A k \in 1..Len(ack) : k > p => ack[k] = t
  /\ \A k \in 1..Len(req) : k + Len(ack) > p => req[k] = t

\* At most one answer is left over, that of an EOF marker or of a repetition. It
\* costs the next tuple one attempt.
Orderly(c) ==
  /\ c.lock = 0 => Load(c.ack, c.req) <= 1 /\ (Owed(c.to) => Load(c.ack, c.req) = 0)
  /\ c.lock # 0 =>
       /\ hnd[c.lock].try <= 2
       /\ hnd[c.lock].pc = "wait" =>
            /\ Load(c.ack, c.req) <= 2 /\ (Owed(c.to) => Load(c.ack, c.req) <= 1)
            /\ From(c.ack, c.req, IF hnd[c.lock].try = 1 THEN Load(c.ack, c.req) - 1 ELSE 0, hnd[c.lock].t)
       /\ hnd[c.lock].pc = "send" =>
            Load(c.ack, c.req) <= 1 /\ (Owed(c.to) => Load(c.ack, c.req) = 0) /\ From(c.ack, c.req, 0, hnd[c.lock].t)

\* The task runs: connections to targets that never died are orderly.
Traffic == status = "up" => \A i \in 1..Len(conns) : conns[i].to \in deaths \/ Orderly(conns[i])

\* The invariant about the connections.
Drops == DistinctLists /\ Locked /\ ClosedAreDead /\ Traffic /\ DropsNeedDeath

\* A request is added,
LEMMA SendLoad ==
  ASSUME NEW ack \in Seq(Tags), NEW req \in Seq(Tags), NEW t \in Tags
  PROVE  LET d == Append(req, t) IN
         /\ Load(ack, req) \in Nat /\ Load(ack, d) = Load(ack, req) + 1
         /\ From(ack, d, Load(ack, d) - 1, t)
         /\ From(ack, req, 0, t) => From(ack, d, 0, t)
<1>. DEFINE d == Append(req, t)
<1>1. Len(ack) \in Nat /\ Len(req) \in Nat BY LenProperties
<1>2. /\ Len(d) = Len(req) + 1 /\ d[Len(req) + 1] = t
      /\ \A k \in 1..Len(req) : d[k] = req[k]
  BY AppendProperties
<1>. HIDE DEF d
<1>3. Load(ack, req) \in Nat /\ Load(ack, d) = Load(ack, req) + 1 BY <1>1, <1>2 DEF Load
<1>4. \A k \in 1..Len(d) : k \in 1..Len(req) \/ k = Len(req) + 1 BY <1>1, <1>2
<1>5. From(ack, d, Load(ack, d) - 1, t)
  <2>1. \A k \in 1..Len(ack) : ~(k > Load(ack, d) - 1) BY <1>1, <1>2 DEF Load
  <2>2. \A k \in 1..Len(d) : k + Len(ack) > Load(ack, d) - 1 => k = Len(req) + 1 BY <1>1, <1>2 DEF Load
  <2>. QED BY <1>2, <2>1, <2>2 DEF From
<1>6. ASSUME From(ack, req, 0, t) PROVE From(ack, d, 0, t)
  <2>1. \A k \in 1..Len(ack) : k > 0 BY <1>1
  <2>2. \A k \in 1..Len(req) : k + Len(ack) > 0 BY <1>1
  <2>3. \A k \in 1..Len(ack) : ack[k] = t BY <1>6, <2>1 DEF From
  <2>4. \A k \in 1..Len(req) : req[k] = t BY <1>6, <2>2 DEF From
  <2>. QED BY <1>2, <1>4, <2>3, <2>4 DEF From
<1>. QED BY <1>3, <1>5, <1>6 DEF d

\* an ack is read,
LEMMA ReadLoad ==
  ASSUME NEW ack \in Seq(Tags), NEW req \in Seq(Tags), NEW t, ack # <<>>
  PROVE  LET d == Tail(ack) IN
         /\ Load(ack, req) \in Nat /\ Load(ack, req) >= 1
         /\ Load(d, req) \in Nat /\ Load(d, req) = Load(ack, req) - 1
         /\ From(ack, req, 0, t) => Head(ack) = t
         /\ From(ack, req, 1, t) => From(d, req, 0, t)
<1>. DEFINE d == Tail(ack)
<1>1. Len(ack) \in Nat /\ Len(req) \in Nat BY LenProperties
<1>2. Len(ack) # 0 BY EmptySeq
<1>3. Len(d) = Len(ack) - 1 /\ \A k \in 1..Len(d) : d[k] = ack[k + 1]
  BY HeadTailProperties
<1>4. Head(ack) = ack[1] BY <1>2
<1>. HIDE DEF d
<1>5. /\ Load(ack, req) \in Nat /\ Load(ack, req) >= 1
      /\ Load(d, req) \in Nat /\ Load(d, req) = Load(ack, req) - 1
  BY <1>1, <1>2, <1>3 DEF Load
<1>6. ASSUME From(ack, req, 0, t) PROVE Head(ack) = t
  <2>1. 1 \in 1..Len(ack) /\ 1 > 0 BY <1>1, <1>2
  <2>. QED BY <1>4, <1>6, <2>1 DEF From
<1>7. ASSUME From(ack, req, 1, t) PROVE From(d, req, 0, t)
  <2>1. \A k \in 1..Len(d) : k + 1 \in 1..Len(ack) /\ k + 1 > 1 BY <1>1, <1>3
  <2>2. \A k \in 1..Len(req) : k + Len(ack) > 1 BY <1>1, <1>2
  <2>. QED BY <1>3, <1>7, <2>1, <2>2 DEF From
<1>. QED BY <1>5, <1>6, <1>7 DEF d

\* and a request becomes an ack, in its place.
LEMMA ServeLoad ==
  ASSUME NEW ack \in Seq(Tags), NEW req \in Seq(Tags), NEW t, req # <<>>, NEW p \in Int
  PROVE  LET a == Append(ack, Head(req))
             r == Tail(req)
         IN  /\ Load(a, r) = Load(ack, req)
             /\ From(ack, req, p, t) => From(a, r, p, t)
<1>. DEFINE a == Append(ack, Head(req))
            r == Tail(req)
<1>1. Len(ack) \in Nat /\ Len(req) \in Nat BY LenProperties
<1>2. Len(req) # 0 BY EmptySeq
<1>3. Len(r) = Len(req) - 1 /\ \A k \in 1..Len(r) : r[k] = req[k + 1]
  BY HeadTailProperties
<1>4. Head(req) = req[1] /\ Head(req) \in Tags BY <1>2, HeadTailProperties
<1>5. /\ Len(a) = Len(ack) + 1 /\ a[Len(ack) + 1] = req[1]
      /\ \A k \in 1..Len(ack) : a[k] = ack[k]
  BY <1>4, AppendProperties
<1>. HIDE DEF a, r
<1>6. Load(a, r) = Load(ack, req) BY <1>1, <1>2, <1>3, <1>5 DEF Load
<1>7. ASSUME From(ack, req, p, t) PROVE From(a, r, p, t)
  <2>1. \A k \in 1..Len(a) : k \in 1..Len(ack) \/ k = Len(ack) + 1 BY <1>1, <1>5
  <2>2. 1 \in 1..Len(req) BY <1>1, <1>2
  <2>3. Len(ack) + 1 > p => req[1] = t
    <3>1. 1 + Len(ack) = Len(ack) + 1 BY <1>1
    <3>. QED BY <1>7, <2>2, <3>1 DEF From
  <2>4. \A k \in 1..Len(a) : k > p => a[k] = t BY <1>5, <1>7, <2>1, <2>3 DEF From
  <2>5. \A k \in 1..Len(r) : k + 1 \in 1..Len(req) /\ k + Len(a) = (k + 1) + Len(ack)
    BY <1>1, <1>2, <1>3, <1>5
  <2>6. \A k \in 1..Len(r) : k + Len(a) > p => r[k] = t BY <1>3, <1>7, <2>5 DEF From
  <2>. QED BY <2>4, <2>6 DEF From
<1>. QED BY <1>6, <1>7 DEF a, r

\* The load is a number.
LEMMA LoadNat ==
  ASSUME NEW ack \in Seq(Tags), NEW req \in Seq(Tags) PROVE Load(ack, req) \in Nat
<1>1. Len(ack) \in Nat /\ Len(req) \in Nat BY LenProperties
<1>. QED BY <1>1 DEF Load

\* What emit's loop looks at in a handler.
Same(h) ==
  /\ hnd'[h].pc = hnd[h].pc /\ hnd'[h].try = hnd[h].try /\ hnd'[h].conn = hnd[h].conn
  /\ hnd'[h].t = hnd[h].t

\* Nobody takes or gives back a lock.
SameLocks ==
  /\ Len(conns) \in Nat /\ Len(conns') \in Nat
  /\ \A i \in 1..Len(conns) : i \in 1..Len(conns') /\ conns'[i].lock = conns[i].lock
  /\ \A i \in 1..Len(conns') : i \in 1..Len(conns) \/ conns'[i].lock = 0

\* No address is added to those an EOF may still go to.
NoNewDebt == \A a \in Targets : Owed(a)' => Owed(a)

\* When handlers and locks stay so does who holds what.
LEMMA LockedQuiet ==
  ASSUME Base, Locked, SameLocks, \A g \in Handlers : Same(g) PROVE Locked'
<1>1. \A g \in Handlers : Tries(g)' <=> Tries(g) BY DEF Same, Tries
<1>2. \A g \in Handlers : hnd'[g].pc \in {"lookup", "dial"} => hnd'[g].try = 1 BY DEF Locked, Same
<1>3. \A g \in Handlers : Tries(g) => hnd[g].conn.conn \in 1..Len(conns) BY DEF Base, Aimed, AimedAt, Tries
<1>4. \A g \in Handlers : Tries(g)' => conns'[hnd'[g].conn.conn].lock = g
  BY <1>1, <1>3 DEF Locked, Same, SameLocks
<1>5. \A i \in 1..Len(conns) : conns[i].lock # 0 => conns[i].lock \in Handlers BY ConnTypes DEF Base
<1>6. \A i \in 1..Len(conns') :
        conns'[i].lock # 0 => Tries(conns[i].lock)' /\ hnd'[conns'[i].lock].conn.conn = i
  <2>. SUFFICES ASSUME NEW i \in 1..Len(conns'), conns'[i].lock # 0
                PROVE  Tries(conns[i].lock)' /\ hnd'[conns'[i].lock].conn.conn = i
    OBVIOUS
  <2>1. i \in 1..Len(conns) /\ conns'[i].lock = conns[i].lock BY DEF SameLocks
  <2>2. PICK g \in Handlers : conns[i].lock = g BY <1>5, <2>1
  <2>3. Tries(g) /\ hnd[g].conn.conn = i BY <2>1, <2>2 DEF Locked
  <2>. QED BY <1>1, <2>1, <2>2, <2>3 DEF Same
<1>. QED BY <1>2, <1>4, <1>6 DEF Locked

\* A handler without a lock goes on without one.
LEMMA LockedFree ==
  ASSUME Base, Locked, SameLocks, NEW h \in Handlers, Only(h), ~Tries(h), ~Tries(h)',
         hnd'[h].pc \in {"lookup", "dial"} => hnd'[h].try = 1
  PROVE  Locked'
<1>0. \A g \in Handlers \ {h} : hnd'[g] = hnd[g] BY DEF Only
<1>1. \A g \in Handlers \ {h} : Tries(g)' <=> Tries(g) BY <1>0 DEF Tries
<1>2. \A g \in Handlers : hnd'[g].pc \in {"lookup", "dial"} => hnd'[g].try = 1 BY <1>0 DEF Locked
<1>3. \A g \in Handlers : Tries(g) => hnd[g].conn.conn \in 1..Len(conns) BY DEF Base, Aimed, AimedAt, Tries
<1>4. \A g \in Handlers : Tries(g)' => conns'[hnd'[g].conn.conn].lock = g
  <2>. SUFFICES ASSUME NEW g \in Handlers, Tries(g)' PROVE conns'[hnd'[g].conn.conn].lock = g
    OBVIOUS
  <2>1. g # h OBVIOUS
  <2>2. Tries(g) /\ hnd'[g] = hnd[g] BY <1>0, <1>1, <2>1
  <2>. QED BY <1>3, <2>2 DEF Locked, SameLocks
<1>5. \A i \in 1..Len(conns) : conns[i].lock # 0 => conns[i].lock \in Handlers BY ConnTypes DEF Base
<1>6. \A i \in 1..Len(conns') :
        conns'[i].lock # 0 => Tries(conns[i].lock)' /\ hnd'[conns'[i].lock].conn.conn = i
  <2>. SUFFICES ASSUME NEW i \in 1..Len(conns'), conns'[i].lock # 0
                PROVE  Tries(conns[i].lock)' /\ hnd'[conns'[i].lock].conn.conn = i
    OBVIOUS
  <2>1. i \in 1..Len(conns) /\ conns'[i].lock = conns[i].lock BY DEF SameLocks
  <2>2. PICK g \in Handlers : conns[i].lock = g BY <1>5, <2>1
  <2>3. Tries(g) /\ hnd[g].conn.conn = i BY <2>1, <2>2 DEF Locked
  <2>4. g # h BY <2>3
  <2>. QED BY <1>0, <1>1, <2>1, <2>2, <2>3, <2>4
<1>. QED BY <1>2, <1>4, <1>6 DEF Locked

\* An attempt takes the lock, keeps it or gives it back.
LEMMA LockedAttempt ==
  ASSUME Base, Locked, NEW h \in Handlers, Only(h), NEW i \in 1..Len(conns), NEW l, NEW q, NEW a,
         i = hnd[h].conn.conn, Touched(i, l, q, a), conns[i].lock \in {0, h},
         hnd'[h].pc \notin {"lookup", "dial"},
         (l = h /\ Tries(h)' /\ hnd'[h].conn.conn = i) \/ (l = 0 /\ ~Tries(h)')
  PROVE  Locked'
<1>0. \A g \in Handlers \ {h} : hnd'[g] = hnd[g] BY DEF Only
<1>1. \A g \in Handlers \ {h} : Tries(g)' <=> Tries(g) BY <1>0 DEF Tries
<1>2. \A g \in Handlers : hnd'[g].pc \in {"lookup", "dial"} => hnd'[g].try = 1 BY <1>0 DEF Locked
<1>3. \A g \in Handlers : Tries(g) => hnd[g].conn.conn \in 1..Len(conns) BY DEF Base, Aimed, AimedAt, Tries
<1>4. /\ Len(conns') = Len(conns) /\ conns'[i].lock = l
      /\ \A j \in 1..Len(conns) : j # i => conns'[j] = conns[j]
  BY DEF Touched
<1>5. 0 \notin Handlers BY EmitAssumption
<1>6. \A g \in Handlers : Tries(g)' => conns'[hnd'[g].conn.conn].lock = g
  <2>. SUFFICES ASSUME NEW g \in Handlers, Tries(g)' PROVE conns'[hnd'[g].conn.conn].lock = g
    OBVIOUS
  <2>1. CASE g = h BY <1>4, <2>1
  <2>2. CASE g # h
    <3>1. Tries(g) /\ hnd'[g] = hnd[g] BY <1>0, <1>1, <2>2
    <3>2. conns[hnd[g].conn.conn].lock = g /\ hnd[g].conn.conn \in 1..Len(conns) BY <1>3, <3>1 DEF Locked
    <3>3. hnd[g].conn.conn # i BY <1>5, <2>2, <3>2
    <3>. QED BY <1>4, <3>1, <3>2, <3>3
  <2>. QED BY <2>1, <2>2
<1>7. \A j \in 1..Len(conns) : conns[j].lock # 0 => conns[j].lock \in Handlers BY ConnTypes DEF Base
<1>8. \A j \in 1..Len(conns') :
        conns'[j].lock # 0 => Tries(conns[j].lock)' /\ hnd'[conns'[j].lock].conn.conn = j
  <2>. SUFFICES ASSUME NEW j \in 1..Len(conns'), conns'[j].lock # 0
                PROVE  Tries(conns[j].lock)' /\ hnd'[conns'[j].lock].conn.conn = j
    OBVIOUS
  <2>1. CASE j = i BY <1>4, <2>1
  <2>2. CASE j # i
    <3>1. j \in 1..Len(conns) /\ conns'[j].lock = conns[j].lock BY <1>4, <2>2
    <3>2. PICK g \in Handlers : conns[j].lock = g BY <1>7, <3>1
    <3>3. Tries(g) /\ hnd[g].conn.conn = j /\ conns[hnd[g].conn.conn].lock = g BY <3>1, <3>2 DEF Locked
    <3>4. CASE g # h BY <1>0, <1>1, <3>1, <3>2, <3>3, <3>4
    <3>5. CASE g = h BY <2>2, <3>3, <3>5
    <3>. QED BY <3>4, <3>5
  <2>. QED BY <2>1, <2>2
<1>. QED BY <1>2, <1>6, <1>8 DEF Locked

\* A connection whose holder stands still is as orderly as it was.
LEMMA OrderlyKept ==
  ASSUME Base, NoNewDebt, NEW i \in 1..Len(conns), conns'[i] = conns[i], Orderly(conns[i]),
         conns[i].lock # 0 => Same(conns[i].lock)
  PROVE  Orderly(conns[i])'
<1>. DEFINE c == conns[i]
<1>1. c.to \in Targets BY ConnTypes DEF Base
<1>2. Owed(c.to)' => Owed(c.to) BY <1>1 DEF NoNewDebt
<1>. QED BY <1>2 DEF Orderly, Same

\* Nothing is under way on a new connection.
LEMMA NewIsOrderly ==
  ASSUME NEW a \in Targets, NEW i, conns'[i] = NewConn(a) PROVE Orderly(conns[i])'
<1>1. conns'[i].lock = 0 /\ conns'[i].ack = <<>> /\ conns'[i].req = <<>> BY NewConnFacts
<1>2. Load(<<>>, <<>>) = 0 BY DEF Load
<1>. QED BY <1>1, <1>2 DEF Orderly

\* Steps that leave what is under way alone.
Untouched ==
  /\ Len(conns) \in Nat /\ Len(conns') \in Nat
  /\ \A i \in 1..Len(conns) : i \in 1..Len(conns') /\ conns'[i] = conns[i]
  /\ \A i \in 1..Len(conns') : i \notin 1..Len(conns) => \E a \in Targets : conns'[i] = NewConn(a)

\* A dial is such a step.
LEMMA UntouchedFacts ==
  ASSUME Typing, conns' = conns \/ \E a \in Targets, d \in BOOLEAN : Connect(a, d)
  PROVE  Untouched /\ SameLocks
<1>0. Len(conns) \in Nat BY LenProperties DEF Typing
<1>1. CASE conns' = conns BY <1>0, <1>1 DEF Untouched, SameLocks
<1>2. ASSUME NEW a \in Targets, NEW d \in BOOLEAN, Connect(a, d) PROVE Untouched /\ SameLocks
  <2>1. /\ Len(conns') = Len(conns) + 1
        /\ \A i \in 1..Len(conns) : conns'[i] = conns[i]
        /\ conns'[Len(conns) + 1] = NewConn(a)
    BY <1>2, ConnectFacts
  <2>2. Len(conns') \in Nat /\ \A i \in 1..Len(conns) : i \in 1..Len(conns') BY <1>0, <2>1
  <2>3. \A i \in 1..Len(conns') : i \notin 1..Len(conns) => i = Len(conns) + 1 BY <1>0, <2>1
  <2>4. NewConn(a).lock = 0 BY NewConnFacts
  <2>5. Untouched BY <1>0, <2>1, <2>2, <2>3 DEF Untouched
  <2>6. SameLocks BY <1>0, <2>1, <2>2, <2>3, <2>4 DEF SameLocks
  <2>. QED BY <2>5, <2>6
<1>. QED BY <1>1, <1>2

\* They keep the traffic in order,
LEMMA TrafficKept ==
  ASSUME Base, Traffic, Untouched, NoNewDebt, deaths \subseteq deaths', status' = "up" => status = "up",
         \A i \in 1..Len(conns) : conns[i].lock # 0 => Same(conns[i].lock)
  PROVE  Traffic'
<1>. SUFFICES ASSUME status' = "up", NEW i \in 1..Len(conns'), conns'[i].to \notin deaths'
              PROVE  Orderly(conns[i])'
  BY DEF Traffic
<1>1. CASE i \in 1..Len(conns)
  <2>1. conns'[i] = conns[i] BY <1>1 DEF Untouched
  <2>2. Orderly(conns[i]) BY <1>1, <2>1 DEF Traffic
  <2>. QED BY <1>1, <2>1, <2>2, OrderlyKept
<1>2. CASE i \notin 1..Len(conns) BY <1>2, NewIsOrderly DEF Untouched
<1>. QED BY <1>1, <1>2

\* and the connections as open as they were.
LEMMA ClosedKept ==
  ASSUME Base, ClosedAreDead, Untouched, deaths \subseteq deaths' PROVE ClosedAreDead'
<1>1. \A i \in 1..Len(conns') : i \notin 1..Len(conns) => conns'[i].open BY NewConnFacts DEF Untouched
<1>. QED BY <1>1 DEF ClosedAreDead, Untouched

\* So does a change of lock, requests and acks.
LEMMA ClosedTouched ==
  ASSUME Base, ClosedAreDead, NEW i \in 1..Len(conns), NEW l, NEW q, NEW a, Touched(i, l, q, a),
         deaths' = deaths
  PROVE  ClosedAreDead'
BY DEF ClosedAreDead, Touched

\* The holder of a connection is one of the handlers.
LEMMA Holder ==
  ASSUME Base, Locked, NEW i \in 1..Len(conns), conns[i].lock # 0
  PROVE  /\ conns[i].lock \in Handlers /\ Tries(conns[i].lock) /\ hnd[conns[i].lock].conn.conn = i
BY ConnTypes DEF Base, Locked

\* Steps that touch one connection: the others stay as orderly as they were.
LEMMA TrafficTouched ==
  ASSUME Base, Traffic, Locked, NEW i \in 1..Len(conns), NEW l, NEW q, NEW a, Touched(i, l, q, a),
         NoNewDebt, deaths' = deaths, status' = "up" => status = "up",
         \A j \in 1..Len(conns) \ {i} : conns[j].lock # 0 => Same(conns[j].lock),
         status' = "up" /\ conns[i].to \notin deaths => Orderly(conns[i])'
  PROVE  Traffic'
<1>1. /\ Len(conns') = Len(conns) /\ conns'[i].to = conns[i].to
      /\ \A j \in 1..Len(conns) : j # i => conns'[j] = conns[j]
  BY DEF Touched
<1>. SUFFICES ASSUME status' = "up", NEW j \in 1..Len(conns'), conns'[j].to \notin deaths'
              PROVE  Orderly(conns[j])'
  BY DEF Traffic
<1>2. CASE j = i BY <1>1, <1>2
<1>3. CASE j # i
  <2>1. conns'[j] = conns[j] /\ j \in 1..Len(conns) BY <1>1, <1>3
  <2>2. Orderly(conns[j]) BY <2>1 DEF Traffic
  <2>. QED BY <1>3, <2>1, <2>2, OrderlyKept
<1>. QED BY <1>2, <1>3

\* How the debts of the broadcast change: not at all, by starting it,
LEMMA SameDebt ==
  ASSUME \/ eof'.broadcast = eof.broadcast /\ eof'.left = eof.left
         \/ eof.broadcast # "no" /\ eof'.broadcast # "no" /\ eof'.left = eof.left
         \/ eof.broadcast = "no"
  PROVE  NoNewDebt
BY DEF NoNewDebt, Owed

\* or by going on to the next address.
LEMMA TailDebt ==
  ASSUME Base, DistinctLists, eof.left # <<>>, eof'.broadcast # "no", eof'.left = Tail(eof.left)
  PROVE  /\ NoNewDebt /\ Distinct(eof'.left)
         /\ \A k \in 1..Len(eof'.left) : eof'.left[k] # Head(eof.left)
<1>. DEFINE s == eof.left
            r == Tail(s)
<1>1. s \in Seq(Targets) BY DEF Base, Typing, EOFStates
<1>2. Len(s) \in Nat /\ Len(s) # 0 BY <1>1, EmptySeq, LenProperties
<1>3. Len(r) = Len(s) - 1 /\ \A k \in 1..Len(r) : r[k] = s[k + 1] BY <1>1, HeadTailProperties
<1>4. Head(s) = s[1] BY <1>1, <1>2
<1>5. Distinct(s) /\ eof'.left = r BY DEF DistinctLists
<1>. HIDE DEF r
<1>6. \A k \in 1..Len(r) : k + 1 \in 1..Len(s) /\ k + 1 # 1 /\ k \in Int BY <1>2, <1>3
<1>7. \A k \in 1..Len(r) : \E j \in 1..Len(s) : r[k] = s[j] BY <1>3, <1>6
<1>8. NoNewDebt BY <1>5, <1>7 DEF NoNewDebt, Owed
<1>9. 1 \in 1..Len(s) BY <1>2
<1>10. \A k \in 1..Len(r) : r[k] # Head(s) BY <1>3, <1>4, <1>5, <1>6, <1>9 DEF Distinct
<1>11. Distinct(r)
  <2>. SUFFICES ASSUME NEW j \in 1..Len(r), NEW k \in 1..Len(r), r[j] = r[k] PROVE j = k
    BY DEF Distinct
  <2>1. j + 1 = k + 1 BY <1>3, <1>5, <1>6 DEF Distinct
  <2>. QED BY <1>6, <2>1
<1>. QED BY <1>5, <1>8, <1>10, <1>11

\* Steps that change neither the traffic nor where emit stands.
LEMMA QuietDrops ==
  ASSUME Base, Drops, conns' = conns \/ \E a \in Targets, d \in BOOLEAN : Connect(a, d),
         \A g \in Handlers : Same(g), NoNewDebt, DistinctLists', deaths \subseteq deaths',
         status' = "up" => status = "up", lost' = lost
  PROVE  Drops'
<1>1. Untouched /\ SameLocks BY UntouchedFacts DEF Base
<1>2. Locked' BY <1>1, LockedQuiet DEF Drops
<1>3. ClosedAreDead' BY <1>1, ClosedKept DEF Drops
<1>4. \A i \in 1..Len(conns) : conns[i].lock # 0 => Same(conns[i].lock) BY Holder DEF Drops
<1>5. Traffic' BY <1>1, <1>4, TrafficKept DEF Drops
<1>6. DropsNeedDeath' BY DEF Drops, DropsNeedDeath
<1>. QED BY <1>2, <1>3, <1>5, <1>6 DEF Drops

\* Steps of a handler that has no lock and takes none.
LEMMA FreeDrops ==
  ASSUME Base, Drops, conns' = conns \/ \E a \in Targets, d \in BOOLEAN : Connect(a, d),
         NEW h \in Handlers, Only(h), ~Tries(h), ~Tries(h)',
         hnd'[h].pc \in {"lookup", "dial"} => hnd'[h].try = 1,
         UNCHANGED <<eof, targetList, deaths, status>>, DropsNeedDeath'
  PROVE  Drops'
<1>1. Untouched /\ SameLocks BY UntouchedFacts DEF Base
<1>2. Locked' BY <1>1, LockedFree DEF Drops
<1>3. ClosedAreDead' BY <1>1, ClosedKept DEF Drops
<1>4. ASSUME NEW i \in 1..Len(conns), conns[i].lock # 0 PROVE Same(conns[i].lock)
  <2>1. conns[i].lock \in Handlers /\ Tries(conns[i].lock) BY <1>4, Holder DEF Drops
  <2>2. conns[i].lock # h BY <2>1
  <2>. QED BY <2>1, <2>2 DEF Only, Same
<1>5. NoNewDebt BY SameDebt
<1>6. Traffic' BY <1>1, <1>4, <1>5, TrafficKept DEF Drops
<1>7. DistinctLists' BY DEF Drops, DistinctLists
<1>. QED BY <1>2, <1>3, <1>6, <1>7 DEF Drops

\* The choice of a target has no lock,
LEMMA RouteDrops ==
  ASSUME Base, Drops, NEW h \in Handlers, Route(h) PROVE Drops'
<1>1. UNCHANGED <<conns, eof, targetList, deaths, status, lost>> BY DEF Route
<1>2. Only(h) /\ hnd[h].pc = "idle" BY RouteStep DEF Base
<1>3. hnd'[h].pc = "lookup" /\ hnd'[h].try = 1
  <2>1. PICK t \in hnd[h].work : \E a \in Targets :
              hnd'[h] = [hnd[h] EXCEPT !.work = @ \ {t}, !.pc = "lookup", !.t = t, !.try = 1, !.to = a]
    BY RouteStep DEF Base
  <2>. QED BY <2>1, HandlerTypes DEF HandlerStates, Base
<1>4. DropsNeedDeath' BY <1>1 DEF Drops, DropsNeedDeath
<1>. QED BY <1>1, <1>2, <1>3, <1>4, FreeDrops DEF Tries

\* nor has the look into the pool,
LEMMA LookupDrops ==
  ASSUME Base, Drops, NEW h \in Handlers, Lookup(h) PROVE Drops'
<1>1. UNCHANGED <<conns, eof, targetList, deaths, status, lost>> /\ hnd[h].pc = "lookup" BY DEF Lookup
<1>2. Only(h) /\ hnd'[h] = [hnd[h] EXCEPT !.conn = pool[hnd[h].to],
                                     !.pc = IF pool[hnd[h].to].conn = 0 THEN "dial" ELSE "send"]
  BY LookupStep DEF Base
<1>3. hnd'[h].try = hnd[h].try /\ hnd'[h].pc \in {"dial", "send"} BY <1>2, HandlerTypes DEF HandlerStates, Base
<1>4. hnd[h].try = 1 BY <1>1 DEF Drops, Locked
<1>5. DropsNeedDeath' BY <1>1 DEF Drops, DropsNeedDeath
<1>6. ~Tries(h) /\ ~Tries(h)' BY <1>1, <1>3, <1>4 DEF Tries
<1>. QED BY <1>1, <1>2, <1>3, <1>4, <1>5, <1>6, FreeDrops

\* nor the dial, which only fails for a target that has died.
LEMMA DialDrops ==
  ASSUME Base, Service, Drops, NEW h \in Handlers, Dial(h) PROVE Drops'
<1>1. UNCHANGED <<eof, targetList, deaths, status>> BY DEF Dial
<1>2. Only(h) /\ hnd[h].pc = "dial" /\ hnd[h].to \in Targets BY DialStep DEF Base
<1>3. hnd[h].try = 1 BY <1>2 DEF Drops, Locked
<1>4. CASE Connect(hnd[h].to, TRUE) /\ lost' = lost
           /\ hnd'[h] = [hnd[h] EXCEPT !.conn = pool'[hnd[h].to], !.pc = "send"]
  <2>1. hnd'[h].try = 1 /\ hnd'[h].pc = "send" BY <1>3, <1>4, HandlerTypes DEF HandlerStates, Base
  <2>2. ~Tries(h) /\ ~Tries(h)' BY <1>2, <2>1 DEF Tries
  <2>3. DropsNeedDeath' BY <1>1, <1>4 DEF Drops, DropsNeedDeath
  <2>. QED BY <1>1, <1>2, <1>4, <2>1, <2>2, <2>3, FreeDrops
<1>5. CASE /\ Quit(h) /\ ~up[hnd[h].to] /\ conns' = conns
           /\ lost' = lost \cup {<<hnd[h].t, hnd[h].to>>}
  <2>1. hnd'[h].pc = "idle" BY <1>5, QuitBase DEF Base
  <2>2. ~Tries(h) /\ ~Tries(h)' BY <1>2, <2>1 DEF Tries
  <2>3. hnd[h].to \in deaths BY <1>2, <1>5 DEF Service, Unbroken
  <2>4. DropsNeedDeath' BY <1>1, <1>5, <2>3 DEF Drops, DropsNeedDeath
  <2>. QED BY <1>1, <1>2, <1>5, <2>1, <2>2, <2>4, FreeDrops
<1>. QED BY <1>4, <1>5, DialStep DEF Base

\* An attempt keeps the order if its own connection stays orderly.
LEMMA AttemptDrops ==
  ASSUME Base, Drops, NEW h \in Handlers, Only(h), NEW i \in 1..Len(conns), NEW l, NEW q, NEW a,
         i = hnd[h].conn.conn, Touched(i, l, q, a), conns[i].lock \in {0, h},
         hnd'[h].pc \notin {"lookup", "dial"},
         (l = h /\ Tries(h)' /\ hnd'[h].conn.conn = i) \/ (l = 0 /\ ~Tries(h)'),
         UNCHANGED <<eof, targetList, deaths, status>>, DropsNeedDeath',
         status = "up" /\ conns[i].to \notin deaths => Orderly(conns[i])'
  PROVE  Drops'
<1>1. Locked' BY LockedAttempt DEF Drops
<1>2. ClosedAreDead' BY ClosedTouched DEF Drops
<1>3. ASSUME NEW j \in 1..Len(conns) \ {i}, conns[j].lock # 0 PROVE Same(conns[j].lock)
  <2>1. conns[j].lock \in Handlers /\ hnd[conns[j].lock].conn.conn = j BY <1>3, Holder DEF Drops
  <2>2. conns[j].lock # h BY <2>1
  <2>. QED BY <2>1, <2>2 DEF Only, Same
<1>4. NoNewDebt BY SameDebt
<1>5. Traffic' BY <1>3, <1>4, TrafficTouched DEF Drops
<1>6. DistinctLists' BY DEF Drops, DistinctLists
<1>. QED BY <1>1, <1>2, <1>5, <1>6 DEF Drops

\* Once more or never again: where emit then stands.
LEMMA RetryTries ==
  ASSUME Base, NEW h \in Handlers
  PROVE  /\ Again(h) => Tries(h)' /\ hnd'[h].conn = hnd[h].conn /\ hnd'[h].pc = "send"
         /\ Over(h) => ~Tries(h)' /\ hnd'[h].pc = "idle"
<1>1. ASSUME Again(h) PROVE Tries(h)' /\ hnd'[h].conn = hnd[h].conn /\ hnd'[h].pc = "send"
  <2>1. /\ hnd'[h].pc = "send" /\ hnd'[h].try = hnd[h].try + 1 /\ hnd'[h].conn = hnd[h].conn
    BY <1>1, AgainFacts DEF Base
  <2>2. hnd[h].try + 1 > 1 BY HandlerTypes DEF Base
  <2>. QED BY <2>1, <2>2 DEF Tries
<1>2. ASSUME Over(h) PROVE ~Tries(h)' /\ hnd'[h].pc = "idle"
  <2>1. hnd'[h].pc = "idle" BY <1>2, QuitBase DEF Over, Base
  <2>. QED BY <2>1 DEF Tries
<1>. QED BY <1>1, <1>2

\* A request goes behind at most one answer that is left over, and fails only on
\* the broken connection to a dead target.
LEMMA EncodeDrops ==
  ASSUME Base, Drops, NEW h \in Handlers, Encode(h) PROVE Drops'
<1>0. PICK i : i = hnd[h].conn.conn OBVIOUS
<1>. DEFINE c == conns[i]
            t == hnd[h].t
            q == Append(c.req, t)
<1>1. UNCHANGED <<eof, targetList, deaths, status>> BY DEF Encode
<1>2. /\ i \in 1..Len(conns) /\ c.to = hnd[h].to /\ t \in Tuples
      /\ Only(h) /\ hnd[h].pc = "send" /\ c.lock \in {0, h}
  BY <1>0, EncodeStep DEF Base
<1>3. ASSUME ~c.open PROVE c.to \in deaths BY <1>2, <1>3 DEF Drops, ClosedAreDead
<1>4. ASSUME hnd'[h] = [hnd[h] EXCEPT !.pc = "wait"]
      PROVE  /\ hnd'[h].pc = "wait" /\ hnd'[h].try = hnd[h].try /\ hnd'[h].conn = hnd[h].conn
             /\ hnd'[h].t = t /\ Tries(h)'
  BY <1>4, HandlerTypes DEF HandlerStates, Base, Tries
<1>5. CASE c.open /\ Touched(i, h, q, c.ack) /\ lost' = lost
           /\ hnd'[h] = [hnd[h] EXCEPT !.pc = "wait"]
  <2>1. ASSUME status = "up", c.to \notin deaths PROVE Orderly(conns[i])'
    <3>1. Orderly(c) BY <1>2, <2>1 DEF Drops, Traffic
    <3>2. c.ack \in Seq(Tags) /\ c.req \in Seq(Tags) /\ t \in Tags BY <1>2, ConnTypes DEF Base, Tags
    <3>3. /\ conns'[i].lock = h /\ conns'[i].req = q /\ conns'[i].ack = c.ack /\ conns'[i].to = c.to
      BY <1>5 DEF Touched
    <3>4. /\ hnd'[h].pc = "wait" /\ hnd'[h].try = hnd[h].try /\ hnd'[h].t = t
      BY <1>4, <1>5
    <3>5. /\ Load(c.ack, c.req) \in Nat /\ Load(c.ack, q) = Load(c.ack, c.req) + 1
          /\ From(c.ack, q, Load(c.ack, q) - 1, t)
          /\ From(c.ack, c.req, 0, t) => From(c.ack, q, 0, t)
      <4>. HIDE DEF c, t
      <4>. QED BY <3>2, SendLoad
    <3>6. h # 0 BY EmitAssumption
    <3>7. Load(c.ack, c.req) <= 1 /\ (Owed(c.to) => Load(c.ack, c.req) = 0)
          /\ (hnd[h].try = 1 \/ (hnd[h].try = 2 /\ From(c.ack, c.req, 0, t)))
      <4>1. CASE c.lock = 0
        <5>1. ~Tries(h) BY <1>0, <1>2, <3>6, <4>1 DEF Drops, Locked
        <5>2. ~(hnd[h].try > 1) BY <1>2, <5>1 DEF Tries
        <5>3. hnd[h].try = 1 BY <5>2, HandlerTypes DEF Base
        <5>. QED BY <3>1, <4>1, <5>3 DEF Orderly
      <4>2. CASE c.lock = h
        <5>1. Tries(h) BY <1>0, <1>2, <3>6, <4>2 DEF Drops, Locked
        <5>2. hnd[h].try > 1 BY <1>2, <5>1 DEF Tries
        <5>3. hnd[h].try <= 2 BY <3>1, <3>6, <4>2 DEF Orderly
        <5>4. hnd[h].try = 2 BY <5>2, <5>3, HandlerTypes DEF Base
        <5>5. Load(c.ack, c.req) <= 1 /\ (Owed(c.to) => Load(c.ack, c.req) = 0) /\ From(c.ack, c.req, 0, t)
          BY <1>2, <3>1, <3>6, <4>2 DEF Orderly
        <5>. QED BY <5>4, <5>5
      <4>. QED BY <1>2, <4>1, <4>2
    <3>8. Owed(conns[i].to)' => Owed(c.to) BY <1>1, <3>3 DEF Owed
    <3>9. Load(c.ack, q) <= 2 /\ (Owed(c.to) => Load(c.ack, q) <= 1) BY <3>5, <3>7
    <3>10. hnd[h].try <= 2 BY <3>7
    <3>11. From(c.ack, q, IF hnd[h].try = 1 THEN Load(c.ack, q) - 1 ELSE 0, t) BY <3>5, <3>7
    <3>. HIDE DEF q, t
    <3>. QED BY <3>3, <3>4, <3>6, <3>8, <3>9, <3>10, <3>11 DEF Orderly
  <2>2. DropsNeedDeath' BY <1>1, <1>5 DEF Drops, DropsNeedDeath
  <2>3. /\ hnd'[h].pc = "wait" /\ Tries(h)' /\ hnd'[h].conn.conn = i BY <1>0, <1>4, <1>5
  <2>. HIDE DEF q
  <2>. QED BY <1>0, <1>1, <1>2, <1>5, <2>1, <2>2, <2>3, AttemptDrops
<1>6. CASE /\ ~c.open /\ Touched(i, h, c.req, c.ack) /\ lost' = lost
           /\ hnd'[h] = [hnd[h] EXCEPT !.pc = "wait"]
  <2>2. DropsNeedDeath' BY <1>1, <1>6 DEF Drops, DropsNeedDeath
  <2>3. /\ hnd'[h].pc = "wait" /\ Tries(h)' /\ hnd'[h].conn.conn = i BY <1>0, <1>4, <1>6
  <2>. QED BY <1>0, <1>1, <1>2, <1>3, <1>6, <2>2, <2>3, AttemptDrops
<1>7. CASE ~c.open /\ Touched(i, h, c.req, c.ack) /\ Again(h)
  <2>1. lost' = lost BY <1>7 DEF Again
  <2>2. DropsNeedDeath' BY <1>1, <2>1 DEF Drops, DropsNeedDeath
  <2>3. /\ hnd'[h].pc = "send" /\ Tries(h)' /\ hnd'[h].conn.conn = i BY <1>0, <1>7, RetryTries
  <2>. QED BY <1>0, <1>1, <1>2, <1>3, <1>7, <2>2, <2>3, AttemptDrops
<1>8. CASE ~c.open /\ Touched(i, 0, c.req, c.ack) /\ Over(h)
  <2>1. lost' = lost \cup {<<hnd[h].t, hnd[h].to>>} BY <1>8 DEF Over
  <2>2. DropsNeedDeath' BY <1>1, <1>2, <1>3, <1>8, <2>1 DEF Drops, DropsNeedDeath
  <2>3. /\ hnd'[h].pc = "idle" /\ ~Tries(h)' BY <1>8, RetryTries
  <2>. QED BY <1>0, <1>1, <1>2, <1>3, <1>8, <2>2, <2>3, AttemptDrops
<1>. QED BY <1>0, <1>5, <1>6, <1>7, <1>8, EncodeStep DEF Base

\* The answer left over costs the first attempt; the next ack is the tuple's own,
\* so that no attempt beyond the second is needed.
LEMMA DecodeDrops ==
  ASSUME MaxTries >= 2, Base, Drops, NEW h \in Handlers, Decode(h) PROVE Drops'
<1>0. PICK i : i = hnd[h].conn.conn OBVIOUS
<1>. DEFINE c == conns[i]
            t == hnd[h].t
            r == Tail(c.ack)
<1>1. UNCHANGED <<eof, targetList, deaths>> /\ status = "up" BY DEF Decode
<1>2. /\ i \in 1..Len(conns) /\ c.to = hnd[h].to /\ t \in Tuples /\ hnd[h].pc = "wait"
  BY <1>0, DecodeStep DEF Base
<1>3. ASSUME ~c.open PROVE c.to \in deaths BY <1>2, <1>3 DEF Drops, ClosedAreDead
<1>4. c.lock = h /\ h # 0 BY <1>0, <1>2, EmitAssumption DEF Drops, Locked, Tries
<1>5. c.ack \in Seq(Tags) /\ c.req \in Seq(Tags) /\ t \in Tags BY <1>2, ConnTypes DEF Base, Tags
<1>6. ASSUME c.to \notin deaths
      PROVE  /\ hnd[h].try <= 2 /\ Load(c.ack, c.req) <= 2 /\ (Owed(c.to) => Load(c.ack, c.req) <= 1)
             /\ From(c.ack, c.req, IF hnd[h].try = 1 THEN Load(c.ack, c.req) - 1 ELSE 0, t)
  <2>1. Orderly(c) BY <1>1, <1>2, <1>6 DEF Drops, Traffic
  <2>. QED BY <1>2, <1>4, <2>1 DEF Orderly
<1>7. ASSUME c.ack # <<>>
      PROVE  /\ Load(c.ack, c.req) \in Nat /\ Load(c.ack, c.req) >= 1
             /\ Load(r, c.req) \in Nat /\ Load(r, c.req) = Load(c.ack, c.req) - 1
             /\ From(c.ack, c.req, 0, t) => Head(c.ack) = t
             /\ From(c.ack, c.req, 1, t) => From(r, c.req, 0, t)
  <2>. HIDE DEF c, t
  <2>. QED BY <1>5, <1>7, ReadLoad
<1>8. CASE status' = "panicked" /\ hnd' = hnd /\ conns' = conns /\ lost' = lost
  <2>1. NoNewDebt BY <1>1, SameDebt
  <2>2. DistinctLists' BY <1>1 DEF Drops, DistinctLists
  <2>. QED BY <1>1, <1>8, <2>1, <2>2, QuietDrops DEF Same
<1>9. CASE /\ Only(h) /\ Quit(h) /\ status' = status /\ lost' = lost
           /\ c.ack # <<>> /\ Head(c.ack) = hnd[h].t
           /\ Touched(i, 0, c.req, r)
  <2>1. ASSUME c.to \notin deaths PROVE Orderly(conns[i])'
    <3>1. conns'[i].lock = 0 /\ conns'[i].req = c.req /\ conns'[i].ack = r /\ conns'[i].to = c.to
      BY <1>9 DEF Touched
    <3>2. Owed(conns[i].to)' => Owed(c.to) BY <1>1, <3>1 DEF Owed
    <3>3. Load(r, c.req) <= 1 /\ (Owed(c.to) => Load(r, c.req) = 0) BY <1>6, <1>7, <1>9, <2>1
    <3>. QED BY <3>1, <3>2, <3>3 DEF Orderly
  <2>2. DropsNeedDeath' BY <1>1, <1>9 DEF Drops, DropsNeedDeath
  <2>3. hnd'[h].pc = "idle" /\ ~Tries(h)' BY <1>9, QuitBase DEF Base, Tries
  <2>. HIDE DEF r
  <2>. QED BY <1>0, <1>1, <1>2, <1>4, <1>9, <2>1, <2>2, <2>3, AttemptDrops
<1>10. ASSUME c.ack # <<>>, Head(c.ack) # t, c.to \notin deaths
       PROVE  hnd[h].try = 1 /\ From(r, c.req, 0, t) /\ Load(r, c.req) = 1 /\ ~Owed(c.to)
  <2>1. hnd[h].try = 1 BY <1>6, <1>7, <1>10
  <2>2. Load(c.ack, c.req) - 1 # 0 BY <1>6, <1>7, <1>10, <2>1
  <2>3. Load(c.ack, c.req) = 2 BY <1>6, <1>7, <1>10, <2>2
  <2>4. Load(c.ack, c.req) - 1 = 1 BY <2>3
  <2>5. From(c.ack, c.req, 1, t) BY <1>6, <1>10, <2>1, <2>4
  <2>. QED BY <1>6, <1>7, <1>10, <2>1, <2>3, <2>4, <2>5
<1>11. CASE Only(h) /\ status' = status /\ c.ack # <<>> /\ Head(c.ack) # t /\ Touched(i, h, c.req, r) /\ Again(h)
  <2>1. ASSUME c.to \notin deaths PROVE Orderly(conns[i])'
    <3>1. conns'[i].lock = h /\ conns'[i].req = c.req /\ conns'[i].ack = r /\ conns'[i].to = c.to
      BY <1>11 DEF Touched
    <3>2. Owed(conns[i].to)' => Owed(c.to) BY <1>1, <3>1 DEF Owed
    <3>3. hnd[h].try = 1 /\ From(r, c.req, 0, t) /\ Load(r, c.req) = 1 /\ ~Owed(c.to) BY <1>10, <1>11, <2>1
    <3>4. hnd'[h].try = hnd[h].try + 1 /\ hnd'[h].pc = "send" /\ hnd'[h].t = t BY <1>11, AgainFacts DEF Base
    <3>5. hnd'[h].try = 2 BY <3>3, <3>4
    <3>. HIDE DEF r, t
    <3>. QED BY <1>4, <3>1, <3>2, <3>3, <3>4, <3>5 DEF Orderly
  <2>2. lost' = lost BY <1>11 DEF Again
  <2>3. DropsNeedDeath' BY <1>1, <2>2 DEF Drops, DropsNeedDeath
  <2>4. /\ hnd'[h].pc = "send" /\ Tries(h)' /\ hnd'[h].conn.conn = i BY <1>0, <1>11, RetryTries
  <2>. HIDE DEF r
  <2>. QED BY <1>0, <1>1, <1>2, <1>4, <1>11, <2>1, <2>3, <2>4, AttemptDrops
<1>12. CASE Only(h) /\ status' = status /\ c.ack # <<>> /\ Head(c.ack) # t /\ Touched(i, 0, c.req, r) /\ Over(h)
  <2>1. c.to \in deaths BY <1>10, <1>12 DEF Over
  <2>2. lost' = lost \cup {<<hnd[h].t, hnd[h].to>>} BY <1>12 DEF Over
  <2>3. DropsNeedDeath' BY <1>1, <1>2, <2>1, <2>2 DEF Drops, DropsNeedDeath
  <2>4. /\ hnd'[h].pc = "idle" /\ ~Tries(h)' BY <1>12, RetryTries
  <2>. HIDE DEF r
  <2>. QED BY <1>0, <1>1, <1>2, <1>4, <1>12, <2>1, <2>3, <2>4, AttemptDrops
<1>13. CASE Only(h) /\ status' = status /\ ~c.open /\ Touched(i, h, c.req, c.ack) /\ Again(h)
  <2>2. lost' = lost BY <1>13 DEF Again
  <2>3. DropsNeedDeath' BY <1>1, <2>2 DEF Drops, DropsNeedDeath
  <2>4. /\ hnd'[h].pc = "send" /\ Tries(h)' /\ hnd'[h].conn.conn = i BY <1>0, <1>13, RetryTries
  <2>. QED BY <1>0, <1>1, <1>2, <1>3, <1>4, <1>13, <2>3, <2>4, AttemptDrops
<1>14. CASE Only(h) /\ status' = status /\ ~c.open /\ Touched(i, 0, c.req, c.ack) /\ Over(h)
  <2>2. lost' = lost \cup {<<hnd[h].t, hnd[h].to>>} BY <1>14 DEF Over
  <2>3. DropsNeedDeath' BY <1>1, <1>2, <1>3, <1>14, <2>2 DEF Drops, DropsNeedDeath
  <2>4. /\ hnd'[h].pc = "idle" /\ ~Tries(h)' BY <1>14, RetryTries
  <2>. QED BY <1>0, <1>1, <1>2, <1>3, <1>4, <1>14, <2>3, <2>4, AttemptDrops
<1>. QED BY <1>0, <1>8, <1>9, <1>11, <1>12, <1>13, <1>14, DecodeStep DEF Base

\* The lock stays when only requests and acks change.
LEMMA TouchedLocks ==
  ASSUME Typing, NEW i \in 1..Len(conns), NEW q, NEW a, Touched(i, conns[i].lock, q, a)
  PROVE  SameLocks
<1>1. Len(conns) \in Nat BY LenProperties DEF Typing
<1>. QED BY <1>1 DEF SameLocks, Touched

\* The marker goes out on a connection on which nothing is under way.
LEMMA BroadcastSendDrops ==
  ASSUME Base, Drops, BroadcastSend PROVE Drops'
<1>0. PICK i : i = eof.conn OBVIOUS
<1>. DEFINE c == conns[i]
            q == Append(c.req, EOF)
<1>1. UNCHANGED <<hnd, targetList, deaths, status, lost>> BY DEF BroadcastSend
<1>2. /\ i \in 1..Len(conns) /\ eof.left # <<>> /\ eof.broadcast = "send" /\ c.lock = 0
      /\ eof'.broadcast = "next" /\ eof'.left = Tail(eof.left)
  BY <1>0, BroadcastSendStep DEF Base
<1>3. c.to = Head(eof.left) BY <1>0, <1>2 DEF Base, BroadcastAimed
<1>4. /\ NoNewDebt /\ Distinct(eof'.left)
      /\ \A k \in 1..Len(eof'.left) : eof'.left[k] # c.to
  BY <1>2, <1>3, TailDebt DEF Drops
<1>5. DistinctLists' BY <1>1, <1>4 DEF Drops, DistinctLists
<1>6. \A g \in Handlers : Same(g) BY <1>1 DEF Same
<1>7. DropsNeedDeath' BY <1>1 DEF Drops, DropsNeedDeath
<1>8. CASE conns' = conns BY <1>1, <1>4, <1>5, <1>6, <1>8, QuietDrops
<1>9. CASE Touched(i, 0, q, c.ack)
  <2>. HIDE DEF q
  <2>1. SameLocks BY <1>2, <1>9, TouchedLocks DEF Base
  <2>2. Locked' BY <1>6, <2>1, LockedQuiet DEF Drops
  <2>3. ClosedAreDead' BY <1>1, <1>2, <1>9, ClosedTouched DEF Drops
  <2>4. ASSUME status = "up", c.to \notin deaths PROVE Orderly(conns[i])'
    <3>1. Orderly(c) BY <1>2, <2>4 DEF Drops, Traffic
    <3>2. eof.left \in Seq(Targets) BY DEF Base, Typing, EOFStates
    <3>3. Len(eof.left) \in Nat /\ Len(eof.left) # 0 BY <1>2, <3>2, EmptySeq, LenProperties
    <3>4. 1 \in 1..Len(eof.left) /\ eof.left[1] = c.to BY <1>3, <3>2, <3>3
    <3>5. Owed(c.to) BY <3>4 DEF Owed
    <3>6. Load(c.ack, c.req) = 0 BY <1>2, <3>1, <3>5 DEF Orderly
    <3>7. c.ack \in Seq(Tags) /\ c.req \in Seq(Tags) /\ EOF \in Tags BY <1>2, ConnTypes DEF Base, Tags
    <3>8. Load(c.ack, q) = Load(c.ack, c.req) + 1
      <4>. HIDE DEF c
      <4>. QED BY <3>7, SendLoad DEF q
    <3>9. Load(c.ack, q) = 1 BY <3>6, <3>8
    <3>10. conns'[i].lock = 0 /\ conns'[i].req = q /\ conns'[i].ack = c.ack /\ conns'[i].to = c.to
      BY <1>9 DEF Touched
    <3>11. ~Owed(conns[i].to)' BY <1>2, <1>4, <3>10 DEF Owed
    <3>. QED BY <3>9, <3>10, <3>11 DEF Orderly
  <2>5. \A j \in 1..Len(conns) \ {i} : conns[j].lock # 0 => Same(conns[j].lock)
    BY <1>6, Holder DEF Drops
  <2>6. Traffic' BY <1>1, <1>2, <1>4, <1>9, <2>4, <2>5, TrafficTouched DEF Drops
  <2>. QED BY <1>5, <1>7, <2>2, <2>3, <2>6 DEF Drops
<1>. QED BY <1>0, <1>8, <1>9, BroadcastSendStep DEF Base

\* An answer takes the place of its request.
LEMMA ServeDrops ==
  ASSUME Base, Drops, NEW i \in 1..Len(conns), Serve(i) PROVE Drops'
<1>. DEFINE c == conns[i]
            t == Head(c.req)
            q == Tail(c.req)
            a == Append(c.ack, t)
<1>1. UNCHANGED <<hnd, targetList, deaths, status, lost, eof>> BY DEF Serve
<1>2. /\ c.req # <<>>
      /\ \/ status = "up" /\ Touched(i, c.lock, q, a)
         \/ status # "up" /\ Touched(i, c.lock, q, c.ack)
  BY ServeStep DEF Base
<1>3. NoNewDebt BY <1>1, SameDebt
<1>4. DistinctLists' BY <1>1 DEF Drops, DistinctLists
<1>5. \A g \in Handlers : Same(g) BY <1>1 DEF Same
<1>6. DropsNeedDeath' BY <1>1 DEF Drops, DropsNeedDeath
<1>7. c.ack \in Seq(Tags) /\ c.req \in Seq(Tags) BY ConnTypes DEF Base
<1>8. /\ Load(a, q) = Load(c.ack, c.req) /\ Load(c.ack, c.req) \in Nat
      /\ \A p \in Int : \A x : From(c.ack, c.req, p, x) => From(a, q, p, x)
  <2>1. c.req # <<>> BY <1>2
  <2>. HIDE DEF c
  <2>. DEFINE y == c.ack
              z == c.req
  <2>4. y \in Seq(Tags) /\ z \in Seq(Tags) /\ z # <<>> BY <1>7, <2>1
  <2>. HIDE DEF y, z
  <2>5. ASSUME NEW p \in Int, NEW x
        PROVE  /\ Load(Append(y, Head(z)), Tail(z)) = Load(y, z)
               /\ From(y, z, p, x) => From(Append(y, Head(z)), Tail(z), p, x)
    BY <2>4, ServeLoad
  <2>6. 0 \in Int OBVIOUS
  <2>2. /\ Load(a, q) = Load(c.ack, c.req)
        /\ \A p \in Int : \A x : From(c.ack, c.req, p, x) => From(a, q, p, x)
    BY <2>5, <2>6 DEF y, z
  <2>3. Load(c.ack, c.req) \in Nat BY <1>7, LoadNat
  <2>. QED BY <2>2, <2>3
<1>. HIDE DEF q, a
<1>9. ASSUME NEW x, Touched(i, c.lock, q, x), status = "up" /\ c.to \notin deaths => Orderly(conns[i])'
      PROVE  Drops'
  <2>1. SameLocks BY <1>9, TouchedLocks DEF Base
  <2>2. Locked' BY <1>5, <2>1, LockedQuiet DEF Drops
  <2>3. ClosedAreDead' BY <1>1, <1>9, ClosedTouched DEF Drops
  <2>4. \A j \in 1..Len(conns) \ {i} : conns[j].lock # 0 => Same(conns[j].lock)
    BY <1>5, Holder DEF Drops
  <2>5. Traffic' BY <1>1, <1>3, <1>9, <2>4, TrafficTouched DEF Drops
  <2>. QED BY <1>4, <1>6, <2>2, <2>3, <2>5 DEF Drops
<1>10. CASE status # "up" /\ Touched(i, c.lock, q, c.ack) BY <1>9, <1>10
<1>11. CASE status = "up" /\ Touched(i, c.lock, q, a)
  <2>1. ASSUME c.to \notin deaths PROVE Orderly(conns[i])'
    <3>1. Orderly(c) BY <1>11, <2>1 DEF Drops, Traffic
    <3>2. conns'[i].lock = c.lock /\ conns'[i].req = q /\ conns'[i].ack = a /\ conns'[i].to = c.to
      BY <1>11 DEF Touched
    <3>3. Owed(conns[i].to)' => Owed(c.to) BY <1>1, <3>2 DEF Owed
    <3>4. c.lock = 0 => Load(a, q) <= 1 /\ (Owed(c.to) => Load(a, q) = 0) BY <1>8, <3>1 DEF Orderly
    <3>5. CASE c.lock = 0 BY <3>2, <3>3, <3>4, <3>5 DEF Orderly
    <3>6. CASE c.lock # 0
      <4>. DEFINE g == hnd[c.lock]
                  p == IF g.try = 1 THEN Load(c.ack, c.req) - 1 ELSE 0
      <4>1. g.try <= 2 /\ hnd' = hnd BY <1>1, <3>1, <3>6 DEF Orderly
      <4>2. p \in Int BY <1>8
      <4>3. g.pc = "wait" => /\ Load(a, q) <= 2 /\ (Owed(c.to) => Load(a, q) <= 1)
                             /\ From(a, q, IF g.try = 1 THEN Load(a, q) - 1 ELSE 0, g.t)
        <5>. SUFFICES ASSUME g.pc = "wait"
                      PROVE  /\ Load(a, q) <= 2 /\ (Owed(c.to) => Load(a, q) <= 1)
                             /\ From(a, q, IF g.try = 1 THEN Load(a, q) - 1 ELSE 0, g.t)
          OBVIOUS
        <5>1. /\ Load(c.ack, c.req) <= 2 /\ (Owed(c.to) => Load(c.ack, c.req) <= 1)
              /\ From(c.ack, c.req, p, g.t)
          BY <3>1, <3>6 DEF Orderly
        <5>2. From(a, q, p, g.t)
          <6>. HIDE DEF p
          <6>. QED BY <1>8, <4>2, <5>1
        <5>. QED BY <1>8, <5>1, <5>2
      <4>4. g.pc = "send" => /\ Load(a, q) <= 1 /\ (Owed(c.to) => Load(a, q) = 0)
                             /\ From(a, q, 0, g.t)
        BY <1>8, <3>1, <3>6 DEF Orderly
      <4>. QED BY <3>2, <3>3, <3>6, <4>1, <4>3, <4>4 DEF Orderly
    <3>. QED BY <3>5, <3>6
  <2>. QED BY <1>9, <1>11, <2>1
<1>. QED BY <1>2, <1>10, <1>11

\* A death touches the connections to the dead target only.
LEMMA DiesDrops ==
  ASSUME Base, Drops, NEW a \in Targets, TargetDies(a) PROVE Drops'
<1>1. UNCHANGED <<hnd, targetList, status, lost, eof>> BY DEF TargetDies
<1>2. /\ conns' \in Seq(Connections) /\ Len(conns') = Len(conns)
      /\ \A j \in 1..Len(conns) : conns[j].to # a => conns'[j] = conns[j]
      /\ \A j \in 1..Len(conns) : conns[j].to = a => conns'[j].to = a /\ conns'[j].lock = conns[j].lock
      /\ deaths' = deaths \cup {a}
  BY DiesStep DEF Base
<1>3. NoNewDebt BY <1>1, SameDebt
<1>4. DistinctLists' BY <1>1 DEF Drops, DistinctLists
<1>5. \A g \in Handlers : Same(g) BY <1>1 DEF Same
<1>6. DropsNeedDeath' BY <1>1, <1>2 DEF Drops, DropsNeedDeath
<1>7. Len(conns) \in Nat BY LenProperties DEF Base, Typing
<1>8. SameLocks BY <1>2, <1>7 DEF SameLocks
<1>9. Locked' BY <1>5, <1>8, LockedQuiet DEF Drops
<1>10. ClosedAreDead' BY <1>2 DEF Drops, ClosedAreDead
<1>11. Traffic'
  <2>. SUFFICES ASSUME status' = "up", NEW i \in 1..Len(conns'), conns'[i].to \notin deaths'
                PROVE  Orderly(conns[i])'
    BY DEF Traffic
  <2>1. i \in 1..Len(conns) BY <1>2
  <2>2. conns[i].to # a BY <1>2, <2>1
  <2>3. conns'[i] = conns[i] BY <1>2, <2>1, <2>2
  <2>4. Orderly(conns[i]) BY <1>1, <1>2, <2>1, <2>3 DEF Drops, Traffic
  <2>5. conns[i].lock # 0 => Same(conns[i].lock) BY <1>5, <2>1, Holder DEF Drops
  <2>. QED BY <1>3, <2>1, <2>3, <2>4, <2>5, OrderlyKept
<1>. QED BY <1>4, <1>6, <1>9, <1>10, <1>11 DEF Drops

\* The end of a stream changes no connection; it may start the broadcast.
LEMMA EOFStepDrops ==
  ASSUME Base, Drops, NEW h \in Handlers, EOFStep(h) PROVE Drops'
<1>1. UNCHANGED <<conns, deaths, status, lost, targetList>>
  BY DEF EOFStep, CheckFlushed, StartFlush, EndFlush, CountEOF
<1>2. Only(h) /\ Same(h)
  <2>1. CASE CheckFlushed(h)
    <3>. DEFINE p == IF op = "count" /\ ~flushed THEN "toflush" ELSE "mark"
    <3>1. Only(h) /\ hnd'[h] = [hnd[h] EXCEPT !.ph = p] BY <2>1, CheckStep DEF Base
    <3>. HIDE DEF p
    <3>. QED BY <3>1, HandlerTypes DEF HandlerStates, Same, Base
  <2>2. CASE StartFlush(h)
    <3>1. Only(h) /\ hnd'[h] = [hnd[h] EXCEPT !.ph = "flush", !.work = Outputs(h)]
      BY <2>2, StartFlushStep DEF Base
    <3>. QED BY <3>1, HandlerTypes DEF HandlerStates, Same, Base
  <2>3. CASE EndFlush(h)
    <3>1. Only(h) /\ hnd'[h] = [hnd[h] EXCEPT !.ph = "mark"] BY <2>3, EndFlushStep DEF Base
    <3>. QED BY <3>1, HandlerTypes DEF HandlerStates, Same, Base
  <2>4. CASE CountEOF(h)
    <3>1. Only(h) /\ hnd'[h] = [hnd[h] EXCEPT !.ph = "done"] BY <2>4, CountStep DEF Base
    <3>. QED BY <3>1, HandlerTypes DEF HandlerStates, Same, Base
  <2>. QED BY <2>1, <2>2, <2>3, <2>4 DEF EOFStep
<1>3. \A g \in Handlers : Same(g) BY <1>2 DEF Only, Same
<1>4. \/ eof'.broadcast = eof.broadcast /\ eof'.left = eof.left
      \/ eof.broadcast = "no" /\ eof'.left = targetList
  <2>1. CASE CountEOF(h) BY <2>1, CountStep DEF Base
  <2>2. CASE eof' = eof BY <2>2
  <2>. QED BY <2>1, <2>2 DEF EOFStep, CheckFlushed, StartFlush, EndFlush
<1>5. NoNewDebt BY <1>4, SameDebt
<1>6. DistinctLists' BY <1>1, <1>4 DEF Drops, DistinctLists
<1>. QED BY <1>1, <1>3, <1>5, <1>6, QuietDrops

\* The other steps of the broadcast, the timer and the exit.
LEMMA BroadcastDrops ==
  ASSUME Base, Drops, BroadcastLookup \/ BroadcastEnd \/ EOFTimeout \/ Exit PROVE Drops'
<1>1. UNCHANGED <<hnd, targetList, deaths, lost>> /\ (status' = "up" => status = "up")
  BY DEF BroadcastLookup, BroadcastEnd, EOFTimeout, Exit
<1>2. \A g \in Handlers : Same(g) BY <1>1 DEF Same
<1>3. /\ conns' = conns \/ \E a \in Targets, d \in BOOLEAN : Connect(a, d)
      /\ NoNewDebt /\ Distinct(eof'.left)
  <2>1. CASE BroadcastLookup
    <3>1. Head(eof.left) \in Targets /\ eof.left # <<>> /\ eof.broadcast = "next"
      BY <2>1, BroadcastLookupStep DEF Base
    <3>2. /\ conns' = conns \/ \E a \in Targets, d \in BOOLEAN : Connect(a, d)
          /\ eof'.broadcast # "no" /\ (eof'.left = eof.left \/ eof'.left = Tail(eof.left))
      BY <2>1, <3>1, BroadcastLookupStep DEF Base
    <3>3. CASE eof'.left = eof.left BY <3>1, <3>2, <3>3, SameDebt DEF Drops, DistinctLists
    <3>4. CASE eof'.left = Tail(eof.left) BY <3>1, <3>2, <3>4, TailDebt DEF Drops
    <3>. QED BY <3>2, <3>3, <3>4
  <2>2. CASE BroadcastEnd
    <3>1. conns' = conns BY <2>2 DEF BroadcastEnd
    <3>2. eof'.broadcast # "no" /\ eof'.left = eof.left /\ eof.broadcast # "no"
      BY <2>2, BroadcastEndStep DEF Base
    <3>. QED BY <3>1, <3>2, SameDebt DEF Drops, DistinctLists
  <2>3. CASE EOFTimeout
    <3>1. conns' = conns BY <2>3 DEF EOFTimeout
    <3>2. \/ eof'.broadcast = eof.broadcast /\ eof'.left = eof.left
          \/ eof.broadcast = "no" /\ eof'.left = targetList
      BY <2>3, TimeoutStep DEF Base
    <3>. QED BY <3>1, <3>2, SameDebt DEF Drops, DistinctLists
  <2>4. CASE Exit
    <3>1. conns' = conns /\ eof' = eof BY <2>4 DEF Exit
    <3>. QED BY <3>1, SameDebt DEF Drops, DistinctLists
  <2>. QED BY <2>1, <2>2, <2>3, <2>4
<1>4. DistinctLists' BY <1>1, <1>3 DEF Drops, DistinctLists
<1>. QED BY <1>1, <1>2, <1>3, <1>4, QuietDrops

\* Routing updates, their connections, and restarts.
LEMMA OtherDrops ==
  ASSUME Base, Drops, \A u \in Updates : Distinct(u),
         \/ \E list \in Updates : RoutingUpdate(list)
         \/ \E a \in Targets : RoutingDial(a) \/ TargetRestarts(a)
         \/ \E i \in 1..Len(conns) : Accept(i)
         \/ UNCHANGED vars
  PROVE  Drops'
<1>1. /\ UNCHANGED <<hnd, eof, deaths, lost, status>>
      /\ conns' = conns \/ \E a \in Targets : Connect(a, TRUE)
      /\ targetList' = targetList \/ targetList' \in Updates
  BY DEF RoutingUpdate, RoutingDial, TargetRestarts, Accept, vars
<1>2. \A g \in Handlers : Same(g) BY <1>1 DEF Same
<1>3. NoNewDebt BY <1>1, SameDebt
<1>4. DistinctLists' BY <1>1 DEF Drops, DistinctLists
<1>5. conns' = conns \/ \E a \in Targets, d \in BOOLEAN : Connect(a, d) BY <1>1
<1>. QED BY <1>1, <1>2, <1>3, <1>4, <1>5, QuietDrops

\* Nothing is under way when the task starts.
LEMMA InitDrops == Distinct(FirstList) /\ Init => Drops
<1>. SUFFICES ASSUME Distinct(FirstList), Init PROVE Drops
  OBVIOUS
<1>1. /\ lost = {} /\ targetList = FirstList /\ eof.left = <<>>
      /\ hnd = [h \in Handlers |-> NewHandler(IF op = "pass" THEN Outputs(h) ELSE {})]
      /\ conns = [i \in 1..Len(FirstList) |-> NewConn(FirstList[i])]
  BY DEF Init
<1>2. \A h \in Handlers : hnd[h].pc = "idle" BY <1>1 DEF NewHandler
<1>3. ASSUME NEW i \in 1..Len(conns) PROVE conns[i].open /\ conns[i].lock = 0 /\ Orderly(conns[i])
  <2>1. Base BY InitBase
  <2>2. DOMAIN conns = 1..Len(conns) BY <2>1, LenProperties DEF Base, Typing
  <2>3. DOMAIN conns = 1..Len(FirstList) BY <1>1
  <2>4. conns[i] = NewConn(FirstList[i]) BY <1>1, <2>2, <2>3
  <2>5. conns[i].open /\ conns[i].lock = 0 /\ conns[i].ack = <<>> /\ conns[i].req = <<>>
    BY <2>4 DEF NewConn
  <2>6. Load(<<>>, <<>>) = 0 BY DEF Load
  <2>. QED BY <2>5, <2>6 DEF Orderly
<1>4. Distinct(<<>>) BY DEF Distinct
<1>5. DistinctLists BY <1>1, <1>4 DEF DistinctLists
<1>6. Locked BY <1>2, <1>3 DEF Locked, Tries
<1>7. ClosedAreDead /\ Traffic BY <1>3 DEF ClosedAreDead, Traffic
<1>. QED BY <1>1, <1>5, <1>6, <1>7 DEF Drops, DropsNeedDeath

\* Every step keeps the connections in order.
LEMMA StepDrops ==
  ASSUME MaxTries >= 2, \A u \in Updates : Distinct(u)
  PROVE  Base /\ Service /\ Drops /\ [Next]_vars => Drops'
<1>. SUFFICES ASSUME Base, Service, Drops, [Next]_vars PROVE Drops'
  OBVIOUS
<1>1. ASSUME NEW h \in Handlers, EmitStep(h) PROVE Drops'
  BY <1>1, RouteDrops, LookupDrops, DialDrops, EncodeDrops, DecodeDrops DEF EmitStep
<1>2. CASE BroadcastStep \/ EOFTimeout \/ Exit
  BY <1>2, BroadcastDrops, BroadcastSendDrops DEF BroadcastStep
<1>3. ASSUME NEW h \in Handlers, EOFStep(h) PROVE Drops' BY <1>3, EOFStepDrops
<1>4. CASE \/ \E list \in Updates : RoutingUpdate(list)
           \/ \E a \in Targets : RoutingDial(a) \/ TargetRestarts(a)
           \/ UNCHANGED vars
  BY <1>4, OtherDrops
<1>5. ASSUME NEW a \in Targets, TargetDies(a) PROVE Drops' BY <1>5, DiesDrops
<1>6. ASSUME NEW i \in 1..Len(conns), TargetStep(i) PROVE Drops'
  BY <1>6, ServeDrops, OtherDrops DEF TargetStep
<1>. QED BY <1>1, <1>2, <1>3, <1>4, <1>5, <1>6 DEF Next

\* A tuple is dropped only if its target has died, although the broadcast never
\* reads the acks of its markers and a repetition leaves one behind: whatever is
\* left over costs one attempt, and emit has more than one (five in the code). The
\* lists name each task once, as the leader makes them.
THEOREM DropsDeath ==
  ASSUME MaxTries >= 2, Distinct(FirstList), \A u \in Updates : Distinct(u)
  PROVE  Spec => []DropsNeedDeath
<1>1. Init => Drops BY InitDrops
<1>2. Base /\ Service /\ Drops /\ [Next]_vars => Drops' BY StepDrops
<1>3. Drops => DropsNeedDeath BY DEF Drops
<1>. QED BY <1>1, <1>2, <1>3, ServiceAlways, PTL DEF Spec

============================================================================
