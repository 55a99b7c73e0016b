---------------------------- MODULE Sim2h_proofs ----------------------------
(* Proofs about the sim2h server: type correctness, the consistency of its   *)
(* routing tables, and that it does not forget a worker that has joined.     *)
EXTENDS Sim2h, SequenceTheorems, TLAPS

-----------------------------------------------------------------------------
(* The operators of Sim2hState.                                              *)

\* Removing an element of a sequence leaves a sequence over the same set.
LEMMA RemoveAtType ==
  ASSUME NEW S, NEW q \in Seq(S), NEW i \in DOMAIN q
  PROVE  RemoveAt(q, i) \in Seq(S)
<1>1. i \in 1..Len(q) /\ Len(q) \in Nat
  OBVIOUS
<1>2. SubSeq(q, 1, i - 1) \in Seq(S)
  <2>1. \A j \in 1..(i - 1) : q[j] \in S
    BY <1>1
  <2> QED BY <1>1, <2>1, SubSeqProperties
<1>3. SubSeq(q, i + 1, Len(q)) \in Seq(S)
  <2>1. \A j \in (i + 1)..Len(q) : q[j] \in S
    BY <1>1
  <2> QED BY <1>1, <2>1, SubSeqProperties
<1> QED BY <1>2, <1>3, ConcatProperties DEF RemoveAt

\* The empty space and the empty store are well typed.
LEMMA EmptyType == EmptySpace \in Space /\ EmptyStore \in Stores
BY DEF EmptySpace, EmptyStore, Space, Stores

\* clear_holding keeps the type of the holding map.
LEMMA ClearHoldingType ==
  ASSUME NEW holding \in [Aspects -> SUBSET Agents], NEW a
  PROVE  ClearHolding(holding, a) \in [Aspects -> SUBSET Agents]
BY DEF ClearHolding

\* The parts of what check_insert_connection returns.
LEMMA InsertParts ==
  ASSUME NEW space \in Space, NEW a \in Agents, NEW u \in Uris
  PROVE  LET new == CheckInsertConnection(space, a, u) IN
         /\ new \in Space
         /\ \A b \in Agents : new.connections[b] =
              IF b = a THEN u ELSE space.connections[b]
         /\ \A v \in Uris : new.uriToConnection[v] =
              IF v = u THEN a
              ELSE IF v = space.connections[a] THEN Nil
              ELSE space.uriToConnection[v]
<1> DEFINE h == ClearHolding(space.holding, a)
<1>1. h \in [Aspects -> SUBSET Agents]
  BY ClearHoldingType DEF Space
<1> HIDE DEF h
<1> QED BY <1>1 DEF CheckInsertConnection, Space, h

\* The parts of what drop_connection_inner returns.
LEMMA DropParts ==
  ASSUME NEW space \in Space, NEW a \in Agents
  PROVE  LET new == DropConnectionInner(space, a) IN
         /\ new \in Space
         /\ \A b \in Agents : new.connections[b] =
              IF b = a THEN Nil ELSE space.connections[b]
         /\ \A v \in Uris : new.uriToConnection[v] =
              IF v = space.connections[a] THEN Nil
              ELSE space.uriToConnection[v]
<1> DEFINE h == ClearHolding(space.holding, a)
<1>1. h \in [Aspects -> SUBSET Agents]
  BY ClearHoldingType DEF Space
<1> HIDE DEF h
<1> QED BY <1>1 DEF DropConnectionInner, Space, h

\* A space is well routed if its two tables are inverse and no uri is registered
\* for another agent than the one who opened it. Without the second part a join
\* could leave the table entry of another agent behind.
WellRouted(space) ==
  /\ RoutesAgree(space)
  /\ \A u \in Uris : space.uriToConnection[u] \in {Nil, AgentOf[u]}

RoutedStore(st) == st \in Stores /\ \A s \in Spaces : WellRouted(st[s])

\* The empty store is well routed.
LEMMA EmptyRouted == RoutedStore(EmptyStore) /\ WellRouted(EmptySpace)
BY EmptyType, StateAssumption
   DEF RoutedStore, WellRouted, RoutesAgree, EmptyStore, EmptySpace, Stores

\* A join leaves the store well routed and the uri registered; of the other
\* sockets it only touches the one that the agent had in this space.
LEMMA NewConnectionRouted ==
  ASSUME NEW st, RoutedStore(st), NEW u \in Uris
  PROVE  LET s == SpaceOf[u]
             a == AgentOf[u]
             new == NewConnection(st, s, a, u)
         IN /\ RoutedStore(new)
            /\ new[s].uriToConnection[u] = a
            /\ \A v \in Uris \ {u}, z \in Spaces :
                 \/ v = st[s].connections[a]
                 \/ new[z].uriToConnection[v] = st[z].uriToConnection[v]
<1> DEFINE s == SpaceOf[u]
           a == AgentOf[u]
           old == st[s]
           new == CheckInsertConnection(old, a, u)
<1>1. s \in Spaces /\ a \in Agents /\ old \in Space /\ WellRouted(old)
  BY StateAssumption DEF RoutedStore, Stores
<1>2. /\ new \in Space
      /\ \A b \in Agents : new.connections[b] =
           IF b = a THEN u ELSE old.connections[b]
      /\ \A v \in Uris : new.uriToConnection[v] =
           IF v = u THEN a
           ELSE IF v = old.connections[a] THEN Nil
           ELSE old.uriToConnection[v]
  BY <1>1, InsertParts
<1>3. NewConnection(st, s, a, u) = [st EXCEPT ![s] = new]
  BY DEF NewConnection
<1>4. Nil \notin Agents /\ Nil \notin Uris
  BY StateAssumption
<1> HIDE DEF new, old
<1>5. WellRouted(new)
  <2>1. \A v \in Uris : new.uriToConnection[v] \in {Nil, AgentOf[v]}
    BY <1>1, <1>2 DEF WellRouted, a
  <2>2. ASSUME NEW b \in Agents, NEW v \in Uris
        PROVE  new.connections[b] = v <=> new.uriToConnection[v] = b
    <3>1. CASE b = a
      BY <1>1, <1>2, <1>4, <3>1 DEF WellRouted, RoutesAgree
    <3>2. CASE b # a
      <4>1. old.connections[b] = v <=> old.uriToConnection[v] = b
        BY <1>1 DEF WellRouted, RoutesAgree
      <4>2. old.connections[b] # u
        BY <1>1, <1>4, <3>2 DEF WellRouted, RoutesAgree, a
      <4>3. v = old.connections[a] => old.uriToConnection[v] = a
        BY <1>1 DEF WellRouted, RoutesAgree
      <4> QED BY <1>2, <1>4, <3>2, <4>1, <4>2, <4>3
    <3> QED BY <3>1, <3>2
  <2> QED BY <2>1, <2>2 DEF WellRouted, RoutesAgree
<1>6. RoutedStore([st EXCEPT ![s] = new])
  BY <1>1, <1>2, <1>5 DEF RoutedStore, Stores
<1>7. ASSUME NEW v \in Uris \ {u}, NEW z \in Spaces, v # old.connections[a]
      PROVE  [st EXCEPT ![s] = new][z].uriToConnection[v]
               = st[z].uriToConnection[v]
  BY <1>1, <1>2, <1>7 DEF RoutedStore, Stores, old
<1>8. [st EXCEPT ![s] = new][s].uriToConnection[u] = a
  BY <1>1, <1>2 DEF RoutedStore, Stores
<1> QED BY <1>3, <1>6, <1>7, <1>8 DEF old

\* Dropping the spaces without connections keeps a store well routed, and every
\* uri that was registered somewhere stays registered there.
LEMMA DropSpacesRouted ==
  ASSUME NEW st, RoutedStore(st)
  PROVE  /\ RoutedStore(CheckDropSpaces(st))
         /\ \A s \in Spaces, v \in Uris :
              CheckDropSpaces(st)[s].uriToConnection[v] = st[s].uriToConnection[v]
<1>1. RoutedStore(CheckDropSpaces(st))
  BY EmptyRouted, EmptyType DEF RoutedStore, Stores, CheckDropSpaces
<1>2. ASSUME NEW s \in Spaces, NEW v \in Uris, Connected(st[s]) = {}
      PROVE  EmptySpace.uriToConnection[v] = st[s].uriToConnection[v]
  <2>1. st[s] \in Space /\ WellRouted(st[s])
    BY DEF RoutedStore, Stores
  <2>2. ASSUME st[s].uriToConnection[v] # Nil
        PROVE  FALSE
    <3> DEFINE b == st[s].uriToConnection[v]
    <3>1. b \in Agents
      BY <2>1, <2>2 DEF Space
    <3>2. st[s].connections[b] = v
      BY <2>1, <3>1 DEF WellRouted, RoutesAgree
    <3>3. b \in Connected(st[s])
      BY <3>1, <3>2, StateAssumption DEF Connected
    <3> QED BY <1>2, <3>3
  <2> QED BY <2>2 DEF EmptySpace
<1> QED BY <1>1, <1>2 DEF CheckDropSpaces

\* A drop leaves the store well routed and the other sockets registered as they
\* were.
LEMMA DropRouted ==
  ASSUME NEW st, RoutedStore(st), NEW u \in Uris
  PROVE  /\ RoutedStore(DropConnectionByUri(st, u))
         /\ \A s \in Spaces, v \in Uris \ {u} :
              DropConnectionByUri(st, u)[s].uriToConnection[v]
                = st[s].uriToConnection[v]
<1> DEFINE new(s) == IF st[s].uriToConnection[u] = Nil THEN st[s]
                     ELSE DropConnectionInner(st[s], st[s].uriToConnection[u])
           mid == [s \in Spaces |-> new(s)]
<1>1. ASSUME NEW s \in Spaces
      PROVE  /\ new(s) \in Space
             /\ WellRouted(new(s))
             /\ \A v \in Uris \ {u} :
                  new(s).uriToConnection[v] = st[s].uriToConnection[v]
  <2> DEFINE old == st[s]
             a == old.uriToConnection[u]
             d == DropConnectionInner(old, a)
  <2>1. old \in Space /\ WellRouted(old)
    BY DEF RoutedStore, Stores
  <2>2. CASE a = Nil
    BY <2>1, <2>2
  <2>3. CASE a # Nil
    <3>1. a \in Agents /\ old.connections[a] = u
      BY <2>1, <2>3 DEF Space, WellRouted, RoutesAgree
    <3>2. /\ d \in Space
          /\ \A b \in Agents : d.connections[b] =
               IF b = a THEN Nil ELSE old.connections[b]
          /\ \A v \in Uris : d.uriToConnection[v] =
               IF v = old.connections[a] THEN Nil ELSE old.uriToConnection[v]
      BY <2>1, <3>1, DropParts
    <3>3. new(s) = d
      BY <2>3
    <3> HIDE DEF d, old, new
    <3>4. Nil \notin Agents /\ Nil \notin Uris
      BY StateAssumption
    <3>5. \A v \in Uris \ {u} : d.uriToConnection[v] = old.uriToConnection[v]
      BY <3>1, <3>2
    <3>6. \A v \in Uris : d.uriToConnection[v] \in {Nil, AgentOf[v]}
      BY <2>1, <3>2 DEF WellRouted
    <3>7. ASSUME NEW b \in Agents, NEW v \in Uris
          PROVE  d.connections[b] = v <=> d.uriToConnection[v] = b
      <4>1. old.connections[b] = v <=> old.uriToConnection[v] = b
        BY <2>1 DEF WellRouted, RoutesAgree
      <4> QED BY <3>1, <3>2, <3>4, <4>1
    <3> QED BY <3>2, <3>3, <3>5, <3>6, <3>7 DEF WellRouted, RoutesAgree, old
  <2> QED BY <2>2, <2>3
<1> HIDE DEF new
<1>2. RoutedStore(mid)
  BY <1>1 DEF RoutedStore, Stores
<1>3. DropConnectionByUri(st, u) = CheckDropSpaces(mid)
  BY DEF DropConnectionByUri, new
<1>4. \A s \in Spaces, v \in Uris \ {u} :
        mid[s].uriToConnection[v] = st[s].uriToConnection[v]
  BY <1>1
<1> HIDE DEF mid
<1> QED BY <1>2, <1>3, <1>4, DropSpacesRouted

\* Marking aspects as held touches neither table.
LEMMA HoldsRouted ==
  ASSUME NEW st, RoutedStore(st), NEW s \in Spaces, NEW a \in Agents,
         NEW xs \in SUBSET Aspects
  PROVE  LET new == AgentHoldsAspects(st, s, a, xs) IN
         /\ RoutedStore(new)
         /\ \A z \in Spaces : new[z].uriToConnection = st[z].uriToConnection
<1> DEFINE h == [x \in Aspects |-> IF x \in xs THEN st[s].holding[x] \cup {a}
                                   ELSE st[s].holding[x]]
           sp == [[st[s] EXCEPT !.aspects = @ \cup xs] EXCEPT !.holding = h]
           new == AgentHoldsAspects(st, s, a, xs)
<1>1. st \in [Spaces -> Space] /\ st[s] \in Space /\ \A z \in Spaces : WellRouted(st[z])
  BY DEF RoutedStore, Stores
<1>2. h \in [Aspects -> SUBSET Agents]
  BY <1>1 DEF Space
<1>3. new = [st EXCEPT ![s] = sp]
  BY <1>1 DEF AgentHoldsAspects, Space
<1> HIDE DEF h, new
<1>4. /\ sp \in Space
      /\ sp.connections = st[s].connections
      /\ sp.uriToConnection = st[s].uriToConnection
  BY <1>1, <1>2 DEF Space
<1> HIDE DEF sp
<1>5. WellRouted(sp)
  BY <1>1, <1>4 DEF WellRouted, RoutesAgree
<1>6. RoutedStore([st EXCEPT ![s] = sp])
  BY <1>1, <1>4, <1>5 DEF RoutedStore, Stores
<1>7. \A z \in Spaces : [st EXCEPT ![s] = sp][z].uriToConnection = st[z].uriToConnection
  BY <1>1, <1>4
<1> QED BY <1>3, <1>6, <1>7 DEF new

\* Handing out the list of replaced sockets touches neither table.
LEMMA CheckDisconnectedRouted ==
  ASSUME NEW st, RoutedStore(st)
  PROVE  /\ RoutedStore(CheckDisconnected(st))
         /\ Replaced(st) \subseteq Uris
         /\ \A z \in Spaces :
              CheckDisconnected(st)[z].uriToConnection = st[z].uriToConnection
<1>1. ASSUME NEW s \in Spaces
      PROVE  LET new == [st[s] EXCEPT !.disconnectUri = {}] IN
             /\ new \in Space
             /\ new.connections = st[s].connections
             /\ new.uriToConnection = st[s].uriToConnection
             /\ WellRouted(new)
             /\ st[s].disconnectUri \subseteq Uris
  <2>1. st[s] \in Space /\ WellRouted(st[s])
    BY DEF RoutedStore, Stores
  <2> QED BY <2>1 DEF Space, WellRouted, RoutesAgree
<1> QED BY <1>1 DEF CheckDisconnected, RoutedStore, Stores, Replaced

-----------------------------------------------------------------------------
(* Types and routing. The three places that hold a store (the store, the    *)
(* copies under way, the snapshot) are well routed; the rest has its type.  *)

RoutedWriter == {w \in Writer : RoutedStore(w.copy)}

ImInv ==
  /\ RoutedStore(store)
  /\ RoutedStore(snapshot)
  /\ publishing \in Seq(RoutedWriter)

RestOK ==
  /\ tasks \subseteq Task
  /\ sweep \in Sweep
  /\ sock \in [Uris -> {"none", "open", "closed"}]
  /\ closing \subseteq Uris
  /\ ended \subseteq Uris
  /\ client \in [Uris -> Client]
  /\ resends \in 0..MaxResends
  /\ superseded \subseteq Uris

RoutingInv == ImInv /\ RestOK

\* The initial state satisfies the invariant.
LEMMA RoutingInit == Init => RoutingInv
<1> SUFFICES ASSUME Init PROVE RoutingInv
  OBVIOUS
<1>1. ImInv
  BY EmptyRouted DEF Init, ImInv
<1>2. RestOK
  BY Sim2hBoundAssumption DEF Init, RestOK, Sweep, Client
<1> QED BY <1>1, <1>2 DEF RoutingInv

\* A mutation that results in a well-routed store keeps the three places so.
LEMMA MutateRouted ==
  ASSUME ImInv, NEW st, RoutedStore(st), NEW joins \in SUBSET Message,
         NEW swept \in BOOLEAN, Mutate(st, joins, swept), UNCHANGED snapshot
  PROVE  ImInv'
<1>1. [copy |-> st, joins |-> joins, sweep |-> swept] \in RoutedWriter
  BY DEF RoutedWriter, Writer, RoutedStore
<1> QED BY <1>1, AppendProperties DEF ImInv, Mutate

\* A receipt changes the client's record within its type.
LEMMA ReceiptType ==
  ASSUME RestOK, NEW msg \in Message, Receipt(msg)
  PROVE  client' \in [Uris -> Client]
<1>1. client \in [Uris -> Client] /\ msg.uri \in Uris
  BY DEF RestOK, Message
<1> QED BY <1>1 DEF Receipt, Client

\* Disconnecting a uri keeps the store well routed and closing a set of uris.
LEMMA DisconnectRouted ==
  ASSUME RoutingInv, NEW u \in Uris, Disconnect(u), UNCHANGED snapshot
  PROVE  ImInv' /\ closing' \subseteq Uris
<1>1. ImInv'
  BY DropRouted, MutateRouted DEF RoutingInv, ImInv, Disconnect
<1>2. closing' \subseteq Uris
  BY DEF RoutingInv, RestOK, Disconnect
<1> QED BY <1>1, <1>2

\* The steps of the workers keep the invariant.
LEMMA WorkersRouted ==
  ASSUME RoutingInv, NEW u \in Uris,
         \/ Join(u) \/ Resend(u) \/ SocketEnds(u) \/ CloseSocket(u)
         \/ \E kind \in Kinds, xs \in EntryLists \cup {{}} : Send(u, kind, xs)
  PROVE  RoutingInv'
<1> USE DEF RoutingInv, RestOK
<1>1. ASSUME NEW kind \in Kinds, NEW xs \in SUBSET Aspects, Transmit(u, kind, xs)
      PROVE  tasks' \subseteq Task /\ client' \in [Uris -> Client]
  <2> DEFINE msg == [uri |-> u, seq |-> client[u].seq + 1, again |-> FALSE,
                     kind |-> kind, aspects |-> xs]
  <2>1. client[u] \in Client /\ msg \in Message
    BY DEF Client, Message
  <2> HIDE DEF msg
  <2>2. /\ tasks' = tasks \cup {[msg |-> msg, pc |-> "start"]}
        /\ client' = [client EXCEPT ![u].seq = @ + 1, ![u].out = {msg}]
    BY <1>1 DEF Transmit, Spawn, msg
  <2>3. [msg |-> msg, pc |-> "start"] \in Task
    BY <2>1 DEF Task
  <2>4. client' \in [Uris -> Client]
    <3> DEFINE n == client[u].seq + 1
    <3>1. n \in Nat
      BY <2>1 DEF Client
    <3>2. client' = [client EXCEPT ![u] = [client[u] EXCEPT !.seq = n, !.out = {msg}]]
      BY <2>2
    <3> HIDE DEF n
    <3>3. [client[u] EXCEPT !.seq = n] \in Client
      BY <2>1, <3>1 DEF Client
    <3>4. [[client[u] EXCEPT !.seq = n] EXCEPT !.out = {msg}] \in Client
      BY <2>1, <3>3 DEF Client
    <3> QED BY <3>2, <3>4
  <2> QED BY <2>2, <2>3, <2>4
<1>2. CASE Join(u)
  <2>1. tasks' \subseteq Task /\ client' \in [Uris -> Client]
    BY <1>1, <1>2 DEF Join, Kinds
  <2>2. sock' \in [Uris -> {"none", "open", "closed"}]
    BY <1>2 DEF Join
  <2> QED BY <1>2, <2>1, <2>2 DEF Join, ImInv, im
<1>3. CASE Resend(u)
  <2>1. PICK msg \in client[u].out :
          /\ Spawn([msg EXCEPT !.again = TRUE])
          /\ client' = [client EXCEPT ![u].out = {[msg EXCEPT !.again = TRUE]}]
    BY <1>3 DEF Resend
  <2> DEFINE copy == [msg EXCEPT !.again = TRUE]
  <2>2. client[u] \in Client /\ copy \in Message
    <3>1. client[u] \in Client
      OBVIOUS
    <3>2. msg \in Message
      BY <3>1 DEF Client
    <3>3. copy \in Message
      BY <3>2 DEF Message
    <3> QED BY <3>1, <3>3
  <2> HIDE DEF copy
  <2>3. tasks' \subseteq Task
    <3>1. [msg |-> copy, pc |-> "start"] \in Task
      BY <2>2 DEF Task
    <3> QED BY <2>1, <3>1 DEF Spawn, copy
  <2>4. client' \in [Uris -> Client]
    <3>1. [client[u] EXCEPT !.out = {copy}] \in Client
      BY <2>2 DEF Client
    <3>2. client' = [client EXCEPT ![u] = [client[u] EXCEPT !.out = {copy}]]
      BY <2>1 DEF copy
    <3> QED BY <3>1, <3>2
  <2>5. resends' \in 0..MaxResends
    BY <1>3, Sim2hBoundAssumption DEF Resend
  <2> QED BY <1>3, <2>3, <2>4, <2>5 DEF Resend, ImInv, im, net
<1>4. CASE SocketEnds(u)
  BY <1>4 DEF SocketEnds, ImInv, im
<1>5. CASE CloseSocket(u)
  BY <1>4, <1>5 DEF CloseSocket
<1>6. CASE \E kind \in Kinds, xs \in EntryLists \cup {{}} : Send(u, kind, xs)
  <2>1. PICK kind \in Kinds, xs \in EntryLists \cup {{}} : Send(u, kind, xs)
    BY <1>6
  <2>2. xs \in SUBSET Aspects
    BY DEF EntryLists
  <2>3. tasks' \subseteq Task /\ client' \in [Uris -> Client]
    BY <1>1, <2>1, <2>2 DEF Send
  <2> QED BY <2>1, <2>3 DEF Send, ImInv, im, net
<1> QED BY <1>2, <1>3, <1>4, <1>5, <1>6

\* The steps of a message task keep the invariant.
LEMMA TasksRouted ==
  ASSUME RoutingInv, NEW t \in tasks, RunTask(t)
  PROVE  RoutingInv'
<1>1. /\ t \in Task /\ t.msg \in Message /\ t.msg.uri \in Uris
      /\ t.msg.aspects \in SUBSET Aspects
      /\ SpaceOf[t.msg.uri] \in Spaces /\ AgentOf[t.msg.uri] \in Agents
  BY StateAssumption DEF RoutingInv, RestOK, Task, Message
<1>2. tasks \ {t} \subseteq Task
  BY DEF RoutingInv, RestOK
<1>3. CASE StartJoin(t)
  <2> DEFINE u == t.msg.uri
             new == NewConnection(store, SpaceOf[u], AgentOf[u], u)
  <2>1. RoutedStore(new)
    BY <1>1, NewConnectionRouted DEF RoutingInv, ImInv
  <2>2. Mutate(new, {t.msg}, FALSE) /\ UNCHANGED snapshot
    BY <1>3 DEF StartJoin
  <2> HIDE DEF new
  <2>3. ImInv'
    BY <1>1, <2>1, <2>2, MutateRouted DEF RoutingInv
  <2>4. [t EXCEPT !.pc = "await"] \in Task
    BY <1>1 DEF Task
  <2>5. superseded' \subseteq Uris
    <3>1. LookupJoined(store, SpaceOf[u], AgentOf[u]) \in Uris \cup {Nil}
      BY <1>1 DEF LookupJoined, RoutingInv, ImInv, RoutedStore, Stores, Space
    <3> QED BY <1>3, <3>1 DEF StartJoin, RoutingInv, RestOK
  <2> QED BY <1>2, <1>3, <2>3, <2>4, <2>5 DEF StartJoin, RoutingInv, RestOK, net
<1>4. CASE FinishJoin(t)
  BY <1>1, <1>2, <1>4, ReceiptType
     DEF FinishJoin, RoutingInv, RestOK, ImInv, im, net
<1>5. CASE RefuseUnjoined(t)
  <2>1. ImInv' /\ closing' \subseteq Uris
    BY <1>1, <1>5, DisconnectRouted DEF RefuseUnjoined
  <2> QED BY <1>2, <1>5, <2>1 DEF RefuseUnjoined, RoutingInv, RestOK
<1>6. CASE HandleMessage(t)
  <2>1. client' \in [Uris -> Client]
    BY <1>1, <1>6, ReceiptType DEF HandleMessage, RoutingInv
  <2>2. ImInv' /\ closing' \subseteq Uris
    <3>1. CASE UNCHANGED <<store, publishing, closing>>
      BY <1>6, <3>1 DEF HandleMessage, RoutingInv, RestOK, ImInv
    <3>2. CASE /\ Mutate(AgentHoldsAspects(store, SpaceOf[t.msg.uri],
                                           AgentOf[t.msg.uri], t.msg.aspects),
                         {}, FALSE)
               /\ UNCHANGED closing
      <4>1. RoutedStore(AgentHoldsAspects(store, SpaceOf[t.msg.uri],
                                          AgentOf[t.msg.uri], t.msg.aspects))
        BY <1>1, HoldsRouted DEF RoutingInv, ImInv
      <4> QED BY <1>6, <3>2, <4>1, MutateRouted
              DEF HandleMessage, RoutingInv, RestOK
    <3>3. CASE Disconnect(t.msg.uri)
      BY <1>1, <1>6, <3>3, DisconnectRouted DEF HandleMessage
    <3> QED BY <1>6, <3>1, <3>2, <3>3 DEF HandleMessage
  <2> QED BY <1>2, <1>6, <2>1, <2>2 DEF HandleMessage, RoutingInv, RestOK
<1> QED BY <1>3, <1>4, <1>5, <1>6 DEF RunTask

\* The writing of a copy keeps the invariant.
LEMMA PublishRouted ==
  ASSUME RoutingInv, NEW i \in DOMAIN publishing, Publish(i)
  PROVE  RoutingInv'
<1>1. publishing \in Seq(RoutedWriter) /\ publishing[i] \in RoutedWriter
  BY DEF RoutingInv, ImInv
<1>2. ImInv'
  BY <1>1, RemoveAtType DEF Publish, RoutingInv, ImInv, RoutedWriter
<1>3. tasks' \subseteq Task
  <2>1. \A t \in tasks : t \in Task /\ [t EXCEPT !.pc = "joined"] \in Task
    BY DEF RoutingInv, RestOK, Task
  <2> QED BY <2>1 DEF Publish
<1>4. sweep' \in Sweep
  BY DEF Publish, RoutingInv, RestOK, Sweep
<1> QED BY <1>2, <1>3, <1>4 DEF Publish, RoutingInv, RestOK, net

\* The steps of the sweep keep the invariant.
LEMMA SweepRouted ==
  ASSUME RoutingInv, RunSweep
  PROVE  RoutingInv'
<1>1. CASE SweepStarts
  <2>1. /\ RoutedStore(CheckDisconnected(store))
        /\ Replaced(store) \subseteq Uris
    BY CheckDisconnectedRouted DEF RoutingInv, ImInv
  <2>2. ImInv'
    BY <1>1, <2>1, MutateRouted DEF SweepStarts, RoutingInv
  <2>3. sweep' \in Sweep
    BY <1>1, <2>1 DEF SweepStarts, Sweep
  <2> QED BY <1>1, <2>2, <2>3 DEF SweepStarts, RoutingInv, RestOK, net
<1>2. CASE SweepEnds
  BY <1>2 DEF SweepEnds, RoutingInv, RestOK, ImInv, Sweep, im, net
<1>3. ASSUME NEW u \in Uris, SweepCloses(u)
      PROVE  RoutingInv'
  <2>1. ImInv' /\ closing' \subseteq Uris
    BY <1>3, DisconnectRouted DEF SweepCloses
  <2>2. sweep' \in Sweep
    BY <1>3 DEF SweepCloses, RoutingInv, RestOK, Sweep
  <2> QED BY <1>3, <2>1, <2>2 DEF SweepCloses, RoutingInv, RestOK
<1> QED BY <1>1, <1>2, <1>3 DEF RunSweep

\* Every step keeps the invariant.
LEMMA RoutingNext == RoutingInv /\ [Next]_vars => RoutingInv'
<1> SUFFICES ASSUME RoutingInv, [Next]_vars PROVE RoutingInv'
  OBVIOUS
<1>1. ASSUME NEW u \in Uris, ReadDisconnect(u)
      PROVE  RoutingInv'
  <2>1. ImInv' /\ closing' \subseteq Uris
    BY <1>1, DisconnectRouted DEF ReadDisconnect
  <2> QED BY <1>1, <2>1 DEF ReadDisconnect, RoutingInv, RestOK
<1>2. CASE UNCHANGED vars
  BY <1>2 DEF vars, RoutingInv, RestOK, ImInv
<1> QED BY <1>1, <1>2, WorkersRouted, TasksRouted, PublishRouted, SweepRouted
        DEF Next

\* The invariant says what TypeOK and RoutingConsistent say.
LEMMA RoutingImplies == RoutingInv => TypeOK /\ RoutingConsistent
<1> SUFFICES ASSUME RoutingInv PROVE TypeOK /\ RoutingConsistent
  OBVIOUS
<1>1. publishing \in Seq(Writer)
  <2>1. RoutedWriter \subseteq Writer
    BY DEF RoutedWriter
  <2> QED BY <2>1 DEF RoutingInv, ImInv
<1>2. TypeOK
  BY <1>1 DEF RoutingInv, RestOK, ImInv, RoutedStore, TypeOK
<1>3. \A i \in DOMAIN publishing : RoutedStore(publishing[i].copy)
  BY DEF RoutingInv, ImInv, RoutedWriter
<1>4. RoutingConsistent
  BY <1>3 DEF RoutingInv, ImInv, RoutedStore, WellRouted, RoutingConsistent, Consistent
<1> QED BY <1>2, <1>4

\* The inductive invariant of the server's stores holds in every reachable state.
THEOREM RoutingInvariance == Spec => []RoutingInv
BY RoutingInit, RoutingNext, PTL DEF Spec

\* The server's variables keep their types.
THEOREM ServerTypeCorrect == Spec => []TypeOK
BY RoutingInvariance, RoutingImplies, PTL

\* For any number of agents, sockets and spaces: in the store, in every copy on
\* its way to the snapshot and in the snapshot, the agent-to-uri and uri-to-agent
\* tables are inverse of each other.
THEOREM RoutingCorrect == Spec => []RoutingConsistent
BY RoutingInvariance, RoutingImplies, PTL

-----------------------------------------------------------------------------
(* No joined worker is forgotten. Kept(u) is what JoinedIsRegistered asks of *)
(* a socket; once true it stays true. It is true of every socket that has a  *)
(* claim: the worker has its receipt, or a task of its join is past the      *)
(* mutation, or the copy that will wake that task is under way. The other    *)
(* parts say that a worker only sends something else once it has joined.     *)

Kept(u) ==
  \/ sock[u] = "closed"
  \/ /\ sock[u] = "open"
     /\ \/ u \in closing
        \/ u \in superseded
        \/ store[SpaceOf[u]].uriToConnection[u] = AgentOf[u]

KeptWriter == {w \in Writer : \A m \in w.joins : Kept(m.uri)}

JoinInv ==
  /\ \A u \in Uris : client[u].joined => Kept(u)
  /\ \A t \in tasks : t.pc # "start" => Kept(t.msg.uri)
  /\ publishing \in Seq(KeptWriter)
  /\ \A t \in tasks : /\ sock[t.msg.uri] # "none"
                      /\ t.msg.kind # "join" => client[t.msg.uri].joined
  /\ \A u \in Uris : sock[u] = "open" => client[u].joined \/ client[u].out # {}
  /\ \A u \in Uris : \A m \in client[u].out :
       m.uri = u /\ (m.kind # "join" => client[u].joined)

\* What a disconnect of u does to the sockets: all that were kept are kept.
LEMMA DisconnectKeeps ==
  ASSUME RoutingInv, NEW u \in Uris, Disconnect(u),
         UNCHANGED <<sock, superseded>>, NEW v \in Uris, Kept(v)
  PROVE  Kept(v)'
<1>1. CASE v = u
  BY <1>1 DEF Kept, Disconnect
<1>2. CASE v # u
  <2>1. store'[SpaceOf[v]].uriToConnection[v] = store[SpaceOf[v]].uriToConnection[v]
    BY <1>2, DropRouted, StateAssumption DEF Disconnect, Mutate, RoutingInv, ImInv
  <2> QED BY <2>1 DEF Kept, Disconnect
<1> QED BY <1>1, <1>2

\* A mutation that leaves a registration as it is keeps the socket.
LEMMA SameKeeps ==
  ASSUME NEW v \in Uris, Kept(v), UNCHANGED <<sock, closing, superseded>>,
         store'[SpaceOf[v]].uriToConnection[v] = store[SpaceOf[v]].uriToConnection[v]
  PROVE  Kept(v)'
BY DEF Kept

\* A socket that is kept is kept by every step.
LEMMA KeptStays ==
  ASSUME RoutingInv, [Next]_vars, NEW v \in Uris, Kept(v)
  PROVE  Kept(v)'
<1>1. ASSUME NEW u \in Uris, Join(u) PROVE Kept(v)'
  BY <1>1 DEF Join, Kept, im, RoutingInv, RestOK
<1>2. ASSUME NEW u \in Uris, Resend(u) PROVE Kept(v)'
  BY <1>2 DEF Resend, Kept, im, net
<1>3. ASSUME NEW u \in Uris, SocketEnds(u) PROVE Kept(v)'
  BY <1>3 DEF SocketEnds, Kept, im, RoutingInv, RestOK
<1>4. ASSUME NEW u \in Uris, CloseSocket(u) PROVE Kept(v)'
  BY <1>3, <1>4 DEF CloseSocket
<1>5. ASSUME NEW u \in Uris, ReadDisconnect(u) PROVE Kept(v)'
  BY <1>5, DisconnectKeeps DEF ReadDisconnect
<1>6. ASSUME NEW u \in Uris, NEW kind, NEW xs, Send(u, kind, xs) PROVE Kept(v)'
  BY <1>6 DEF Send, Kept, im, net
<1>7. ASSUME NEW t \in tasks, RunTask(t) PROVE Kept(v)'
  <2>1. /\ t.msg \in Message /\ t.msg.uri \in Uris /\ t.msg.aspects \in SUBSET Aspects
        /\ SpaceOf[t.msg.uri] \in Spaces /\ AgentOf[t.msg.uri] \in Agents
        /\ SpaceOf[v] \in Spaces
    BY StateAssumption DEF RoutingInv, RestOK, Task, Message
  <2>2. CASE StartJoin(t)
    <3> DEFINE u == t.msg.uri
               s == SpaceOf[u]
               a == AgentOf[u]
               new == NewConnection(store, s, a, u)
    <3>1. /\ new[s].uriToConnection[u] = a
          /\ \A w \in Uris \ {u}, z \in Spaces :
               \/ w = store[s].connections[a]
               \/ new[z].uriToConnection[w] = store[z].uriToConnection[w]
      <4>1. u \in Uris /\ RoutedStore(store)
        BY <2>1 DEF RoutingInv, ImInv
      <4> HIDE DEF u
      <4>2. new[s].uriToConnection[u] = a
        BY <4>1, NewConnectionRouted
      <4>3. \A w \in Uris \ {u}, z \in Spaces :
               \/ w = store[s].connections[a]
               \/ new[z].uriToConnection[w] = store[z].uriToConnection[w]
        BY <4>1, NewConnectionRouted
      <4> QED BY <4>2, <4>3
    <3>2. /\ store' = new
          /\ superseded' = (superseded \cup {store[s].connections[a]}) \ {u, Nil}
          /\ UNCHANGED <<sock, closing>>
      BY <2>2 DEF StartJoin, Mutate, LookupJoined, net
    <3> HIDE DEF new
    <3>3. CASE v = u
      BY <3>1, <3>2, <3>3 DEF Kept
    <3>4. CASE v # u
      <4>1. v # Nil
        BY StateAssumption
      <4> QED BY <2>1, <3>1, <3>2, <3>4, <4>1 DEF Kept
    <3> QED BY <3>3, <3>4
  <2>3. CASE FinishJoin(t)
    BY <2>3 DEF FinishJoin, Kept, im, net
  <2>4. CASE RefuseUnjoined(t)
    BY <2>1, <2>4, DisconnectKeeps DEF RefuseUnjoined
  <2>5. CASE HandleMessage(t)
    <3>1. CASE UNCHANGED <<store, publishing, closing>>
      BY <2>5, <3>1 DEF HandleMessage, Kept
    <3>2. CASE /\ Mutate(AgentHoldsAspects(store, SpaceOf[t.msg.uri],
                                           AgentOf[t.msg.uri], t.msg.aspects),
                         {}, FALSE)
               /\ UNCHANGED closing
      <4>1. store'[SpaceOf[v]].uriToConnection = store[SpaceOf[v]].uriToConnection
        BY <2>1, <3>2, HoldsRouted DEF Mutate, RoutingInv, ImInv
      <4> QED BY <2>5, <3>2, <4>1, SameKeeps DEF HandleMessage
    <3>3. CASE Disconnect(t.msg.uri)
      BY <2>1, <2>5, <3>3, DisconnectKeeps DEF HandleMessage
    <3> QED BY <2>5, <3>1, <3>2, <3>3 DEF HandleMessage
  <2> QED BY <1>7, <2>2, <2>3, <2>4, <2>5 DEF RunTask
<1>8. ASSUME NEW i \in DOMAIN publishing, Publish(i) PROVE Kept(v)'
  BY <1>8 DEF Publish, Kept, net
<1>9. CASE RunSweep
  <2>1. CASE SweepStarts
    <3>1. store'[SpaceOf[v]].uriToConnection = store[SpaceOf[v]].uriToConnection
      BY <2>1, CheckDisconnectedRouted, StateAssumption
         DEF SweepStarts, Mutate, RoutingInv, ImInv
    <3> QED BY <2>1, <3>1, SameKeeps DEF SweepStarts, net
  <2>2. CASE SweepEnds
    BY <2>2 DEF SweepEnds, Kept, im, net
  <2>3. ASSUME NEW u \in Uris, SweepCloses(u) PROVE Kept(v)'
    BY <2>3, DisconnectKeeps DEF SweepCloses
  <2> QED BY <1>9, <2>1, <2>2, <2>3 DEF RunSweep
<1>10. CASE UNCHANGED vars
  BY <1>10 DEF vars, Kept
<1> QED BY <1>1, <1>2, <1>3, <1>4, <1>5, <1>6, <1>7, <1>8, <1>9, <1>10 DEF Next

\* The initial state satisfies the join invariant.
LEMMA JoinInit == Init => JoinInv
BY StateAssumption DEF Init, JoinInv, Client

\* The writers whose waiters are kept remain so.
LEMMA WritersKept ==
  ASSUME RoutingInv, [Next]_vars
  PROVE  KeptWriter \subseteq KeptWriter'
<1>1. \A w \in Writer : \A m \in w.joins : m.uri \in Uris
  BY DEF Writer, Message
<1> QED BY <1>1, KeptStays DEF KeptWriter

\* A mutation whose waiter is kept leaves only writers whose waiters are kept.
LEMMA MutateKept ==
  ASSUME RoutingInv, RoutingInv', JoinInv, [Next]_vars, NEW st,
         NEW joins \in SUBSET Message, \A m \in joins : Kept(m.uri)',
         NEW swept \in BOOLEAN, Mutate(st, joins, swept)
  PROVE  publishing' \in Seq(KeptWriter')
<1>1. store' \in Stores
  BY DEF RoutingInv, ImInv, RoutedStore
<1> DEFINE w == [copy |-> store', joins |-> joins, sweep |-> swept]
<1>2. w \in KeptWriter'
  BY <1>1 DEF KeptWriter, Writer
<1>3. publishing \in Seq(KeptWriter')
  BY WritersKept DEF JoinInv
<1>4. publishing' = Append(publishing, w)
  BY DEF Mutate
<1> HIDE DEF w
<1> QED BY <1>2, <1>3, <1>4, AppendProperties

\* What all steps but those of the workers leave as it is: they bring no new
\* message, open no socket, and give a receipt only to a socket that is kept.
LEMMA JoinFrame ==
  ASSUME RoutingInv, RoutingInv', JoinInv, [Next]_vars,
         \A t \in tasks' : \E o \in tasks :
           t.msg = o.msg /\ (t.pc # "start" => o.pc # "start" \/ Kept(t.msg.uri)'),
         \A u \in Uris :
           /\ client[u].joined => client'[u].joined
           /\ client'[u].joined => client[u].joined \/ Kept(u)'
           /\ \/ client'[u].out = client[u].out
              \/ client'[u].out = {} /\ client'[u].joined
           /\ sock[u] # "none" => sock'[u] # "none"
           /\ sock'[u] = "open" => sock[u] = "open",
         publishing' \in Seq(KeptWriter')
  PROVE  JoinInv'
<1>1. \A t \in tasks : t.msg.uri \in Uris
  BY DEF RoutingInv, RestOK, Task, Message
<1>2. \A u \in Uris : client'[u].joined => Kept(u)'
  BY KeptStays DEF JoinInv
<1>3. \A t \in tasks' : t.pc # "start" => Kept(t.msg.uri)'
  BY <1>1, KeptStays DEF JoinInv
<1>4. \A t \in tasks' : /\ sock'[t.msg.uri] # "none"
                        /\ t.msg.kind # "join" => client'[t.msg.uri].joined
  BY <1>1 DEF JoinInv
<1>5. \A u \in Uris : sock'[u] = "open" => client'[u].joined \/ client'[u].out # {}
  BY DEF JoinInv
<1>6. \A u \in Uris : \A m \in client'[u].out :
        m.uri = u /\ (m.kind # "join" => client'[u].joined)
  BY DEF JoinInv
<1> QED BY <1>2, <1>3, <1>4, <1>5, <1>6 DEF JoinInv

\* A receipt changes a client the way JoinFrame wants it.
LEMMA ReceiptFrame ==
  ASSUME RestOK, NEW msg \in Message, Receipt(msg), NEW u \in Uris
  PROVE  /\ client[u].joined => client'[u].joined
         /\ client'[u].joined => client[u].joined \/ msg.uri = u
         /\ \/ client'[u].out = client[u].out
            \/ client'[u].out = {} /\ client'[u].joined
<1>1. client \in [Uris -> Client] /\ msg.uri \in Uris /\ client[u] \in Client
  BY DEF RestOK, Message
<1>2. CASE client' = client
  BY <1>2
<1>3. CASE client' = [client EXCEPT ![msg.uri].out = {}, ![msg.uri].joined = TRUE]
  <2>1. CASE u = msg.uri
    <3>1. client'[u] = [client[u] EXCEPT !.out = {}, !.joined = TRUE]
      BY <1>1, <1>3, <2>1
    <3> QED BY <1>1, <2>1, <3>1 DEF Client
  <2>2. CASE u # msg.uri
    <3>1. client'[u] = client[u]
      BY <1>1, <1>3, <2>2
    <3> QED BY <3>1
  <2> QED BY <2>1, <2>2
<1> QED BY <1>2, <1>3 DEF Receipt

\* A worker's new message, or the copy of its last one, keeps the invariant: the
\* first message on a socket is a join, and the next one waits for its receipt.
LEMMA SpawnKept ==
  ASSUME RoutingInv, RoutingInv', JoinInv, [Next]_vars, NEW u \in Uris,
         NEW msg, Spawn(msg), msg.uri = u,
         msg.kind # "join" => client[u].joined,
         client'[u].joined = client[u].joined, client'[u].out = {msg},
         sock'[u] # "none",
         \A v \in Uris \ {u} : client'[v] = client[v] /\ sock'[v] = sock[v],
         UNCHANGED publishing
  PROVE  JoinInv'
<1>1. \A t \in tasks : t.msg.uri \in Uris
  BY DEF RoutingInv, RestOK, Task, Message
<1>2. \A v \in Uris : client'[v].joined = client[v].joined
  OBVIOUS
<1>3. \A v \in Uris : client'[v].joined => Kept(v)'
  BY <1>2, KeptStays DEF JoinInv
<1>4. tasks' = tasks \cup {[msg |-> msg, pc |-> "start"]}
  BY DEF Spawn
<1>5. \A t \in tasks' : t.pc # "start" => Kept(t.msg.uri)'
  BY <1>1, <1>4, KeptStays DEF JoinInv
<1>6. publishing' \in Seq(KeptWriter')
  BY WritersKept DEF JoinInv
<1>7. \A t \in tasks' : /\ sock'[t.msg.uri] # "none"
                        /\ t.msg.kind # "join" => client'[t.msg.uri].joined
  BY <1>1, <1>2, <1>4 DEF JoinInv
<1>8. \A v \in Uris : sock'[v] = "open" => client'[v].joined \/ client'[v].out # {}
  BY DEF JoinInv
<1>9. \A v \in Uris : \A m \in client'[v].out :
        m.uri = v /\ (m.kind # "join" => client'[v].joined)
  BY <1>2 DEF JoinInv
<1> QED BY <1>3, <1>5, <1>6, <1>7, <1>8, <1>9 DEF JoinInv

\* The steps of the workers keep the join invariant.
LEMMA WorkersJoin ==
  ASSUME RoutingInv, RoutingInv', JoinInv, [Next]_vars, NEW u \in Uris,
         \/ Join(u) \/ Resend(u)
         \/ \E kind \in Kinds, xs \in EntryLists \cup {{}} : Send(u, kind, xs)
  PROVE  JoinInv'
<1>1. client \in [Uris -> Client] /\ client[u] \in Client
  BY DEF RoutingInv, RestOK
<1>2. ASSUME NEW kind \in Kinds, NEW xs, Transmit(u, kind, xs),
             kind # "join" => client[u].joined,
             sock'[u] # "none", \A v \in Uris \ {u} : sock'[v] = sock[v],
             UNCHANGED publishing
      PROVE  JoinInv'
  <2> DEFINE msg == [uri |-> u, seq |-> client[u].seq + 1, again |-> FALSE,
                     kind |-> kind, aspects |-> xs]
             n == client[u].seq + 1
  <2>1. msg.uri = u /\ msg.kind = kind
    OBVIOUS
  <2> HIDE DEF msg
  <2>2. /\ Spawn(msg)
        /\ client' = [client EXCEPT ![u] = [client[u] EXCEPT !.seq = n, !.out = {msg}]]
    BY <1>2 DEF Transmit, msg
  <2> HIDE DEF n
  <2>3. /\ client'[u].joined = client[u].joined /\ client'[u].out = {msg}
        /\ \A v \in Uris \ {u} : client'[v] = client[v]
    BY <1>1, <2>2 DEF Client
  <2> QED BY <1>2, <2>1, <2>2, <2>3, SpawnKept
<1>3. CASE Join(u)
  <2>1. sock'[u] = "open" /\ \A v \in Uris \ {u} : sock'[v] = sock[v]
    BY <1>3 DEF Join, RoutingInv, RestOK
  <2> QED BY <1>2, <1>3, <2>1 DEF Join, Kinds, im
<1>4. CASE Resend(u)
  <2>1. PICK old \in client[u].out :
          /\ Spawn([old EXCEPT !.again = TRUE])
          /\ client' = [client EXCEPT ![u].out = {[old EXCEPT !.again = TRUE]}]
    BY <1>4 DEF Resend
  <2> DEFINE msg == [old EXCEPT !.again = TRUE]
  <2>2. old \in Message /\ old.uri = u /\ (old.kind # "join" => client[u].joined)
    <3>1. old \in Message
      BY <1>1 DEF Client
    <3>2. old.uri = u /\ (old.kind # "join" => client[u].joined)
      BY DEF JoinInv
    <3> QED BY <3>1, <3>2
  <2>3. msg.uri = u /\ msg.kind = old.kind
    BY <2>2 DEF Message
  <2> HIDE DEF msg
  <2>4. /\ client'[u].joined = client[u].joined /\ client'[u].out = {msg}
        /\ \A v \in Uris \ {u} : client'[v] = client[v]
    <3>1. client' = [client EXCEPT ![u] = [client[u] EXCEPT !.out = {msg}]]
      BY <2>1 DEF msg
    <3> QED BY <1>1, <3>1 DEF Client
  <2>5. Spawn(msg)
    BY <2>1 DEF msg
  <2>6. UNCHANGED <<sock, publishing>> /\ sock[u] = "open"
    BY <1>4 DEF Resend, im, net
  <2> QED BY <2>2, <2>3, <2>4, <2>5, <2>6, SpawnKept
<1>5. ASSUME NEW kind \in Kinds, NEW xs \in EntryLists \cup {{}}, Send(u, kind, xs)
      PROVE  JoinInv'
  <2>1. client[u].joined
    BY <1>5 DEF Send, Transmit, JoinInv
  <2>2. UNCHANGED <<sock, publishing>> /\ sock[u] = "open" /\ Transmit(u, kind, xs)
    BY <1>5 DEF Send, im, net
  <2> QED BY <1>2, <2>1, <2>2
<1> QED BY <1>3, <1>4, <1>5

\* The steps of a message task keep the join invariant.
LEMMA TasksJoin ==
  ASSUME RoutingInv, RoutingInv', JoinInv, [Next]_vars, NEW t \in tasks, RunTask(t)
  PROVE  JoinInv'
<1> DEFINE u == t.msg.uri
<1>1. /\ t \in Task /\ t.msg \in Message /\ u \in Uris
      /\ SpaceOf[u] \in Spaces /\ AgentOf[u] \in Agents
  BY StateAssumption DEF RoutingInv, RestOK, Task, Message
<1>2. CASE StartJoin(t)
  <2>1. store'[SpaceOf[u]].uriToConnection[u] = AgentOf[u]
    <3>1. u \in Uris /\ RoutedStore(store)
      BY <1>1 DEF RoutingInv, ImInv
    <3>2. store' = NewConnection(store, SpaceOf[u], AgentOf[u], u)
      BY <1>2 DEF StartJoin, Mutate
    <3> HIDE DEF u
    <3> QED BY <3>1, <3>2, NewConnectionRouted
  <2>2. /\ tasks' = (tasks \ {t}) \cup {[t EXCEPT !.pc = "await"]}
        /\ UNCHANGED <<sock, client>>
    BY <1>2 DEF StartJoin, net
  <2>3. Kept(u)'
    <3>1. sock[u] \in {"open", "closed"}
      BY <1>1 DEF JoinInv, RoutingInv, RestOK
    <3> QED BY <2>1, <2>2, <3>1 DEF Kept
  <2>4. publishing' \in Seq(KeptWriter')
    <3>1. PICK st : Mutate(st, {t.msg}, FALSE)
      BY <1>2 DEF StartJoin
    <3> QED BY <1>1, <2>3, <3>1, MutateKept
  <2>5. \A n \in tasks' : \E o \in tasks :
          n.msg = o.msg /\ (n.pc # "start" => o.pc # "start" \/ Kept(n.msg.uri)')
    <3>1. [t EXCEPT !.pc = "await"].msg = t.msg
      BY <1>1 DEF Task
    <3> QED BY <2>2, <2>3, <3>1
  <2> QED BY <2>2, <2>4, <2>5, JoinFrame
<1>3. ASSUME tasks' = tasks \ {t}, Receipt(t.msg), Kept(u)', UNCHANGED sock,
             publishing' \in Seq(KeptWriter')
      PROVE  JoinInv'
  <2>1. \A v \in Uris :
          /\ client[v].joined => client'[v].joined
          /\ client'[v].joined => client[v].joined \/ Kept(v)'
          /\ \/ client'[v].out = client[v].out
             \/ client'[v].out = {} /\ client'[v].joined
    BY <1>1, <1>3, ReceiptFrame DEF RoutingInv
  <2> QED BY <1>3, <2>1, JoinFrame
<1>4. CASE FinishJoin(t)
  <2>1. Kept(u)'
    BY <1>1, <1>4, KeptStays DEF FinishJoin, JoinInv
  <2>2. publishing' \in Seq(KeptWriter')
    BY <1>4, WritersKept DEF FinishJoin, JoinInv, im
  <2> QED BY <1>3, <1>4, <2>1, <2>2 DEF FinishJoin, net
<1>5. CASE RefuseUnjoined(t)
  <2>1. publishing' \in Seq(KeptWriter')
    BY <1>5, MutateKept DEF RefuseUnjoined, Disconnect
  <2> QED BY <1>5, <2>1, JoinFrame DEF RefuseUnjoined
<1>6. CASE HandleMessage(t)
  <2>1. Kept(u)'
    BY <1>1, <1>6, KeptStays DEF HandleMessage, JoinInv
  <2>2. publishing' \in Seq(KeptWriter')
    <3>1. CASE UNCHANGED publishing
      BY <3>1, WritersKept DEF JoinInv
    <3>2. CASE \E st : Mutate(st, {}, FALSE)
      BY <3>2, MutateKept
    <3> QED BY <1>6, <3>1, <3>2 DEF HandleMessage, Disconnect
  <2> QED BY <1>3, <1>6, <2>1, <2>2 DEF HandleMessage
<1> QED BY <1>2, <1>4, <1>5, <1>6 DEF RunTask

\* The writing of a copy keeps the join invariant: it wakes only tasks of a kept
\* socket.
LEMMA PublishJoin ==
  ASSUME RoutingInv, RoutingInv', JoinInv, [Next]_vars,
         NEW i \in DOMAIN publishing, Publish(i)
  PROVE  JoinInv'
<1>1. publishing[i] \in KeptWriter /\ publishing \in Seq(KeptWriter')
  BY WritersKept DEF JoinInv
<1>2. publishing' \in Seq(KeptWriter')
  BY <1>1, RemoveAtType DEF Publish
<1>3. \A t \in tasks : t \in Task /\ t.msg.uri \in Uris
  BY DEF RoutingInv, RestOK, Task, Message
<1>4. ASSUME NEW o \in tasks, o.msg \in publishing[i].joins
      PROVE  [o EXCEPT !.pc = "joined"].msg = o.msg /\ Kept(o.msg.uri)'
  BY <1>1, <1>3, <1>4, KeptStays DEF KeptWriter, Task
<1>5. \A n \in tasks' : \E o \in tasks :
        n.msg = o.msg /\ (n.pc # "start" => o.pc # "start" \/ Kept(n.msg.uri)')
  BY <1>4 DEF Publish
<1> QED BY <1>2, <1>5, JoinFrame DEF Publish, net

\* Every step keeps the join invariant.
LEMMA JoinNext == RoutingInv /\ RoutingInv' /\ JoinInv /\ [Next]_vars => JoinInv'
<1> SUFFICES ASSUME RoutingInv, RoutingInv', JoinInv, [Next]_vars PROVE JoinInv'
  OBVIOUS
<1>1. ASSUME UNCHANGED publishing PROVE publishing' \in Seq(KeptWriter')
  BY <1>1, WritersKept DEF JoinInv
<1>2. ASSUME NEW u \in Uris, SocketEnds(u) PROVE JoinInv'
  <2>1. \A v \in Uris : /\ sock[v] # "none" => sock'[v] # "none"
                        /\ sock'[v] = "open" => sock[v] = "open"
    BY <1>2 DEF SocketEnds, RoutingInv, RestOK
  <2> QED BY <1>1, <1>2, <2>1, JoinFrame DEF SocketEnds, im
<1>3. ASSUME NEW u \in Uris, ReadDisconnect(u) PROVE JoinInv'
  <2>1. publishing' \in Seq(KeptWriter')
    BY <1>3, MutateKept DEF ReadDisconnect, Disconnect
  <2> QED BY <1>3, <2>1, JoinFrame DEF ReadDisconnect
<1>4. CASE RunSweep
  <2>1. publishing' \in Seq(KeptWriter')
    BY <1>1, <1>4, MutateKept
       DEF RunSweep, SweepStarts, SweepEnds, SweepCloses, Disconnect, im
  <2>2. UNCHANGED <<tasks, client, sock>>
    BY <1>4 DEF RunSweep, SweepStarts, SweepEnds, SweepCloses, net
  <2> QED BY <2>1, <2>2, JoinFrame
<1>5. CASE UNCHANGED vars
  BY <1>1, <1>5, JoinFrame DEF vars
<1> QED BY <1>2, <1>3, <1>4, <1>5, WorkersJoin, TasksJoin, PublishJoin
        DEF Next, CloseSocket

\* For any number of workers, sockets, spaces and messages: a worker whose join
\* was answered stays registered while its socket lives, unless its agent joined
\* over another socket or the server is about to hang up on it.
THEOREM JoinedStaysRegistered == Spec => []JoinedIsRegistered
<1>1. JoinInv => JoinedIsRegistered
  BY DEF JoinInv, JoinedIsRegistered, Kept
<1>2. Spec => []JoinInv
  BY RoutingInvariance, JoinInit, JoinNext, PTL DEF Spec
<1> QED BY <1>1, <1>2, PTL
=============================================================================
