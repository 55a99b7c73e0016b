------------------------- MODULE Sim2hGossip_proofs -------------------------
(* Proofs about the way of aspects through workers and server: what the      *)
(* server takes an agent to hold, and what the agent holds, agree.           *)
EXTENDS Sim2hGossip, SequenceFacts, TLAPS

-----------------------------------------------------------------------------
(* The invariant.                                                            *)

Kinds == {"hello", "join", "publish", "authoring", "multi"}

Messages == [kind : Kinds, aspects : SUBSET Aspects, results : SUBSET Aspects]

List == (SUBSET Aspects) \cup {Nil}

Workers ==
  [uri : Uris \cup {Nil}, fullSync : BOOLEAN, buffer : Seq(Messages),
   fatAcks : SUBSET Aspects, results : SUBSET Aspects,
   authoring : List, gossip : List, selfStored : BOOLEAN]

\* The variables have the types of the code's fields.
GossipTypeOK ==
  /\ store \in Stores
  /\ worker \in [Agents -> Workers]
  /\ authored \in [Agents -> SUBSET Aspects]
  /\ held \in [Agents -> SUBSET Aspects]
  /\ unpublished \in [Agents -> SUBSET Aspects]
  /\ down \in [Uris -> SUBSET Requests]
  /\ used \subseteq Uris
  /\ restarted \subseteq Agents

\* The tables of the space are inverse, and no uri is registered for another
\* agent than the one whose worker opened it: without the second part a join
\* could leave the entry of another agent behind.
WellRouted(space) ==
  /\ RoutesAgree(space)
  /\ \A u \in Uris : space.uriToConnection[u] \in {Nil, AgentOf[u]}

\* A worker is connected over a socket of its own.
OwnSocket == \A a \in Agents : worker[a].uri # Nil => AgentOf[worker[a].uri] = a

\* What the core of an agent has.
Has(a) == held[a] \cup authored[a]

\* A worker w says no more than that its core has S.
Truthful(w, S) ==
  /\ w.fatAcks \subseteq S
  /\ \A i \in DOMAIN w.buffer : w.buffer[i].aspects \subseteq S

\* What a worker has noted, or has put in a message for the server, its core has.
\* A message stays in the buffer through breaks, and is sent again.
NotesAreTrue == \A a \in Agents : Truthful(worker[a], Has(a))

\* What the server takes an agent to hold, the agent has.
Honest ==
  \A a \in Agents, x \in Aspects : a \in store[Home].holding[x] => x \in Has(a)

\* The worker has still to tell the server of an aspect, or to join.
Tells(w, x) ==
  \/ x \in w.fatAcks
  \/ \E i \in DOMAIN w.buffer :
       w.buffer[i].kind = "join" \/ (w.buffer[i].kind = "multi" /\ x \in w.buffer[i].aspects)

\* While an agent is connected and joined, the server knows of all it holds, is
\* about to be told by the worker, or has asked.
Told(a) ==
  worker[a].uri # Nil /\ store[Home].connections[a] = worker[a].uri =>
    \A x \in held[a] : \/ a \in store[Home].holding[x]
                       \/ Tells(worker[a], x)
                       \/ Request("lists", Nil) \in down[worker[a].uri]

IInv ==
  /\ GossipTypeOK
  /\ WellRouted(store[Home])
  /\ OwnSocket
  /\ NotesAreTrue
  /\ Honest
  /\ \A a \in Agents : Told(a)

-----------------------------------------------------------------------------
(* The server's state.                                                       *)

\* The one space that all workers join is a space of the server.
LEMMA HomeIsSpace == Home \in Spaces
<1>1. \E s \in Spaces : \E u \in Uris : SpaceOf[u] = s
  BY GossipAssumption, StateAssumption
<1> QED
  BY <1>1 DEF Home

\* A space that nobody has joined is well formed.
LEMMA EmptyFacts ==
  /\ EmptySpace \in Space /\ EmptyStore \in Stores
  /\ WellRouted(EmptySpace)
<1>1. EmptySpace \in Space /\ EmptyStore \in Stores
  BY DEF EmptySpace, EmptyStore, Space, Stores
<1> QED
  BY <1>1, StateAssumption DEF WellRouted, RoutesAgree, EmptySpace

\* What is dropped with an agent: its holdings, and nobody else's.
LEMMA ClearFacts ==
  ASSUME NEW holding \in [Aspects -> SUBSET Agents], NEW a
  PROVE  /\ ClearHolding(holding, a) \in [Aspects -> SUBSET Agents]
         /\ \A x \in Aspects : ClearHolding(holding, a)[x] = holding[x] \ {a}
BY DEF ClearHolding

\* check_insert_connection, for an agent that comes over a socket of its own.
LEMMA InsertFacts ==
  ASSUME NEW space \in Space, WellRouted(space), NEW u \in Uris
  PROVE  LET a == AgentOf[u]
             new == CheckInsertConnection(space, a, u)
         IN  /\ new \in Space
             /\ WellRouted(new)
             /\ \A b \in Agents : new.connections[b] = IF b = a THEN u ELSE space.connections[b]
             /\ \A x \in Aspects : new.holding[x] = space.holding[x] \ {a}
<1> DEFINE a == AgentOf[u]
           new == CheckInsertConnection(space, a, u)
           h == ClearHolding(space.holding, a)
<1>1. a \in Agents /\ Nil \notin Agents /\ Nil \notin Uris
  BY StateAssumption
<1>2. h \in [Aspects -> SUBSET Agents] /\ \A x \in Aspects : h[x] = space.holding[x] \ {a}
  BY ClearFacts DEF Space
<1> HIDE DEF h
<1>3. /\ new \in Space
      /\ new.holding = h
      /\ \A b \in Agents : new.connections[b] = IF b = a THEN u ELSE space.connections[b]
      /\ \A v \in Uris : new.uriToConnection[v] =
           IF v = u THEN a ELSE IF v = space.connections[a] THEN Nil ELSE space.uriToConnection[v]
  BY <1>1, <1>2 DEF CheckInsertConnection, Space, h
<1> HIDE DEF new
<1>4. \A v \in Uris : new.uriToConnection[v] \in {Nil, AgentOf[v]}
  BY <1>3 DEF WellRouted
<1>5. ASSUME NEW b \in Agents, NEW v \in Uris
      PROVE  new.connections[b] = v <=> new.uriToConnection[v] = b
  <2>1. CASE b = a
    BY <1>1, <1>3, <2>1 DEF WellRouted, RoutesAgree
  <2>2. CASE b # a
    <3>1. space.connections[b] = v <=> space.uriToConnection[v] = b
      BY DEF WellRouted, RoutesAgree
    <3>2. space.connections[b] # u
      BY <1>1, <2>2 DEF WellRouted, RoutesAgree
    <3>3. v = space.connections[a] => space.uriToConnection[v] = a
      BY <1>1 DEF WellRouted, RoutesAgree
    <3> QED
      BY <1>1, <1>3, <2>2, <3>1, <3>2, <3>3
  <2> QED
    BY <2>1, <2>2
<1>6. WellRouted(new)
  BY <1>4, <1>5 DEF WellRouted, RoutesAgree
<1> QED
  BY <1>2, <1>3, <1>6 DEF new

\* drop_connection_inner, of the agent that a socket is registered for.
LEMMA DropFacts ==
  ASSUME NEW space \in Space, NEW a \in Agents
  PROVE  LET new == DropConnectionInner(space, a)
         IN  /\ new \in Space
             /\ WellRouted(space) => WellRouted(new)
             /\ \A b \in Agents : new.connections[b] = IF b = a THEN Nil ELSE space.connections[b]
             /\ \A x \in Aspects : new.holding[x] = space.holding[x] \ {a}
<1> DEFINE new == DropConnectionInner(space, a)
           h == ClearHolding(space.holding, a)
<1>1. h \in [Aspects -> SUBSET Agents] /\ \A x \in Aspects : h[x] = space.holding[x] \ {a}
  BY ClearFacts DEF Space
<1> HIDE DEF h
<1>2. /\ new \in Space
      /\ new.holding = h
      /\ \A b \in Agents : new.connections[b] = IF b = a THEN Nil ELSE space.connections[b]
      /\ \A v \in Uris : new.uriToConnection[v] =
           IF v = space.connections[a] THEN Nil ELSE space.uriToConnection[v]
  BY <1>1 DEF DropConnectionInner, Space, h
<1> HIDE DEF new
<1>3. ASSUME WellRouted(space)
      PROVE  WellRouted(new)
  <2>1. Nil \notin Agents /\ Nil \notin Uris
    BY StateAssumption
  <2>2. \A v \in Uris : new.uriToConnection[v] \in {Nil, AgentOf[v]}
    BY <1>2, <1>3 DEF WellRouted
  <2>3. ASSUME NEW b \in Agents, NEW v \in Uris
        PROVE  new.connections[b] = v <=> new.uriToConnection[v] = b
    <3>1. /\ space.connections[b] = v <=> space.uriToConnection[v] = b
          /\ space.connections[a] = v <=> space.uriToConnection[v] = a
      BY <1>3 DEF WellRouted, RoutesAgree
    <3> QED
      BY <1>2, <2>1, <3>1
  <2> QED
    BY <2>2, <2>3 DEF WellRouted, RoutesAgree
<1> QED
  BY <1>1, <1>2, <1>3 DEF new

\* drop_connection_by_uri: the agent of the socket is no longer connected, and what
\* the server has noted of the others stays, unless nobody is left.
LEMMA DisconnectFacts ==
  ASSUME NEW st \in Stores, WellRouted(st[Home]), NEW u \in Uris
  PROVE  LET new == DropConnectionByUri(st, u)
         IN  /\ new \in Stores
             /\ WellRouted(new[Home])
             /\ \A x \in Aspects : new[Home].holding[x] \subseteq st[Home].holding[x]
             /\ \A b \in Agents :
                  \/ new[Home].connections[b] = Nil
                  \/ /\ new[Home].connections[b] = st[Home].connections[b]
                     /\ st[Home].connections[b] # u
                     /\ \A x \in Aspects : b \in st[Home].holding[x] => b \in new[Home].holding[x]
<1> DEFINE mid == [s \in Spaces |-> IF st[s].uriToConnection[u] = Nil THEN st[s]
                                   ELSE DropConnectionInner(st[s], st[s].uriToConnection[u])]
           new == DropConnectionByUri(st, u)
           old == st[Home]
           m == mid[Home]
<1>1. new = [s \in Spaces |-> IF Connected(mid[s]) = {} THEN EmptySpace ELSE mid[s]]
  BY DEF DropConnectionByUri, CheckDropSpaces
<1>2. Home \in Spaces /\ old \in Space /\ Nil \notin Uris
  BY HomeIsSpace, StateAssumption DEF Stores
<1>3. ASSUME NEW s \in Spaces
      PROVE  mid[s] \in Space
  <2>1. st[s] \in Space /\ st[s].uriToConnection[u] \in Agents \cup {Nil}
    BY DEF Stores, Space
  <2> QED
    BY <2>1, DropFacts
<1>4. /\ WellRouted(m)
      /\ \A x \in Aspects : m.holding[x] \subseteq old.holding[x]
      /\ \A b \in Agents :
           \/ m.connections[b] = Nil
           \/ /\ m.connections[b] = old.connections[b]
              /\ old.connections[b] # u
              /\ \A x \in Aspects : b \in old.holding[x] => b \in m.holding[x]
  <2> DEFINE a == old.uriToConnection[u]
  <2>1. CASE a = Nil
    <3>1. m = old
      BY <1>2, <2>1
    <3>2. \A b \in Agents : old.connections[b] # u
      BY <2>1, StateAssumption DEF WellRouted, RoutesAgree
    <3> HIDE DEF m, old
    <3> QED
      BY <3>1, <3>2 DEF old
  <2>2. CASE a # Nil
    <3>1. a \in Agents
      BY <1>2, <2>2 DEF Space
    <3>2. m = DropConnectionInner(old, a)
      BY <1>2, <2>2
    <3>3. \A b \in Agents : b # a => old.connections[b] # u
      BY DEF WellRouted, RoutesAgree
    <3> HIDE DEF m, old, a
    <3>4. /\ WellRouted(m)
          /\ \A b \in Agents : m.connections[b] = IF b = a THEN Nil ELSE old.connections[b]
          /\ \A x \in Aspects : m.holding[x] = old.holding[x] \ {a}
      BY <1>2, <3>1, <3>2, DropFacts DEF old
    <3> QED
      BY <3>3, <3>4
  <2> QED
    BY <2>1, <2>2
<1> HIDE DEF mid, new
<1>5. new \in Stores
  BY <1>1, <1>3, EmptyFacts DEF Stores
<1>6. new[Home] = m \/ new[Home] = EmptySpace
  BY <1>1, <1>2
<1>7. CASE new[Home] = EmptySpace
  BY <1>5, <1>7, EmptyFacts DEF EmptySpace, new
<1>8. CASE new[Home] = m
  BY <1>4, <1>5, <1>8 DEF new
<1> QED
  BY <1>6, <1>7, <1>8 DEF new

\* agent_holds_aspects adds the agent to the holders of the aspects.
LEMMA HoldsFacts ==
  ASSUME NEW st \in Stores, WellRouted(st[Home]), NEW a \in Agents, NEW xs \in SUBSET Aspects,
         NEW new, new = AgentHoldsAspects(st, Home, a, xs)
  PROVE  /\ new \in Stores
         /\ WellRouted(new[Home])
         /\ new[Home].connections = st[Home].connections
         /\ \A x \in Aspects, b \in Agents :
              b \in new[Home].holding[x] <=> b \in st[Home].holding[x] \/ (b = a /\ x \in xs)
<1> DEFINE old == st[Home]
           h == [x \in Aspects |-> IF x \in xs THEN old.holding[x] \cup {a} ELSE old.holding[x]]
           sp == [[old EXCEPT !.aspects = @ \cup xs] EXCEPT !.holding = h]
<1>1. Home \in Spaces /\ st \in [Spaces -> Space] /\ old \in Space
  BY HomeIsSpace DEF Stores
<1>2. h \in [Aspects -> SUBSET Agents]
  BY <1>1 DEF Space
<1>3. new = [st EXCEPT ![Home] = sp]
  BY <1>1 DEF AgentHoldsAspects, Space
<1>4. \A x \in Aspects : h[x] = IF x \in xs THEN old.holding[x] \cup {a} ELSE old.holding[x]
  OBVIOUS
<1> HIDE DEF h
<1>5. /\ sp \in Space
      /\ sp.connections = old.connections
      /\ sp.uriToConnection = old.uriToConnection
      /\ sp.holding = h
  BY <1>1, <1>2 DEF Space
<1> HIDE DEF sp
<1>6. WellRouted(sp)
  BY <1>5 DEF WellRouted, RoutesAgree
<1>7. new \in Stores /\ new[Home] = sp
  BY <1>1, <1>3, <1>5 DEF Stores
<1> QED
  BY <1>4, <1>5, <1>6, <1>7

\* What the handler of a message of agent a does to the state: nothing to others.
LEMMA AppliedFacts ==
  ASSUME store \in Stores, WellRouted(store[Home]), NEW u \in Uris, NEW m \in Messages
  PROVE  LET a == AgentOf[u]
             old == store[Home]
             new == Applied(a, u, m)
         IN  /\ new \in Stores
             /\ WellRouted(new[Home])
             /\ \A b \in Agents \ {a} :
                  /\ new[Home].connections[b] = old.connections[b]
                  /\ \A x \in Aspects : b \in new[Home].holding[x] <=> b \in old.holding[x]
             /\ \A x \in Aspects : a \in new[Home].holding[x] => a \in old.holding[x] \/ x \in m.aspects
             /\ m.kind = "join" => new[Home].connections[a] = u
             /\ m.kind # "join" =>
                  /\ new[Home].connections[a] = old.connections[a]
                  /\ \A x \in Aspects : a \in old.holding[x] => a \in new[Home].holding[x]
             /\ m.kind = "multi" => \A x \in m.aspects : a \in new[Home].holding[x]
<1> DEFINE a == AgentOf[u]
           old == store[Home]
           new == Applied(a, u, m)
<1>1. a \in Agents /\ Home \in Spaces /\ old \in Space /\ m.aspects \in SUBSET Aspects
  BY HomeIsSpace, StateAssumption DEF Stores, Messages
<1>2. CASE m.kind = "join"
  <2> DEFINE sp == CheckInsertConnection(old, a, u)
  <2>1. new = NewConnection(store, Home, a, u)
    BY <1>2, Zenon DEF Applied
  <2>2. new = [store EXCEPT ![Home] = sp]
    BY <2>1 DEF NewConnection
  <2>3. /\ sp \in Space
        /\ WellRouted(sp)
        /\ \A b \in Agents : sp.connections[b] = IF b = a THEN u ELSE old.connections[b]
        /\ \A x \in Aspects : sp.holding[x] = old.holding[x] \ {a}
    BY <1>1, InsertFacts
  <2> HIDE DEF sp, new
  <2>4. new \in Stores /\ new[Home] = sp
    BY <1>1, <2>2, <2>3 DEF Stores
  <2> HIDE DEF a, old
  <2> QED
    BY <1>1, <1>2, <2>3, <2>4 DEF new, a, old
<1>3. CASE m.kind \in {"authoring", "multi"}
  <2>1. new = AgentHoldsAspects(store, Home, a, m.aspects)
    BY <1>3, Zenon DEF Applied
  <2> HIDE DEF new
  <2>2. /\ new \in Stores
        /\ WellRouted(new[Home])
        /\ new[Home].connections = old.connections
        /\ \A x \in Aspects, b \in Agents :
             b \in new[Home].holding[x] <=> b \in old.holding[x] \/ (b = a /\ x \in m.aspects)
    BY <1>1, <2>1, HoldsFacts
  <2> QED
    BY <1>1, <1>3, <2>2 DEF new
<1>4. CASE m.kind \notin {"join", "authoring", "multi"}
  <2>1. new = store
    BY <1>4, Zenon DEF Applied
  <2> HIDE DEF new
  <2> QED
    BY <1>4, <2>1 DEF new
<1> QED
  BY <1>2, <1>3, <1>4
-----------------------------------------------------------------------------
(* The worker.                                                               *)

\* The worker v has all to tell that w has, over the same connection, and what it
\* says in addition is in xs.
Follows(v, w, xs) ==
  /\ v \in Workers
  /\ v.uri = w.uri
  /\ \A x : Tells(w, x) => Tells(v, x)
  /\ \A S : xs \subseteq S /\ Truthful(w, S) => Truthful(v, S)

\* Two changes of a worker, one after the other.
LEMMA FollowsTwice ==
  ASSUME NEW u, NEW v, NEW w, NEW xs, NEW ys, Follows(v, u, xs), Follows(w, v, ys)
  PROVE  Follows(w, u, xs \cup ys)
BY DEF Follows

\* A message has the fields it was made of.
LEMMA MessageType ==
  ASSUME NEW kind \in Kinds, NEW xs \in SUBSET Aspects, NEW rs \in SUBSET Aspects
  PROVE  /\ Message(kind, xs, rs) \in Messages
         /\ Message(kind, xs, rs).kind = kind
         /\ Message(kind, xs, rs).aspects = xs
BY DEF Message, Messages

\* A message is put at the end of the buffer.
LEMMA QueueFacts ==
  ASSUME NEW w \in Workers, NEW m \in Messages
  PROVE  /\ Follows(Queue(w, m), w, m.aspects)
         /\ m.kind = "multi" => \A x \in m.aspects : Tells(Queue(w, m), x)
         /\ Queue(w, m).buffer # << >>
         /\ Queue(w, m).results = w.results
<1> DEFINE v == Queue(w, m)
           b == w.buffer
           c == Append(b, m)
<1>1. b \in Seq(Messages)
  BY DEF Workers
<1>2. /\ c \in Seq(Messages) /\ c # << >>
      /\ Len(b) + 1 \in DOMAIN c /\ c[Len(b) + 1] = m
      /\ \A i \in DOMAIN b : i \in DOMAIN c /\ c[i] = b[i]
      /\ \A i \in DOMAIN c : i \in DOMAIN b \/ c[i] = m
  BY <1>1
<1>3. v = [w EXCEPT !.buffer = c]
  BY DEF Queue
<1> HIDE DEF v, b, c
<1>4. v \in Workers /\ v.buffer = c /\ v.uri = w.uri /\ v.fatAcks = w.fatAcks /\ v.results = w.results
  BY <1>2, <1>3 DEF Workers
<1>5. ASSUME NEW x, Tells(w, x)
      PROVE  Tells(v, x)
  <2>1. CASE x \in w.fatAcks
    BY <1>4, <2>1 DEF Tells
  <2>2. ASSUME NEW i \in DOMAIN b, b[i].kind = "join" \/ (b[i].kind = "multi" /\ x \in b[i].aspects)
        PROVE  Tells(v, x)
    <3>1. i \in DOMAIN v.buffer /\ v.buffer[i] = b[i]
      BY <1>2, <1>4
    <3> QED
      BY <2>2, <3>1 DEF Tells
  <2> QED
    BY <1>5, <2>1, <2>2 DEF Tells, b
<1>6. ASSUME NEW S, m.aspects \subseteq S, Truthful(w, S)
      PROVE  Truthful(v, S)
  <2>1. \A i \in DOMAIN b : b[i].aspects \subseteq S
    BY <1>6 DEF Truthful, b
  <2>2. \A i \in DOMAIN c : c[i].aspects \subseteq S
    BY <1>2, <1>6, <2>1
  <2> QED
    BY <1>4, <1>6, <2>2 DEF Truthful
<1>7. ASSUME m.kind = "multi", NEW x \in m.aspects
      PROVE  Tells(v, x)
  BY <1>2, <1>4, <1>7 DEF Tells
<1> QED
  BY <1>2, <1>4, <1>5, <1>6, <1>7 DEF Follows, v

\* A note of held aspects is added to the ones before it.
LEMMA TakeGossipFacts ==
  ASSUME NEW w \in Workers, NEW xs \in SUBSET Aspects
  PROVE  /\ Follows(TakeGossipList(w, xs), w, xs)
         /\ \A x \in xs : Tells(TakeGossipList(w, xs), x)
<1> DEFINE v == TakeGossipList(w, xs)
           g == IF w.selfStored THEN Nil ELSE xs
<1>1. v = [w EXCEPT !.gossip = g, !.fatAcks = @ \cup xs]
  BY DEF TakeGossipList
<1>2. g \in List
  BY DEF List
<1> HIDE DEF v, g
<1>3. v \in Workers /\ v.buffer = w.buffer /\ v.uri = w.uri /\ v.fatAcks = w.fatAcks \cup xs
  BY <1>1, <1>2 DEF Workers
<1> QED
  BY <1>3 DEF Follows, Tells, Truthful, v

\* A worker that is given the list of authored aspects tells no less than before.
LEMMA TakeAuthoringFacts ==
  ASSUME NEW w \in Workers, NEW xs \in SUBSET Aspects
  PROVE  Follows(TakeAuthoringList(w, xs), w, xs)
<1> DEFINE l == IF w.selfStored THEN Nil ELSE xs
           v == [w EXCEPT !.authoring = l]
           m == Message("authoring", xs, {})
<1>1. TakeAuthoringList(w, xs) = Queue(v, m)
  BY DEF TakeAuthoringList
<1>2. l \in List
  BY DEF List
<1> HIDE DEF l
<1>3. v \in Workers /\ v.buffer = w.buffer /\ v.uri = w.uri /\ v.fatAcks = w.fatAcks
  BY <1>2 DEF Workers
<1>4. m \in Messages /\ m.aspects = xs
  BY MessageType DEF Kinds
<1> HIDE DEF v, m
<1>5. Follows(v, w, {})
  BY <1>3 DEF Follows, Tells, Truthful
<1>6. Follows(Queue(v, m), v, xs)
  BY <1>3, <1>4, QueueFacts
<1> QED
  BY <1>1, <1>5, <1>6, FollowsTwice

\* The own aspects are stored without a word to the server.
LEMMA SelfStoreFacts ==
  ASSUME NEW w \in Workers
  PROVE  Follows(SelfStore(w), w, {})
<1> DEFINE v == [w EXCEPT !.authoring = Nil, !.gossip = Nil, !.selfStored = TRUE]
<1>1. v \in Workers /\ v.buffer = w.buffer /\ v.uri = w.uri /\ v.fatAcks = w.fatAcks
  BY DEF Workers, List
<1> HIDE DEF v
<1>2. Follows(v, w, {})
  BY <1>1 DEF Follows, Tells, Truthful
<1>3. Follows(w, w, {})
  BY DEF Follows
<1> QED
  BY <1>2, <1>3 DEF SelfStore, v

\* The notes that were collected go into a message.
LEMMA CheckBatchedFacts ==
  ASSUME NEW w \in Workers
  PROVE  Follows(CheckBatched(w), w, w.fatAcks)
<1> DEFINE m == Message("multi", w.fatAcks, w.results)
           q == Queue(w, m)
           v == [q EXCEPT !.fatAcks = {}, !.results = {}]
<1>1. w.fatAcks \in SUBSET Aspects /\ w.results \in SUBSET Aspects
  BY DEF Workers
<1>2. m \in Messages /\ m.kind = "multi" /\ m.aspects = w.fatAcks
  BY <1>1, MessageType DEF Kinds
<1> HIDE DEF m
<1>3. Follows(q, w, w.fatAcks) /\ \A x \in w.fatAcks : Tells(q, x)
  BY <1>2, QueueFacts
<1>4. q \in Workers /\ q.fatAcks = w.fatAcks /\ q.buffer = Append(w.buffer, m)
  BY <1>3 DEF Follows, Queue, Workers
<1>5. v \in Workers /\ v.buffer = q.buffer /\ v.uri = q.uri /\ v.fatAcks = {}
  BY <1>4 DEF Workers
<1>6. w.buffer \in Seq(Messages)
  BY DEF Workers
<1>7. Len(w.buffer) + 1 \in DOMAIN q.buffer /\ q.buffer[Len(w.buffer) + 1] = m
  BY <1>2, <1>4, <1>6
<1> HIDE DEF v, q
<1>8. ASSUME NEW x, Tells(q, x)
      PROVE  Tells(v, x)
  <2>1. CASE x \in w.fatAcks
    BY <1>2, <1>5, <1>7, <2>1 DEF Tells
  <2>2. CASE x \notin w.fatAcks
    BY <1>4, <1>5, <1>8, <2>2 DEF Tells
  <2> QED
    BY <2>1, <2>2
<1>9. \A S : Truthful(q, S) => Truthful(v, S)
  BY <1>5 DEF Truthful
<1>10. Follows(v, w, w.fatAcks)
  BY <1>3, <1>5, <1>8, <1>9 DEF Follows
<1>11. Follows(w, w, w.fatAcks)
  BY DEF Follows
<1> QED
  BY <1>10, <1>11 DEF CheckBatched, v, q, m

\* A new worker, and one that connects anew, have the join in their buffers.
LEMMA NewWorkerFacts ==
  /\ NewWorker \in Workers /\ NewWorker.uri = Nil /\ NewWorker.fatAcks = {}
  /\ \A x : Tells(NewWorker, x)
  /\ \A S : Truthful(NewWorker, S)
<1> DEFINE h == Message("hello", {}, {})
           j == Message("join", {}, {})
           b == <<h, j>>
<1>1. /\ h \in Messages /\ h.aspects = {}
      /\ j \in Messages /\ j.aspects = {} /\ j.kind = "join"
  BY MessageType DEF Kinds
<1>2. NewWorker = [uri |-> Nil, fullSync |-> FALSE, buffer |-> b, fatAcks |-> {}, results |-> {},
                   authoring |-> Nil, gossip |-> Nil, selfStored |-> FALSE]
  BY DEF NewWorker
<1>3. b \in Seq(Messages) /\ DOMAIN b = {1, 2} /\ b[1] = h /\ b[2] = j
  <2> HIDE DEF h, j
  <2> QED
    BY <1>1
<1> HIDE DEF b, h, j
<1>4. NewWorker \in Workers /\ NewWorker.uri = Nil /\ NewWorker.buffer = b /\ NewWorker.fatAcks = {}
  BY <1>2, <1>3 DEF Workers, List
<1>5. \A x : Tells(NewWorker, x)
  BY <1>1, <1>3, <1>4 DEF Tells
<1>6. \A S : Truthful(NewWorker, S)
  BY <1>1, <1>3, <1>4 DEF Truthful
<1> QED
  BY <1>4, <1>5, <1>6

\* After a reconnect the worker has its join to send, ahead of all it still had to.
LEMMA ReconnectFacts ==
  ASSUME NEW w \in Workers, NEW u \in Uris
  PROVE  LET v == CheckReconnect(w, u)
         IN  v \in Workers /\ v.uri = u /\ (\A x : Tells(v, x)) /\ \A S : Truthful(w, S) => Truthful(v, S)
<1> DEFINE j == Message("join", {}, {})
           b == w.buffer
           c == <<j>> \o b
           v == CheckReconnect(w, u)
<1>1. j \in Messages /\ j.aspects = {} /\ j.kind = "join"
  BY MessageType DEF Kinds
<1>2. v = [w EXCEPT !.uri = u, !.buffer = c]
  BY DEF CheckReconnect
<1>3. b \in Seq(Messages)
  BY DEF Workers
<1> HIDE DEF j, b, v
<1>4. /\ c \in Seq(Messages)
      /\ 1 \in DOMAIN c /\ c[1] = j
      /\ \A i \in DOMAIN c : i = 1 \/ (i - 1 \in DOMAIN b /\ c[i] = b[i - 1])
  BY <1>1, <1>3
<1> HIDE DEF c
<1>5. v \in Workers /\ v.uri = u /\ v.buffer = c /\ v.fatAcks = w.fatAcks
  BY <1>2, <1>4 DEF Workers
<1>6. \A x : Tells(v, x)
  BY <1>1, <1>4, <1>5 DEF Tells
<1>7. ASSUME NEW S, Truthful(w, S)
      PROVE  Truthful(v, S)
  <2>1. \A i \in DOMAIN b : b[i].aspects \subseteq S
    BY <1>7 DEF Truthful, b
  <2>2. \A i \in DOMAIN c : c[i].aspects \subseteq S
    BY <1>1, <1>4, <2>1
  <2> QED
    BY <1>5, <1>7, <2>2 DEF Truthful
<1> QED
  BY <1>5, <1>6, <1>7 DEF v

\* The receipt takes the first message off the buffer.
LEMMA ReceiptFacts ==
  ASSUME NEW w \in Workers, w.buffer # << >>,
         NEW v, v = [(IF Head(w.buffer).kind = "hello" THEN TakeHello(w) ELSE w) EXCEPT !.buffer = Tail(@)]
  PROVE  /\ Head(w.buffer) \in Messages
         /\ v \in Workers /\ v.uri = w.uri
         /\ \A x : \/ Tells(w, x) => Tells(v, x)
                   \/ Head(w.buffer).kind = "join"
                   \/ Head(w.buffer).kind = "multi" /\ x \in Head(w.buffer).aspects
         /\ \A S : Truthful(w, S) => Truthful(v, S) /\ Head(w.buffer).aspects \subseteq S
<1> DEFINE b == w.buffer
           c == Tail(b)
           m == Head(b)
           h == IF m.kind = "hello" THEN TakeHello(w) ELSE w
<1>1. b \in Seq(Messages)
  BY DEF Workers
<1>2. /\ c \in Seq(Messages)
      /\ m \in Messages /\ 1 \in DOMAIN b /\ m = b[1]
      /\ \A i \in DOMAIN c : i + 1 \in DOMAIN b /\ c[i] = b[i + 1]
      /\ \A i \in DOMAIN b : i = 1 \/ (i - 1 \in DOMAIN c /\ c[i - 1] = b[i])
  BY <1>1
<1>3. h \in Workers /\ h.uri = w.uri /\ h.buffer = b /\ h.fatAcks = w.fatAcks
  <2>1. TakeHello(w) = [w EXCEPT !.fullSync = (Redundancy = 0)]
    BY DEF TakeHello
  <2> QED
    BY <2>1 DEF Workers
<1>4. v = [h EXCEPT !.buffer = Tail(h.buffer)]
  OBVIOUS
<1> HIDE DEF h, b, c, m
<1>5. v = [h EXCEPT !.buffer = c]
  BY <1>3, <1>4 DEF c
<1>6. v \in Workers /\ v.uri = w.uri /\ v.buffer = c /\ v.fatAcks = w.fatAcks
  BY <1>2, <1>3, <1>5 DEF Workers
<1>7. ASSUME NEW x, Tells(w, x)
      PROVE  Tells(v, x) \/ m.kind = "join" \/ (m.kind = "multi" /\ x \in m.aspects)
  <2>1. CASE x \in w.fatAcks
    BY <1>6, <2>1 DEF Tells
  <2>2. ASSUME NEW i \in DOMAIN b, b[i].kind = "join" \/ (b[i].kind = "multi" /\ x \in b[i].aspects)
        PROVE  Tells(v, x) \/ m.kind = "join" \/ (m.kind = "multi" /\ x \in m.aspects)
    <3>1. i = 1 \/ (i - 1 \in DOMAIN c /\ c[i - 1] = b[i])
      BY <1>2
    <3> QED
      BY <1>2, <1>6, <2>2, <3>1 DEF Tells
  <2> QED
    BY <1>7, <2>1, <2>2 DEF Tells, b
<1>8. ASSUME NEW S, Truthful(w, S)
      PROVE  Truthful(v, S) /\ m.aspects \subseteq S
  <2>1. \A i \in DOMAIN b : b[i].aspects \subseteq S
    BY <1>8 DEF Truthful, b
  <2>2. \A i \in DOMAIN c : c[i].aspects \subseteq S
    BY <1>2, <2>1
  <2> QED
    BY <1>2, <1>6, <1>8, <2>1, <2>2 DEF Truthful
<1> QED
  BY <1>2, <1>6, <1>7, <1>8 DEF m, b

-----------------------------------------------------------------------------
(* Steps of an agent.                                                        *)

\* A step that agent a takes, and the server with it, keeps the invariant if it
\* does so for a and leaves the others their workers, their cores, what the server
\* has noted of them and what it has sent to them.
LEMMA StepKeeps ==
  ASSUME IInv, NEW a \in Agents, GossipTypeOK', WellRouted(store'[Home]),
         worker'[a].uri # Nil => AgentOf[worker'[a].uri] = a,
         Truthful(worker'[a], held'[a] \cup authored'[a]),
         \A x \in Aspects : a \in store'[Home].holding[x] => x \in held'[a] \cup authored'[a],
         Told(a)',
         \A b \in Agents \ {a} :
           /\ worker'[b] = worker[b] /\ held'[b] = held[b] /\ authored'[b] = authored[b]
           /\ store'[Home].connections[b] = store[Home].connections[b]
           /\ \A x \in Aspects : b \in store'[Home].holding[x] <=> b \in store[Home].holding[x]
           /\ worker[b].uri # Nil => down[worker[b].uri] \subseteq down'[worker[b].uri]
  PROVE  IInv'
<1>1. OwnSocket'
  BY DEF IInv, OwnSocket
<1>2. NotesAreTrue'
  BY DEF IInv, NotesAreTrue, Has
<1>3. Honest'
  BY DEF IInv, Honest, Has
<1>4. ASSUME NEW b \in Agents
      PROVE  Told(b)'
  <2>1. CASE b = a
    BY <2>1
  <2>2. CASE b # a
    <3>1. Told(b) /\ held[b] \subseteq Aspects
      BY DEF IInv, GossipTypeOK
    <3>2. /\ worker'[b] = worker[b] /\ held'[b] = held[b]
          /\ store'[Home].connections[b] = store[Home].connections[b]
          /\ \A x \in Aspects : b \in store'[Home].holding[x] <=> b \in store[Home].holding[x]
          /\ worker[b].uri # Nil => down[worker[b].uri] \subseteq down'[worker[b].uri]
      BY <2>2
    <3> QED
      BY <3>1, <3>2 DEF Told
  <2> QED
    BY <2>1, <2>2
<1> QED
  BY <1>1, <1>2, <1>3, <1>4 DEF IInv

\* What the invariant says of the worker and the core of an agent.
LEMMA AgentFacts ==
  ASSUME IInv, NEW a \in Agents
  PROVE  /\ worker[a] \in Workers
         /\ worker[a].uri \in Uris \cup {Nil}
         /\ worker[a].uri # Nil => worker[a].uri \in Uris /\ AgentOf[worker[a].uri] = a
         /\ Truthful(worker[a], Has(a))
         /\ Told(a)
         /\ held[a] \subseteq Aspects /\ authored[a] \subseteq Aspects
         /\ \A x \in Aspects : a \in store[Home].holding[x] => x \in Has(a)
<1>1. worker[a] \in Workers
  BY DEF IInv, GossipTypeOK
<1>2. worker[a].uri \in Uris \cup {Nil}
  BY <1>1 DEF Workers
<1> QED
  BY <1>1, <1>2 DEF IInv, GossipTypeOK, OwnSocket, NotesAreTrue, Honest

\* A commit of the core keeps the invariant.
LEMMA CommitKeeps ==
  ASSUME IInv, NEW a \in Agents, NEW x \in Aspects, Commit(a, x)
  PROVE  IInv'
<1>1. /\ authored' = [authored EXCEPT ![a] = @ \cup {x}]
      /\ unpublished' = [unpublished EXCEPT ![a] = @ \cup {x}]
      /\ UNCHANGED <<store, down, used, restarted, worker, held>>
  BY DEF Commit, Others
<1>2. GossipTypeOK'
  BY <1>1 DEF IInv, GossipTypeOK
<1>3. /\ authored'[a] = authored[a] \cup {x}
      /\ \A b \in Agents \ {a} : authored'[b] = authored[b]
  BY <1>1 DEF IInv, GossipTypeOK
<1>4. Truthful(worker[a], held[a] \cup authored'[a])
  BY <1>3, AgentFacts DEF Truthful, Has
<1>5. \A y \in Aspects : a \in store[Home].holding[y] => y \in held[a] \cup authored'[a]
  BY <1>3, AgentFacts DEF Has
<1>6. Told(a)'
  BY <1>1, AgentFacts DEF Told
<1>7. WellRouted(store'[Home]) /\ (worker'[a].uri # Nil => AgentOf[worker'[a].uri] = a)
  BY <1>1, AgentFacts DEF IInv
<1> QED
  BY <1>1, <1>2, <1>3, <1>4, <1>5, <1>6, <1>7, StepKeeps

\* Core takes in xs, of which the worker w is about to tell, and with them what it
\* has authored and not held.
LEMMA TakeFacts ==
  ASSUME IInv, NEW a \in Agents, NEW w \in Workers, w.uri = worker[a].uri,
         NEW xs \in SUBSET Aspects, \A x \in xs : Tells(w, x), Truthful(w, Has(a) \cup xs),
         Take(a, w, xs)
  PROVE  /\ worker' \in [Agents -> Workers] /\ held' \in [Agents -> SUBSET Aspects]
         /\ worker'[a].uri = worker[a].uri
         /\ \A b \in Agents \ {a} : worker'[b] = worker[b] /\ held'[b] = held[b]
         /\ held[a] \subseteq held'[a]
         /\ Truthful(worker'[a], held'[a] \cup authored[a])
         /\ \A x \in held'[a] : x \in held[a] \/ Tells(worker'[a], x)
         /\ \A x : Tells(w, x) => Tells(worker'[a], x)
<1> DEFINE own == {x \in Servable(a) : EntryOf[x] \in ToFetch(w)}
           s == SelfStore(w)
           v == IF own = {} THEN s ELSE TakeGossipList(s, own)
<1>1. /\ held' = [held EXCEPT ![a] = @ \cup xs \cup own]
      /\ worker' = [worker EXCEPT ![a] = v]
  BY DEF Take
<1>2. /\ held \in [Agents -> SUBSET Aspects] /\ worker \in [Agents -> Workers]
      /\ held[a] \subseteq Aspects /\ authored[a] \subseteq Aspects
  BY AgentFacts DEF IInv, GossipTypeOK
<1>3. own \in SUBSET Aspects /\ own \subseteq Has(a)
  BY <1>2 DEF Has, Servable
<1> HIDE DEF own
<1>4. Follows(s, w, {}) /\ s \in Workers
  BY SelfStoreFacts DEF Follows
<1> HIDE DEF s
<1>5. Follows(v, w, own) /\ \A x \in own : Tells(v, x)
  <2>1. CASE own = {}
    BY <1>4, <2>1
  <2>2. CASE own # {}
    <3> DEFINE t == TakeGossipList(s, own)
    <3>1. Follows(t, s, own) /\ \A x \in own : Tells(t, x)
      BY <1>3, <1>4, TakeGossipFacts
    <3> HIDE DEF t
    <3>2. Follows(t, w, {} \cup own)
      BY <1>4, <3>1, FollowsTwice
    <3>3. {} \cup own = own
      OBVIOUS
    <3>4. v = t
      BY <2>2 DEF t
    <3> QED
      BY <3>1, <3>2, <3>3, <3>4
  <2> QED
    BY <2>1, <2>2
<1> HIDE DEF v
<1>6. v \in Workers /\ v.uri = w.uri /\ \A x : Tells(w, x) => Tells(v, x)
  BY <1>5 DEF Follows
<1>7. /\ worker'[a] = v /\ held'[a] = held[a] \cup xs \cup own
      /\ worker' \in [Agents -> Workers] /\ held' \in [Agents -> SUBSET Aspects]
      /\ \A b \in Agents \ {a} : worker'[b] = worker[b] /\ held'[b] = held[b]
  BY <1>1, <1>2, <1>3, <1>6
<1>8. Truthful(v, held'[a] \cup authored[a])
  <2> DEFINE S == Has(a) \cup xs
  <2>1. S = held'[a] \cup authored[a]
    BY <1>3, <1>7 DEF Has
  <2>2. own \subseteq S /\ Truthful(w, S)
    BY <1>3
  <2> HIDE DEF S
  <2>3. Truthful(v, S)
    BY <1>5, <2>2 DEF Follows
  <2> QED
    BY <2>1, <2>3
<1> QED
  BY <1>5, <1>6, <1>7, <1>8

\* Such a step keeps the invariant, if a message of the server that it reads is not
\* forgotten: it asks for something else, or the worker tells of all that is held.
LEMMA TakeKeeps ==
  ASSUME IInv, NEW a \in Agents, NEW w \in Workers, w.uri = worker[a].uri,
         NEW xs \in SUBSET Aspects, \A x \in xs : Tells(w, x), Truthful(w, Has(a) \cup xs),
         Take(a, w, xs), UNCHANGED <<store, authored, used, restarted>>,
         unpublished' \in [Agents -> SUBSET Aspects], down' \in [Uris -> SUBSET Requests],
         \A u \in Uris : u # worker[a].uri => down'[u] = down[u],
         \/ \A x \in held[a] : Tells(w, x)
         \/ /\ \A x : Tells(worker[a], x) => Tells(w, x)
            /\ worker[a].uri # Nil /\ Request("lists", Nil) \in down[worker[a].uri]
                 => Request("lists", Nil) \in down'[worker[a].uri]
  PROVE  IInv'
<1>1. /\ worker' \in [Agents -> Workers] /\ held' \in [Agents -> SUBSET Aspects]
      /\ worker'[a].uri = worker[a].uri
      /\ \A b \in Agents \ {a} : worker'[b] = worker[b] /\ held'[b] = held[b]
      /\ held[a] \subseteq held'[a]
      /\ Truthful(worker'[a], held'[a] \cup authored[a])
      /\ \A x \in held'[a] : x \in held[a] \/ Tells(worker'[a], x)
      /\ \A x : Tells(w, x) => Tells(worker'[a], x)
  BY TakeFacts
<1>2. GossipTypeOK'
  BY <1>1 DEF IInv, GossipTypeOK
<1>3. WellRouted(store'[Home])
  BY DEF IInv
<1>4. worker'[a].uri # Nil => AgentOf[worker'[a].uri] = a
  BY <1>1, AgentFacts
<1>5. \A x \in Aspects : a \in store'[Home].holding[x] => x \in held'[a] \cup authored'[a]
  BY <1>1, AgentFacts DEF Has
<1>6. Told(a)'
  <2> SUFFICES ASSUME worker[a].uri # Nil, store[Home].connections[a] = worker[a].uri,
                      NEW x \in held'[a]
               PROVE  \/ a \in store[Home].holding[x]
                      \/ Tells(worker'[a], x)
                      \/ Request("lists", Nil) \in down'[worker[a].uri]
    BY <1>1 DEF Told
  <2>1. CASE x \in held[a]
    <3>1. \/ a \in store[Home].holding[x]
          \/ Tells(worker[a], x)
          \/ Request("lists", Nil) \in down[worker[a].uri]
      BY <2>1, AgentFacts DEF Told
    <3> QED
      BY <1>1, <2>1, <3>1
  <2> QED
    BY <1>1, <2>1
<1>7. ASSUME NEW b \in Agents \ {a}, worker[b].uri # Nil
      PROVE  down[worker[b].uri] \subseteq down'[worker[b].uri]
  <2>1. worker[b].uri \in Uris /\ AgentOf[worker[b].uri] = b
    BY <1>7, AgentFacts
  <2>2. worker[b].uri # worker[a].uri
    BY <1>7, <2>1, AgentFacts
  <2> QED
    BY <2>1, <2>2
<1> QED
  BY <1>1, <1>2, <1>3, <1>4, <1>5, <1>6, <1>7, StepKeeps

\* The publication of a committed aspect keeps the invariant.
LEMMA CorePublishKeeps ==
  ASSUME IInv, NEW a \in Agents, NEW x \in Aspects, CorePublish(a, x)
  PROVE  IInv'
<1> DEFINE m == Message("publish", {x}, {})
           q == Queue(worker[a], m)
           w == TakeGossipList(q, {x})
<1>1. /\ unpublished' = [unpublished EXCEPT ![a] = @ \ {x}]
      /\ Take(a, w, {x})
      /\ UNCHANGED <<store, down, used, restarted, authored>>
  BY DEF CorePublish, Others
<1>2. m \in Messages /\ m.aspects = {x}
  BY MessageType DEF Kinds
<1> HIDE DEF m
<1>3. Follows(q, worker[a], {x}) /\ q \in Workers
  BY <1>2, AgentFacts, QueueFacts DEF Follows
<1> HIDE DEF q
<1>4. Follows(w, q, {x}) /\ \A y \in {x} : Tells(w, y)
  BY <1>3, TakeGossipFacts
<1> HIDE DEF w
<1>5. Follows(w, worker[a], {x} \cup {x})
  BY <1>3, <1>4, FollowsTwice
<1>6. Truthful(w, Has(a) \cup {x})
  <2>1. Truthful(worker[a], Has(a) \cup {x})
    BY AgentFacts DEF Truthful
  <2> QED
    BY <1>5, <2>1 DEF Follows
<1>7. w \in Workers /\ w.uri = worker[a].uri /\ \A y : Tells(worker[a], y) => Tells(w, y)
  BY <1>5 DEF Follows
<1>8. unpublished' \in [Agents -> SUBSET Aspects] /\ down' \in [Uris -> SUBSET Requests]
  BY <1>1 DEF IInv, GossipTypeOK
<1> QED
  BY <1>1, <1>4, <1>6, <1>7, <1>8, TakeKeeps

\* The handling of a message of the server by a worker keeps the invariant.
LEMMA ReceiveKeeps ==
  ASSUME IInv, NEW a \in Agents, NEW m \in Requests, Receive(a, m)
  PROVE  IInv'
<1> DEFINE u == worker[a].uri
           w == worker[a]
<1>1. /\ u # Nil /\ m \in down[u]
      /\ down' = [down EXCEPT ![u] = @ \ {m}]
      /\ UNCHANGED <<store, authored, used, restarted>>
      /\ unpublished' = unpublished
  BY DEF Receive
<1>2. u \in Uris /\ w \in Workers /\ Truthful(w, Has(a))
  BY <1>1, AgentFacts
<1>3. /\ unpublished' \in [Agents -> SUBSET Aspects] /\ down' \in [Uris -> SUBSET Requests]
      /\ down'[u] = down[u] \ {m}
      /\ \A v \in Uris : v # u => down'[v] = down[v]
  BY <1>1, <1>2 DEF IInv, GossipTypeOK
<1>4. m.op # "lists" => (Request("lists", Nil) \in down[u] => Request("lists", Nil) \in down'[u])
  <2>1. Request("lists", Nil).op = "lists"
    BY DEF Request
  <2> QED
    BY <1>3, <2>1
<1> HIDE DEF u, w
<1>5. CASE m.op = "store" /\ Take(a, TakeGossipList(w, {m.of}), {m.of})
  <2> DEFINE v == TakeGossipList(w, {m.of})
  <2>1. {m.of} \in SUBSET Aspects
    BY <1>5 DEF Requests
  <2>2. Follows(v, w, {m.of}) /\ \A y \in {m.of} : Tells(v, y)
    BY <1>2, <2>1, TakeGossipFacts
  <2>3. Take(a, v, {m.of})
    BY <1>5
  <2> HIDE DEF v
  <2>4. v \in Workers /\ v.uri = w.uri /\ \A y : Tells(w, y) => Tells(v, y)
    BY <2>2 DEF Follows
  <2>5. Truthful(v, Has(a) \cup {m.of})
    <3>1. Truthful(w, Has(a) \cup {m.of})
      BY <1>2 DEF Truthful
    <3> QED
      BY <2>2, <3>1 DEF Follows
  <2>6. Request("lists", Nil) \in down[u] => Request("lists", Nil) \in down'[u]
    BY <1>4, <1>5
  <2> QED
    BY <1>1, <1>3, <2>1, <2>2, <2>3, <2>4, <2>5, <2>6, TakeKeeps DEF u, w
<1>6. CASE m.op = "lists" /\ Take(a, TakeAuthoringList(TakeGossipList(w, held[a]), authored[a]), {})
  <2> DEFINE g == TakeGossipList(w, held[a])
             v == TakeAuthoringList(g, authored[a])
  <2>1. held[a] \in SUBSET Aspects /\ authored[a] \in SUBSET Aspects
    BY AgentFacts
  <2>2. Follows(g, w, held[a]) /\ (\A y \in held[a] : Tells(g, y)) /\ g \in Workers
    BY <1>2, <2>1, TakeGossipFacts DEF Follows
  <2>3. Take(a, v, {})
    BY <1>6
  <2> HIDE DEF g
  <2>4. Follows(v, g, authored[a])
    BY <2>1, <2>2, TakeAuthoringFacts
  <2> HIDE DEF v
  <2>5. Follows(v, w, Has(a))
    BY <2>2, <2>4, FollowsTwice DEF Has
  <2>6. v \in Workers /\ v.uri = w.uri /\ \A y \in held[a] : Tells(v, y)
    BY <2>2, <2>4, <2>5 DEF Follows
  <2>7. Truthful(v, Has(a) \cup {})
    <3>1. Has(a) \cup {} = Has(a)
      OBVIOUS
    <3> QED
      BY <1>2, <2>5, <3>1 DEF Follows
  <2> QED
    BY <1>1, <1>3, <2>3, <2>6, <2>7, TakeKeeps DEF u, w
<1>7. CASE m.op = "fetch" /\ Take(a, [w EXCEPT !.results = @ \cup (AspectsOf(m.of) \cap Servable(a))], {})
  <2> DEFINE rs == w.results \cup (AspectsOf(m.of) \cap Servable(a))
             v == [w EXCEPT !.results = rs]
  <2>1. rs \in SUBSET Aspects
    BY <1>2 DEF Workers, AspectsOf
  <2>2. Take(a, v, {})
    BY <1>7
  <2> HIDE DEF rs
  <2>3. v \in Workers /\ v.uri = w.uri /\ v.buffer = w.buffer /\ v.fatAcks = w.fatAcks
    BY <1>2, <2>1 DEF Workers
  <2> HIDE DEF v
  <2>4. (\A y : Tells(w, y) => Tells(v, y)) /\ Truthful(v, Has(a) \cup {})
    BY <1>2, <2>3 DEF Tells, Truthful
  <2>5. Request("lists", Nil) \in down[u] => Request("lists", Nil) \in down'[u]
    BY <1>4, <1>7
  <2> QED
    BY <1>1, <1>3, <2>2, <2>3, <2>4, <2>5, TakeKeeps DEF u, w
<1> QED
  BY <1>5, <1>6, <1>7 DEF Receive, w

-----------------------------------------------------------------------------
(* Steps with the server.                                                    *)

\* What the handlers answer are requests to agents; a join is answered by the
\* question for the lists.
LEMMA RepliesFacts ==
  ASSUME NEW st, NEW a \in Agents, NEW m \in Messages
  PROVE  /\ Replies(st, a, m) \subseteq Agents \X Requests
         /\ m.kind = "join" => <<a, Request("lists", Nil)>> \in Replies(st, a, m)
<1> DEFINE space == st[Home]
<1>1. m.aspects \subseteq Aspects /\ m.results \subseteq Aspects
  BY DEF Messages
<1>2. /\ Request("lists", Nil) \in Requests
      /\ \A x \in Aspects : Request("store", x) \in Requests /\ Request("fetch", EntryOf[x]) \in Requests
  BY StateAssumption DEF Request, Requests
<1>3. \A e : AgentsThatShouldHold(space, e) \subseteq Agents
  BY DEF AgentsThatShouldHold, Connected
<1>4. \A x : NeedAspect(space, x) \subseteq Agents
  BY <1>3 DEF NeedAspect
<1>5. CASE m.kind = "join"
  <2>1. Replies(st, a, m) = {<<a, Request("lists", Nil)>>}
    BY <1>5, Zenon DEF Replies
  <2> QED
    BY <1>2, <2>1
<1>6. CASE m.kind = "publish"
  <2>1. Replies(st, a, m) =
          UNION {AgentsThatShouldHold(space, EntryOf[x]) \X {Request("store", x)} : x \in m.aspects}
    BY <1>6, Zenon DEF Replies
  <2>2. \A x \in m.aspects : AgentsThatShouldHold(space, EntryOf[x]) \X {Request("store", x)} \subseteq Agents \X Requests
    BY <1>1, <1>2, <1>3
  <2> QED
    BY <1>6, <2>1, <2>2
<1>7. CASE m.kind = "authoring"
  <2>1. Replies(st, a, m) =
          {a} \X {Request("fetch", EntryOf[x]) : x \in {y \in m.aspects : NeedAspect(space, y) # {}}}
    BY <1>7, Zenon DEF Replies
  <2> QED
    BY <1>1, <1>2, <1>7, <2>1
<1>8. CASE m.kind = "multi"
  <2>1. Replies(st, a, m) = UNION {NeedAspect(space, x) \X {Request("store", x)} : x \in m.results}
    BY <1>8, Zenon DEF Replies
  <2>2. \A x \in m.results : NeedAspect(space, x) \X {Request("store", x)} \subseteq Agents \X Requests
    BY <1>1, <1>2, <1>4
  <2> QED
    BY <1>8, <2>1, <2>2
<1>9. CASE m.kind \notin {"join", "publish", "authoring", "multi"}
  <2>1. Replies(st, a, m) = {}
    BY <1>9, Zenon DEF Replies
  <2> QED
    BY <1>9, <2>1
<1> QED
  BY <1>5, <1>6, <1>7, <1>8, <1>9

\* Nothing that was sent over a live socket is lost.
LEMMA SendFacts ==
  ASSUME NEW d \in [Uris -> SUBSET Requests], NEW st, NEW out, out \subseteq Agents \X Requests
  PROVE  /\ Send(d, st, out) \in [Uris -> SUBSET Requests]
         /\ \A u \in Uris : Live(u) => d[u] \subseteq Send(d, st, out)[u]
         /\ \A u \in Uris, a \in Agents, r \in Requests :
              Live(u) /\ <<a, r>> \in out /\ LookupJoined(st, Home, a) = u => r \in Send(d, st, out)[u]
<1> DEFINE to(u) == {p[2] : p \in {q \in out : LookupJoined(st, Home, q[1]) = u}}
<1>1. ASSUME NEW u
      PROVE  to(u) \subseteq Requests
  OBVIOUS
<1>2. ASSUME NEW u, NEW a, NEW r, <<a, r>> \in out, LookupJoined(st, Home, a) = u
      PROVE  r \in to(u)
  <2>1. <<a, r>>[1] = a /\ <<a, r>>[2] = r
    OBVIOUS
  <2> QED
    BY <1>2, <2>1
<1>3. Send(d, st, out) = [u \in Uris |-> IF Live(u) THEN d[u] \cup to(u) ELSE {}]
  BY DEF Send
<1> HIDE DEF to
<1> QED
  BY <1>1, <1>2, <1>3

\* The socket of a connected worker is live, and the worker's own.
LEMMA LiveFacts ==
  ASSUME IInv, NEW a \in Agents, worker[a].uri # Nil
  PROVE  worker[a].uri \in Uris /\ AgentOf[worker[a].uri] = a /\ Live(worker[a].uri)
BY AgentFacts DEF Live

\* The tick may put what was collected into the buffer first.
LEMMA TickingFacts ==
  ASSUME IInv, NEW a \in Agents
  PROVE  LET w == Ticking(a)
         IN  /\ w \in Workers /\ w.uri = worker[a].uri
             /\ \A x : Tells(worker[a], x) => Tells(w, x)
             /\ Truthful(w, Has(a))
<1>1. worker[a] \in Workers /\ Truthful(worker[a], Has(a))
  BY AgentFacts
<1>2. Follows(CheckBatched(worker[a]), worker[a], worker[a].fatAcks)
  BY <1>1, CheckBatchedFacts
<1>3. worker[a].fatAcks \subseteq Has(a)
  BY <1>1 DEF Truthful
<1>4. Truthful(CheckBatched(worker[a]), Has(a))
  BY <1>1, <1>2, <1>3 DEF Follows
<1> QED
  BY <1>1, <1>2, <1>4 DEF Ticking, Follows

\* A message that is sent, and handled by the server, keeps the invariant.
LEMMA TransmitKeeps ==
  ASSUME IInv, NEW a \in Agents, Transmit(a)
  PROVE  IInv'
<1> DEFINE w == Ticking(a)
           m == Head(w.buffer)
           u == w.uri
           v == [(IF m.kind = "hello" THEN TakeHello(w) ELSE w) EXCEPT !.buffer = Tail(@)]
<1>1. /\ u # Nil /\ w.buffer # << >>
      /\ store' = Applied(a, u, m)
      /\ worker' = [worker EXCEPT ![a] = v]
      /\ UNCHANGED <<authored, held, unpublished, used, restarted>>
  BY DEF Transmit, agentVars
<1>2. PICK st : /\ down' = Send(down, st, Replies(st, a, m))
                /\ m.kind = "join" => st = store'
  BY DEF Transmit
<1>3. /\ w \in Workers /\ u = worker[a].uri
      /\ \A x : Tells(worker[a], x) => Tells(w, x)
      /\ Truthful(w, Has(a))
  BY TickingFacts
<1>4. u \in Uris /\ AgentOf[u] = a /\ Live(u)
  BY <1>1, <1>3, LiveFacts
<1> HIDE DEF w, u
<1>5. /\ m \in Messages
      /\ v \in Workers /\ v.uri = u
      /\ \A x : Tells(w, x) => Tells(v, x) \/ m.kind = "join" \/ (m.kind = "multi" /\ x \in m.aspects)
      /\ Truthful(v, Has(a)) /\ m.aspects \subseteq Has(a)
  BY <1>1, <1>3, ReceiptFacts DEF u
<1> HIDE DEF v, m
<1>6. /\ store \in Stores /\ WellRouted(store[Home])
      /\ worker \in [Agents -> Workers] /\ down \in [Uris -> SUBSET Requests]
  BY DEF IInv, GossipTypeOK
<1>7. /\ store' \in Stores
      /\ WellRouted(store'[Home])
      /\ \A b \in Agents \ {a} :
           /\ store'[Home].connections[b] = store[Home].connections[b]
           /\ \A x \in Aspects : b \in store'[Home].holding[x] <=> b \in store[Home].holding[x]
      /\ \A x \in Aspects : a \in store'[Home].holding[x] => a \in store[Home].holding[x] \/ x \in m.aspects
      /\ m.kind = "join" => store'[Home].connections[a] = u
      /\ m.kind # "join" =>
           /\ store'[Home].connections[a] = store[Home].connections[a]
           /\ \A x \in Aspects : a \in store[Home].holding[x] => a \in store'[Home].holding[x]
      /\ m.kind = "multi" => \A x \in m.aspects : a \in store'[Home].holding[x]
  BY <1>1, <1>4, <1>5, <1>6, AppliedFacts
<1>8. /\ down' \in [Uris -> SUBSET Requests]
      /\ \A z \in Uris : Live(z) => down[z] \subseteq down'[z]
      /\ m.kind = "join" => Request("lists", Nil) \in down'[u]
  <2> DEFINE out == Replies(st, a, m)
  <2>1. out \subseteq Agents \X Requests /\ (m.kind = "join" => <<a, Request("lists", Nil)>> \in out)
    BY <1>5, RepliesFacts
  <2>2. Request("lists", Nil) \in Requests
    BY DEF Request, Requests
  <2>3. m.kind = "join" => LookupJoined(st, Home, a) = u
    BY <1>2, <1>7 DEF LookupJoined
  <2> HIDE DEF out
  <2>4. down' = Send(down, st, out)
    BY <1>2 DEF out
  <2> QED
    BY <1>4, <1>6, <2>1, <2>2, <2>3, <2>4, SendFacts
<1>9. /\ worker' \in [Agents -> Workers] /\ worker'[a] = v
      /\ \A b \in Agents \ {a} : worker'[b] = worker[b]
  BY <1>1, <1>5, <1>6
<1>10. GossipTypeOK'
  BY <1>1, <1>7, <1>8, <1>9 DEF IInv, GossipTypeOK
<1>11. \A x \in Aspects : a \in store'[Home].holding[x] => x \in held'[a] \cup authored'[a]
  BY <1>1, <1>5, <1>7, AgentFacts DEF Has
<1>12. Truthful(worker'[a], held'[a] \cup authored'[a])
  BY <1>1, <1>5, <1>9 DEF Has
<1>13. Told(a)'
  <2> SUFFICES ASSUME store'[Home].connections[a] = u, NEW x \in held[a]
               PROVE  \/ a \in store'[Home].holding[x]
                      \/ Tells(v, x)
                      \/ Request("lists", Nil) \in down'[u]
    BY <1>1, <1>5, <1>9 DEF Told
  <2>1. x \in Aspects
    BY AgentFacts
  <2>2. CASE m.kind = "join"
    BY <1>8, <2>2
  <2>3. CASE m.kind # "join"
    <3>1. \/ a \in store[Home].holding[x]
          \/ Tells(worker[a], x)
          \/ Request("lists", Nil) \in down[u]
      BY <1>1, <1>3, <1>7, <2>3, AgentFacts DEF Told
    <3> QED
      BY <1>3, <1>4, <1>5, <1>7, <1>8, <2>1, <2>3, <3>1
  <2> QED
    BY <2>2, <2>3
<1>14. \A b \in Agents \ {a} : worker[b].uri # Nil => down[worker[b].uri] \subseteq down'[worker[b].uri]
  BY <1>8, LiveFacts
<1> QED
  BY <1>1, <1>4, <1>5, <1>7, <1>9, <1>10, <1>11, <1>12, <1>13, <1>14, StepKeeps

\* The message has come to the server and stays in the buffer all the same.
LEMMA BreakUnansweredKeeps ==
  ASSUME IInv, NEW a \in Agents, BreakUnanswered(a)
  PROVE  IInv'
<1> DEFINE w == Ticking(a)
           m == Head(w.buffer)
           u == w.uri
           v == [w EXCEPT !.uri = Nil]
           out == Replies(store', a, m)
           sent == Send(down, store', out)
<1>1. /\ u # Nil /\ w.buffer # << >>
      /\ store' = Applied(a, u, m)
      /\ down' = [sent EXCEPT ![u] = {}]
      /\ worker' = [worker EXCEPT ![a] = v]
      /\ UNCHANGED <<authored, held, unpublished, used, restarted>>
  BY DEF BreakUnanswered, agentVars
<1>2. w \in Workers /\ u = worker[a].uri /\ Truthful(w, Has(a))
  BY TickingFacts
<1>3. u \in Uris /\ AgentOf[u] = a
  BY <1>1, <1>2, LiveFacts
<1> HIDE DEF w, u
<1>4. m \in Messages /\ m.aspects \subseteq Has(a)
  <2>1. w.buffer \in Seq(Messages)
    BY <1>2 DEF Workers
  <2>2. 1 \in DOMAIN w.buffer /\ m = w.buffer[1] /\ m \in Messages
    BY <1>1, <2>1
  <2> QED
    BY <1>2, <2>2 DEF Truthful
<1>5. v \in Workers /\ v.uri = Nil /\ Truthful(v, Has(a))
  <2>1. v \in Workers /\ v.uri = Nil /\ v.buffer = w.buffer /\ v.fatAcks = w.fatAcks
    BY <1>2 DEF Workers
  <2> QED
    BY <1>2, <2>1 DEF Truthful
<1> HIDE DEF v, m
<1>6. /\ store \in Stores /\ WellRouted(store[Home])
      /\ worker \in [Agents -> Workers] /\ down \in [Uris -> SUBSET Requests]
  BY DEF IInv, GossipTypeOK
<1>7. /\ store' \in Stores
      /\ WellRouted(store'[Home])
      /\ \A b \in Agents \ {a} :
           /\ store'[Home].connections[b] = store[Home].connections[b]
           /\ \A x \in Aspects : b \in store'[Home].holding[x] <=> b \in store[Home].holding[x]
      /\ \A x \in Aspects : a \in store'[Home].holding[x] => a \in store[Home].holding[x] \/ x \in m.aspects
  BY <1>1, <1>3, <1>4, <1>6, AppliedFacts
<1>8. out \subseteq Agents \X Requests
  BY <1>4, RepliesFacts
<1> HIDE DEF out
<1>9. sent \in [Uris -> SUBSET Requests] /\ \A z \in Uris : Live(z) => down[z] \subseteq sent[z]
  BY <1>6, <1>8, SendFacts
<1> HIDE DEF sent
<1>10. /\ down' \in [Uris -> SUBSET Requests]
       /\ \A z \in Uris : Live(z) /\ z # u => down[z] \subseteq down'[z]
  BY <1>1, <1>3, <1>9
<1>11. /\ worker' \in [Agents -> Workers] /\ worker'[a] = v
       /\ \A b \in Agents \ {a} : worker'[b] = worker[b]
  BY <1>1, <1>5, <1>6
<1>12. GossipTypeOK'
  BY <1>1, <1>7, <1>10, <1>11 DEF IInv, GossipTypeOK
<1>13. \A x \in Aspects : a \in store'[Home].holding[x] => x \in held'[a] \cup authored'[a]
  BY <1>1, <1>4, <1>7, AgentFacts DEF Has
<1>14. Truthful(worker'[a], held'[a] \cup authored'[a])
  BY <1>1, <1>5, <1>11 DEF Has
<1>15. Told(a)'
  BY <1>5, <1>11 DEF Told
<1>16. ASSUME NEW b \in Agents \ {a}, worker[b].uri # Nil
       PROVE  down[worker[b].uri] \subseteq down'[worker[b].uri]
  <2>1. worker[b].uri \in Uris /\ AgentOf[worker[b].uri] = b /\ Live(worker[b].uri)
    BY <1>16, LiveFacts
  <2> QED
    BY <1>3, <1>10, <2>1
<1> QED
  BY <1>1, <1>5, <1>7, <1>11, <1>12, <1>13, <1>14, <1>15, <1>16, StepKeeps

-----------------------------------------------------------------------------
(* Steps of connections.                                                     *)

\* A step that gives agent a another worker, of which nothing is asked when it has
\* no connection, and which has to join when it has one.
LEMMA ReplaceKeeps ==
  ASSUME IInv, NEW a \in Agents, NEW v \in Workers, worker' = [worker EXCEPT ![a] = v],
         Truthful(v, Has(a)),
         v.uri # Nil => AgentOf[v.uri] = a /\ \A x : Tells(v, x),
         UNCHANGED <<store, held, authored>>, unpublished' \in [Agents -> SUBSET Aspects],
         down' \in [Uris -> SUBSET Requests],
         \A u \in Uris : u # worker[a].uri => down'[u] = down[u],
         used' \subseteq Uris, restarted' \subseteq Agents
  PROVE  IInv'
<1>1. /\ worker' \in [Agents -> Workers] /\ worker'[a] = v
      /\ \A b \in Agents \ {a} : worker'[b] = worker[b]
  BY DEF IInv, GossipTypeOK
<1>2. GossipTypeOK'
  BY <1>1 DEF IInv, GossipTypeOK
<1>3. Told(a)'
  BY <1>1 DEF Told
<1>4. Truthful(worker'[a], held'[a] \cup authored'[a])
  BY <1>1 DEF Has
<1>5. \A x \in Aspects : a \in store'[Home].holding[x] => x \in held'[a] \cup authored'[a]
  BY AgentFacts DEF Has
<1>6. ASSUME NEW b \in Agents \ {a}, worker[b].uri # Nil
      PROVE  down[worker[b].uri] \subseteq down'[worker[b].uri]
  <2>1. worker[b].uri \in Uris /\ AgentOf[worker[b].uri] = b
    BY <1>6, LiveFacts
  <2>2. worker[b].uri # worker[a].uri
    BY <1>6, <2>1, AgentFacts
  <2> QED
    BY <2>1, <2>2
<1>7. WellRouted(store'[Home])
  BY DEF IInv
<1> QED
  BY <1>1, <1>2, <1>3, <1>4, <1>5, <1>6, <1>7, StepKeeps

\* A worker's connection to the server keeps the invariant.
LEMMA ConnectKeeps ==
  ASSUME IInv, NEW a \in Agents, NEW u \in Uris, Connect(a, u)
  PROVE  IInv'
<1> DEFINE v == CheckReconnect(worker[a], u)
<1>1. /\ worker' = [worker EXCEPT ![a] = v]
      /\ used' = used \cup {u} /\ AgentOf[u] = a
      /\ UNCHANGED <<store, held, authored, unpublished, down, restarted>>
  BY DEF Connect, Spare, agentVars
<1>2. worker[a] \in Workers /\ Truthful(worker[a], Has(a))
  BY AgentFacts
<1>3. v \in Workers /\ v.uri = u /\ (\A x : Tells(v, x)) /\ Truthful(v, Has(a))
  BY <1>2, ReconnectFacts
<1> HIDE DEF v
<1>4. /\ unpublished' \in [Agents -> SUBSET Aspects] /\ down' \in [Uris -> SUBSET Requests]
      /\ used' \subseteq Uris /\ restarted' \subseteq Agents
  BY <1>1 DEF IInv, GossipTypeOK
<1> QED
  BY <1>1, <1>3, <1>4, ReplaceKeeps

\* A broken socket keeps the invariant.
LEMMA BreakKeeps ==
  ASSUME IInv, NEW a \in Agents, Break(a)
  PROVE  IInv'
<1> DEFINE u == worker[a].uri
           v == [worker[a] EXCEPT !.uri = Nil]
<1>1. /\ worker' = [worker EXCEPT ![a] = v]
      /\ down' = [down EXCEPT ![u] = {}]
      /\ UNCHANGED <<store, held, authored, unpublished, used, restarted>>
  BY DEF Break, agentVars
<1>2. worker[a] \in Workers /\ Truthful(worker[a], Has(a))
  BY AgentFacts
<1>3. v \in Workers /\ v.uri = Nil /\ v.buffer = worker[a].buffer /\ v.fatAcks = worker[a].fatAcks
  BY <1>2 DEF Workers
<1> HIDE DEF v
<1>4. Truthful(v, Has(a))
  BY <1>2, <1>3 DEF Truthful
<1>5. /\ unpublished' \in [Agents -> SUBSET Aspects] /\ down' \in [Uris -> SUBSET Requests]
      /\ used' \subseteq Uris /\ restarted' \subseteq Agents
      /\ \A z \in Uris : z # u => down'[z] = down[z]
  BY <1>1 DEF IInv, GossipTypeOK
<1> QED
  BY <1>1, <1>3, <1>4, <1>5, ReplaceKeeps

\* The restart of an agent's process keeps the invariant.
LEMMA RestartKeeps ==
  ASSUME IInv, NEW a \in Agents, Restart(a)
  PROVE  IInv'
<1>1. PICK s \in Spare(a) \cup {Nil} :
        /\ worker' = [worker EXCEPT ![a] = [NewWorker EXCEPT !.uri = s]]
        /\ used' = used \cup ({s} \ {Nil})
  BY DEF Restart
<1> DEFINE v == [NewWorker EXCEPT !.uri = s]
<1>2. /\ restarted' = restarted \cup {a}
      /\ down' = [u \in Uris |-> IF worker[a].uri = u THEN {} ELSE down[u]]
      /\ unpublished' = [unpublished EXCEPT ![a] = {}]
      /\ UNCHANGED <<store, held, authored>>
  BY DEF Restart
<1>3. s \in Uris \cup {Nil} /\ (s # Nil => AgentOf[s] = a)
  BY <1>1 DEF Spare
<1>4. v \in Workers /\ v.uri = s /\ (\A x : Tells(v, x)) /\ Truthful(v, Has(a))
  <2>1. v \in Workers /\ v.uri = s /\ v.buffer = NewWorker.buffer /\ v.fatAcks = NewWorker.fatAcks
    BY <1>3, NewWorkerFacts DEF Workers
  <2> HIDE DEF v
  <2> QED
    BY <2>1, NewWorkerFacts DEF Tells, Truthful
<1>5. worker' = [worker EXCEPT ![a] = v]
  BY <1>1
<1> HIDE DEF v
<1>6. /\ unpublished' \in [Agents -> SUBSET Aspects] /\ down' \in [Uris -> SUBSET Requests]
      /\ used' \subseteq Uris /\ restarted' \subseteq Agents
      /\ \A z \in Uris : z # worker[a].uri => down'[z] = down[z]
  BY <1>1, <1>2, <1>3 DEF IInv, GossipTypeOK
<1> QED
  BY <1>2, <1>3, <1>4, <1>5, <1>6, ReplaceKeeps

\* A socket that is gone is not the one of an agent that is connected.
LEMMA DisconnectKeeps ==
  ASSUME IInv, NEW u \in Uris, Disconnect(u)
  PROVE  IInv'
<1>1. /\ ~Live(u)
      /\ store' = DropConnectionByUri(store, u)
      /\ UNCHANGED <<worker, authored, held, unpublished, down, used, restarted>>
  BY DEF Disconnect, agentVars
<1>2. /\ store' \in Stores
      /\ WellRouted(store'[Home])
      /\ \A x \in Aspects : store'[Home].holding[x] \subseteq store[Home].holding[x]
      /\ \A b \in Agents :
           \/ store'[Home].connections[b] = Nil
           \/ /\ store'[Home].connections[b] = store[Home].connections[b]
              /\ \A x \in Aspects : b \in store[Home].holding[x] => b \in store'[Home].holding[x]
  BY <1>1, DisconnectFacts DEF IInv, GossipTypeOK
<1>3. GossipTypeOK'
  BY <1>1, <1>2 DEF IInv, GossipTypeOK
<1>4. OwnSocket' /\ NotesAreTrue'
  BY <1>1 DEF IInv, OwnSocket, NotesAreTrue, Has
<1>5. Honest'
  BY <1>1, <1>2 DEF IInv, Honest, Has
<1>6. ASSUME NEW b \in Agents
      PROVE  Told(b)'
  <2>1. Told(b) /\ held[b] \subseteq Aspects
    BY AgentFacts
  <2> QED
    BY <1>1, <1>2, <2>1 DEF Told
<1> QED
  BY <1>2, <1>3, <1>4, <1>5, <1>6 DEF IInv

\* The resync's request for an entry keeps the invariant.
LEMMA AskKeeps ==
  ASSUME IInv, NEW e \in Entries, NEW a \in Agents, Ask(e, a)
  PROVE  IInv'
<1> DEFINE out == {<<a, Request("fetch", e)>>}
<1>1. /\ down' = Send(down, store, out)
      /\ UNCHANGED <<store, worker, authored, held, unpublished, used, restarted>>
  BY DEF Ask, agentVars
<1>2. out \subseteq Agents \X Requests /\ down \in [Uris -> SUBSET Requests]
  BY DEF Request, Requests, IInv, GossipTypeOK
<1> HIDE DEF out
<1>3. down' \in [Uris -> SUBSET Requests] /\ \A z \in Uris : Live(z) => down[z] \subseteq down'[z]
  BY <1>1, <1>2, SendFacts
<1>4. GossipTypeOK'
  BY <1>1, <1>3 DEF IInv, GossipTypeOK
<1>5. WellRouted(store'[Home]) /\ OwnSocket' /\ NotesAreTrue' /\ Honest'
  BY <1>1 DEF IInv, OwnSocket, NotesAreTrue, Honest, Has
<1>6. ASSUME NEW b \in Agents
      PROVE  Told(b)'
  <2>1. worker[b].uri # Nil => down[worker[b].uri] \subseteq down'[worker[b].uri]
    BY <1>3, LiveFacts
  <2> QED
    BY <1>1, <2>1, AgentFacts DEF Told
<1> QED
  BY <1>4, <1>5, <1>6 DEF IInv

-----------------------------------------------------------------------------
(* The initial state.                                                        *)

\* The settled agents at the start: the invariant holds.
LEMMA InitIInv == Init => IInv
<1> SUFFICES ASSUME Init PROVE IInv
  OBVIOUS
<1> DEFINE Sockets(a) == {u \in Settled : AgentOf[u] = a}
           Here(a) == IF Sockets(a) = {} THEN Nil ELSE CHOOSE u \in Sockets(a) : TRUE
           Mine(a) == {x \in Published : AuthorOf[x] = a}
           Listed(a) == {x \in Published \cup Unsent : AuthorOf[x] = a}
           conn == [a \in Agents |-> Here(a)]
           utc == [u \in Uris |-> IF u \in Settled THEN AgentOf[u] ELSE Nil]
           hold == [x \in Aspects |-> {a \in Agents : x \in Listed(a)}]
           sp == [EmptySpace EXCEPT !.connections = conn, !.uriToConnection = utc,
                                    !.aspects = Published \cup Unsent, !.holding = hold]
           settled(a) == [TakeHello(NewWorker) EXCEPT !.uri = Here(a), !.buffer = << >>,
                                                      !.selfStored = (Redundancy = 0)]
           first(a) == IF Sockets(a) = {} THEN NewWorker ELSE settled(a)
<1>1. /\ store = [EmptyStore EXCEPT ![Home] = [@ EXCEPT !.connections = conn,
                     !.uriToConnection = utc, !.aspects = Published \cup Unsent, !.holding = hold]]
      /\ worker = [a \in Agents |-> first(a)]
      /\ authored = [a \in Agents |-> Listed(a)] /\ held = [a \in Agents |-> Mine(a)]
      /\ unpublished = [a \in Agents |-> {}] /\ down = [u \in Uris |-> {}]
      /\ used = Settled /\ restarted = {}
  BY DEF Init
<1>2. /\ Settled \subseteq Uris /\ Published \subseteq Aspects /\ Unsent \subseteq Aspects
      /\ \A u, v \in Settled : AgentOf[u] = AgentOf[v] => u = v
      /\ Nil \notin Uris /\ Nil \notin Agents /\ \A u \in Uris : AgentOf[u] \in Agents
  BY GossipAssumption, StateAssumption
<1>3. ASSUME NEW a \in Agents
      PROVE  /\ Here(a) \in Uris \cup {Nil}
             /\ Here(a) # Nil => Here(a) \in Settled /\ AgentOf[Here(a)] = a
             /\ Mine(a) \subseteq Listed(a) /\ Listed(a) \subseteq Aspects
  <2>1. Mine(a) \subseteq Listed(a) /\ Listed(a) \subseteq Aspects
    BY <1>2
  <2>2. CASE Sockets(a) = {}
    BY <2>1, <2>2
  <2>3. CASE Sockets(a) # {}
    <3>1. Here(a) \in Sockets(a)
      BY <2>3
    <3> QED
      BY <1>2, <2>1, <3>1
  <2> QED
    BY <2>2, <2>3
<1>4. ASSUME NEW u \in Settled
      PROVE  Here(AgentOf[u]) = u
  <2>1. u \in Sockets(AgentOf[u])
    OBVIOUS
  <2>2. Here(AgentOf[u]) \in Sockets(AgentOf[u])
    BY <2>1
  <2> QED
    BY <1>2, <2>2
<1>5. ASSUME NEW a \in Agents
      PROVE  /\ first(a) \in Workers
             /\ first(a).uri = Here(a)
             /\ Truthful(first(a), {})
  <2>1. CASE Sockets(a) = {}
    BY <2>1, NewWorkerFacts
  <2>2. CASE Sockets(a) # {}
    <3>1. NewWorker \in Workers /\ NewWorker.fatAcks = {}
      BY NewWorkerFacts
    <3>2. TakeHello(NewWorker) \in Workers /\ TakeHello(NewWorker).fatAcks = {}
      <4>1. TakeHello(NewWorker) = [NewWorker EXCEPT !.fullSync = (Redundancy = 0)]
        BY DEF TakeHello
      <4> QED
        BY <3>1, <4>1 DEF Workers
    <3>3. first(a) = settled(a)
      BY <2>2
    <3>4. Here(a) \in Uris \cup {Nil}
      BY <1>3
    <3> HIDE DEF first, Here
    <3>5. /\ settled(a) \in Workers /\ settled(a).uri = Here(a)
          /\ settled(a).buffer = << >> /\ settled(a).fatAcks = {}
      <4>1. << >> \in Seq(Messages)
        OBVIOUS
      <4> QED
        BY <3>2, <3>4, <4>1 DEF Workers
    <3> HIDE DEF settled
    <3>6. Truthful(settled(a), {})
      BY <3>5 DEF Truthful
    <3> QED
      BY <3>3, <3>5, <3>6
  <2> QED
    BY <2>1, <2>2
<1>6. /\ conn \in [Agents -> Uris \cup {Nil}] /\ utc \in [Uris -> Agents \cup {Nil}]
      /\ hold \in [Aspects -> SUBSET Agents]
      /\ \A a \in Agents : conn[a] = Here(a)
      /\ \A u \in Uris : utc[u] = IF u \in Settled THEN AgentOf[u] ELSE Nil
      /\ \A a \in Agents, x \in Aspects : a \in hold[x] <=> x \in Listed(a)
  BY <1>2, <1>3
<1> HIDE DEF conn, utc, hold, Here, Mine, Listed, Sockets, first
<1>7. store \in Stores /\ store[Home] = sp /\ sp \in Space
      /\ sp.connections = conn /\ sp.uriToConnection = utc /\ sp.holding = hold
  <2>1. /\ sp \in Space /\ sp.connections = conn /\ sp.uriToConnection = utc /\ sp.holding = hold
    BY <1>2, <1>6, EmptyFacts DEF Space
  <2>2. EmptyStore[Home] = EmptySpace
    BY HomeIsSpace DEF EmptyStore
  <2>3. store = [EmptyStore EXCEPT ![Home] = sp]
    BY <1>1, <2>2
  <2> HIDE DEF sp
  <2> QED
    BY <2>1, <2>3, HomeIsSpace, EmptyFacts DEF Stores
<1> HIDE DEF sp
<1>8. WellRouted(sp)
  <2>1. \A u \in Uris : utc[u] \in {Nil, AgentOf[u]}
    BY <1>6
  <2>2. ASSUME NEW a \in Agents, NEW u \in Uris
        PROVE  conn[a] = u <=> utc[u] = a
    <3>1. utc[u] = a => conn[a] = u
      BY <1>2, <1>4, <1>6
    <3>2. conn[a] = u => utc[u] = a
      BY <1>2, <1>3, <1>6
    <3> QED
      BY <3>1, <3>2
  <2> QED
    BY <1>7, <2>1, <2>2 DEF WellRouted, RoutesAgree
<1>9. GossipTypeOK
  BY <1>1, <1>2, <1>3, <1>5, <1>7 DEF GossipTypeOK
<1>10. OwnSocket
  BY <1>1, <1>3, <1>5 DEF OwnSocket
<1>11. NotesAreTrue
  BY <1>1, <1>5 DEF NotesAreTrue, Truthful
<1>12. ASSUME NEW a \in Agents, NEW x \in Aspects
       PROVE  /\ x \in held[a] => a \in store[Home].holding[x]
              /\ a \in store[Home].holding[x] => x \in authored[a]
  BY <1>1, <1>3, <1>6, <1>7
<1>13. Honest
  BY <1>12 DEF Honest, Has
<1>14. \A a \in Agents : Told(a)
  <2>1. \A a \in Agents : held[a] \subseteq Aspects
    BY <1>9 DEF GossipTypeOK
  <2> QED
    BY <1>12, <2>1 DEF Told
<1> QED
  BY <1>7, <1>8, <1>9, <1>10, <1>11, <1>13, <1>14 DEF IInv

-----------------------------------------------------------------------------
(* Theorems.                                                                 *)

\* Every step of workers and server keeps the invariant.
LEMMA NextIInv ==
  ASSUME IInv, [Next]_vars
  PROVE  IInv'
<1>1. CASE UNCHANGED vars
  BY <1>1
  DEF vars, IInv, GossipTypeOK, OwnSocket, NotesAreTrue, Honest, Told, Has
<1>2. CASE Next
  BY <1>2, CommitKeeps, CorePublishKeeps, ReceiveKeeps, TransmitKeeps, ConnectKeeps, BreakKeeps,
     BreakUnansweredKeeps, RestartKeeps, DisconnectKeeps, AskKeeps
  DEF Next
<1> QED
  BY <1>1, <1>2

\* The invariant of workers, cores and server.
THEOREM GossipInvariance == Spec => []IInv
<1> QED
  BY InitIInv, NextIInv, PTL DEF Spec

\* For any number of agents, sockets and aspects, and any sharding: what the server
\* takes an agent to hold, the agent has, and what a joined agent holds the server
\* knows or will be told, whatever breaks, restarts and repetitions there are:
\* HoldingsAgree.
THEOREM HoldingsAlwaysAgree == Spec => []HoldingsAgree
<1>1. ASSUME IInv
      PROVE  HoldingsAgree
  <2>1. \A a \in Agents, x \in Aspects :
          a \in store[Home].holding[x] => x \in held[a] \cup authored[a]
    BY <1>1 DEF IInv, Honest, Has
  <2>2. ASSUME NEW u \in Uris, Live(u), LookupJoined(store, Home, AgentOf[u]) = u,
               NEW x \in held[AgentOf[u]]
        PROVE  AgentOf[u] \in store[Home].holding[x] \/ OnItsWay(AgentOf[u], x)
    <3> DEFINE a == AgentOf[u]
    <3>1. a \in Agents /\ worker[a].uri = u /\ u # Nil /\ store[Home].connections[a] = u
      BY <2>2, StateAssumption DEF Live, LookupJoined
    <3>2. Told(a)
      BY <1>1, <3>1 DEF IInv
    <3>3. \/ a \in store[Home].holding[x]
          \/ Tells(worker[a], x)
          \/ Request("lists", Nil) \in down[worker[a].uri]
      BY <2>2, <3>1, <3>2 DEF Told
    <3> QED
      BY <3>3 DEF Tells, OnItsWay
  <2> QED
    BY <2>1, <2>2 DEF HoldingsAgree
<1> QED
  BY GossipInvariance, <1>1, PTL
=============================================================================
