---------------------------- MODULE Sim2hGossip ----------------------------
(***************************************************************************)
(* How the aspects of entries get from their authors to all that should    *)
(* hold them: the workers of the agents, the server's handlers of what     *)
(* they publish, list and fetch, and its resync of missing aspects, in one *)
(* space. An instance may lose its connection, and may restart.            *)
(*                                                                         *)
(* The server acts on one copy of its state; that the snapshot follows the *)
(* store is shown in Sim2h, and where it may still be old when it is read  *)
(* both are tried here. A message counts as sent when the server has       *)
(* processed it: its receipt comes, or the connection breaks first.        *)
(***************************************************************************)
EXTENDS Sim2hWorker

CONSTANTS
  AuthorOf,     \* aspect -> its author
  HeaderAspects, \* the aspects whose entry stands for a chain header
  Settled,      \* uris of the agents that are joined at the start, one of each
  Published,    \* the aspects that their authors, which are joined, have published already
  Unsent,       \* chain headers that they committed before a restart and never published
  MayRestart    \* bound: the agents that may restart, once each

ASSUME GossipAssumption ==
  /\ AuthorOf \in [Aspects -> Agents]
  /\ Unsent \subseteq HeaderAspects /\ HeaderAspects \subseteq Aspects
  /\ MayRestart \subseteq Agents
  /\ Settled \subseteq Uris
  /\ \A u, v \in Settled : AgentOf[u] = AgentOf[v] => u = v
  /\ Published \cup Unsent \subseteq {x \in Aspects : \E u \in Settled : AgentOf[u] = AuthorOf[x]}
  /\ Uris # {}
  /\ \A u, v \in Uris : SpaceOf[u] = SpaceOf[v]

VARIABLES
  store,      \* the server's state
  worker,     \* of each agent: its worker
  authored,   \* of each agent: the aspects of its chain
  held,       \* of each agent: its holding map
  unpublished, \* of each agent: the committed aspects that its core has still to publish
  down,       \* of each socket: messages from the server
  used,       \* the sockets that have been opened
  restarted   \* the agents that have restarted

vars == <<store, worker, authored, held, unpublished, down, used, restarted>>

agentVars == <<authored, held, unpublished>>

Home == CHOOSE s \in Spaces : \E u \in Uris : SpaceOf[u] = s

AspectsOf(e) == {x \in Aspects : EntryOf[x] = e}

Live(u) == worker[AgentOf[u]].uri = u

\* What the server tells an agent.
Requests ==
  [op : {"store"}, of : Aspects] \cup [op : {"fetch"}, of : Entries] \cup [op : {"lists"}, of : {Nil}]

Request(op, x) == [op |-> op, of |-> x]

-----------------------------------------------------------------------------
(* The server.                                                             *)

\* Sends to agents over the sockets that a state knows for them: what is sent to
\* a socket that is gone is lost.
Send(d, state, out) ==
  [u \in Uris |-> IF Live(u)
                  THEN d[u] \cup {p[2] : p \in {q \in out : LookupJoined(state, Home, q[1]) = u}}
                  ELSE {}]

\* get_agents_that_need_aspect: none for an aspect that is not known yet.
NeedAspect(space, x) ==
  IF x \in space.aspects THEN AgentsThatShouldHold(space, EntryOf[x]) \ space.holding[x] ELSE {}

\* What the handlers answer, to whom, by the state they read. An aspect that is
\* published goes to all that should hold its entry; the author of a list is asked
\* for the entries of which others need an aspect; one that was fetched goes to
\* those that need it.
Replies(state, a, m) ==
  LET space == state[Home]
  IN  CASE m.kind = "join" ->
             {<<a, Request("lists", Nil)>>}
        [] m.kind = "publish" ->
             UNION {AgentsThatShouldHold(space, EntryOf[x]) \X {Request("store", x)} : x \in m.aspects}
        [] m.kind = "authoring" ->
             {a} \X {Request("fetch", EntryOf[x]) : x \in {y \in m.aspects : NeedAspect(space, y) # {}}}
        [] m.kind = "multi" ->
             UNION {NeedAspect(space, x) \X {Request("store", x)} : x \in m.results}
        [] OTHER -> {}

\* Mutant of Applied: those that a published aspect is sent to count as holders.
AppliedMarks(a, u, m) ==
  CASE m.kind = "join" -> NewConnection(store, Home, a, u)
    [] m.kind = "publish" ->
         [store EXCEPT ![Home].aspects = @ \cup m.aspects,
                       ![Home].holding = [x \in Aspects |->
                          IF x \in m.aspects THEN AgentsThatShouldHold(store[Home], EntryOf[x]) ELSE @[x]]]
    [] OTHER -> AgentHoldsAspects(store, Home, a, m.aspects)

\* What they do to the state: a join connects the agent and forgets what it holds;
\* who sends a list, of held aspects or of authored ones, counts as their holder.
\* Those that something is sent to do not, as "send not guaranteed to work".
Applied(a, u, m) ==
  CASE m.kind = "join" -> NewConnection(store, Home, a, u)
    [] m.kind \in {"authoring", "multi"} -> AgentHoldsAspects(store, Home, a, m.aspects)
    [] OTHER -> store

\* Sim2hHandle::handle_message: all but hello and join need the sender to be joined.
Accepted(u, m) == m.kind \in {"hello", "join"} \/ SpacesOfUri(store, u) # {}

\* The Disconnect of a socket that is gone.
Disconnect(u) ==
  /\ u \in used /\ ~Live(u)
  /\ SpacesOfUri(store, u) # {}
  /\ store' = DropConnectionByUri(store, u)
  /\ UNCHANGED <<worker, agentVars, down, used, restarted>>

\* get_gossip_aspects_needed_for_agent: somebody lacks an aspect of the entry.
Missing(space, e) == \E x \in AspectsOf(e) : NeedAspect(space, x) # {}

Batched(a) == \E i \in DOMAIN worker[a].buffer : worker[a].buffer[i].kind = "multi"

\* An earlier request to an agent, or its answer, is under way.
Answering(a) ==
  \/ \E u \in Uris, e \in Entries : AgentOf[u] = a /\ Request("fetch", e) \in down[u]
  \/ worker[a].results # {} \/ Batched(a)

\* missing_aspects_resync and fetch_entry_data: one of the agents that are taken
\* to have the entry is asked for it. The code asks for an entry once in a second
\* at most (check_already_fetched). Bound: it is taken that an answer arrives within
\* that, and that an agent is asked for one entry after the other; several requests
\* at a time come of a list of what it authored.
Ask(e, a) ==
  /\ ~Answering(a)
  /\ UNCHANGED <<store, worker, agentVars, used, restarted>>
  /\ Missing(store[Home], e)
  /\ a \in AgentsForQuery(store[Home], e, Nil)
  /\ down' = Send(down, store, {<<a, Request("fetch", e)>>})

-----------------------------------------------------------------------------
(* The agents.                                                             *)

Others == <<store, down, used, restarted>>

\* fetch_aspects_for_entry: what a core can send. The entry of a chain header is on
\* the authoring list, but is looked for in the DHT store only, where it is once it
\* is held.
Servable(a) == held[a] \cup (authored[a] \ HeaderAspects)

\* Core holds xs in addition, and its worker is w. If both lists have come, the
\* worker asks its core for what is authored and not held, and has it stored.
\* What a core is told to store counts as held: the time it spends in the queue
\* is the subject of HoldingQueue.
Take(a, w, xs) ==
  LET own == {x \in Servable(a) : EntryOf[x] \in ToFetch(w)}
  IN  /\ held' = [held EXCEPT ![a] = @ \cup xs \cup own]
      /\ worker' = [worker EXCEPT ![a] = IF own = {} THEN SelfStore(w) ELSE TakeGossipList(SelfStore(w), own)]

Commit(a, x) ==
  /\ AuthorOf[x] = a /\ x \notin authored[a]
  /\ authored' = [authored EXCEPT ![a] = @ \cup {x}]
  /\ unpublished' = [unpublished EXCEPT ![a] = @ \cup {x}]
  /\ UNCHANGED <<Others, worker, held>>

\* PublishEntry goes to the server and, as something to store, back to core, which
\* reports that it holds the aspect.
CorePublish(a, x) ==
  /\ x \in unpublished[a]
  /\ unpublished' = [unpublished EXCEPT ![a] = @ \ {x}]
  /\ Take(a, TakeGossipList(Queue(worker[a], Message("publish", {x}, {})), {x}), {x})
  /\ UNCHANGED <<Others, authored>>

\* The tick reads a message of the server, which core answers.
Receive(a, m) ==
  LET u == worker[a].uri  w == worker[a]
  IN  /\ u # Nil
      /\ m \in down[u]
      /\ down' = [down EXCEPT ![u] = @ \ {m}]
      /\ \/ m.op = "store" /\ Take(a, TakeGossipList(w, {m.of}), {m.of})
         \/ m.op = "lists" /\ Take(a, TakeAuthoringList(TakeGossipList(w, held[a]), authored[a]), {})
         \/ /\ m.op = "fetch"
            /\ Take(a, [w EXCEPT !.results = @ \cup (AspectsOf(m.of) \cap Servable(a))], {})
      /\ UNCHANGED <<store, used, restarted, authored, unpublished>>

\* The sockets that an agent may still open.
Spare(a) == {u \in Uris \ used : AgentOf[u] = a}

\* The worker as a tick sends from it. Bound: what is batched is put in the buffer
\* when nothing else waits there, and else one tick later.
Ticking(a) == IF worker[a].buffer = << >> THEN CheckBatched(worker[a]) ELSE worker[a]

\* try_send_from_outgoing_buffer: the receipt takes the message off the buffer.
\* The handlers of lists and results may read a state without what they have
\* changed themselves. The join is the first message on a socket, so that none is
\* refused.
Transmit(a) ==
  LET w == Ticking(a)  m == Head(w.buffer)
  IN  /\ w.uri # Nil
      /\ w.buffer # << >>
      /\ worker' = [worker EXCEPT ![a] =
                      [(IF m.kind = "hello" THEN TakeHello(w) ELSE w) EXCEPT !.buffer = Tail(@)]]
      /\ UNCHANGED <<agentVars, used, restarted>>
      /\ Accepted(w.uri, m)
      /\ store' = Applied(a, w.uri, m)
      /\ \E state \in {store', IF m.kind = "join" THEN store' ELSE store} :
           down' = Send(down, state, Replies(state, a, m))

Connect(a, u) ==
  /\ worker[a].uri = Nil
  /\ u \in Spare(a)
  /\ used' = used \cup {u}
  /\ worker' = [worker EXCEPT ![a] = CheckReconnect(@, u)]
  /\ UNCHANGED <<store, agentVars, down, restarted>>

Break(a) ==
  LET u == worker[a].uri
  IN  /\ u # Nil /\ Spare(a) # {}
      /\ worker' = [worker EXCEPT ![a].uri = Nil]
      /\ down' = [down EXCEPT ![u] = {}]
      /\ UNCHANGED <<store, agentVars, used, restarted>>

\* The server has processed a message, and the connection ends before its receipt
\* is read: the message stays in the buffer and will be sent again.
BreakUnanswered(a) ==
  LET w == Ticking(a)  m == Head(w.buffer)
  IN  /\ w.uri # Nil /\ Spare(a) # {}
      /\ w.buffer # << >>
      /\ m.kind # "hello"
      /\ Accepted(w.uri, m)
      /\ store' = Applied(a, w.uri, m)
      /\ down' = [Send(down, store', Replies(store', a, m)) EXCEPT ![w.uri] = {}]
      /\ worker' = [worker EXCEPT ![a] = [w EXCEPT !.uri = Nil]]
      /\ UNCHANGED <<agentVars, used, restarted>>

\* The process of the instance ends and starts again: chain and holding map are
\* on disk, the worker is new, and what was about to be published is forgotten.
\* The new worker may connect before core asks it to join.
Restart(a) ==
  /\ a \in MayRestart \ restarted
  /\ Spare(a) # {}
  /\ restarted' = restarted \cup {a}
  /\ \E v \in Spare(a) \cup {Nil} :
       /\ worker' = [worker EXCEPT ![a] = [NewWorker EXCEPT !.uri = v]]
       /\ used' = used \cup ({v} \ {Nil})
  /\ down' = [u \in Uris |-> IF worker[a].uri = u THEN {} ELSE down[u]]
  /\ unpublished' = [unpublished EXCEPT ![a] = {}]
  /\ UNCHANGED <<store, authored, held>>

\* Settled agents have joined, hold what they have published, and have reported it
\* and listed what is unsent; the aspects that they lack are still missing.
Init ==
  LET Sockets(a) == {u \in Settled : AgentOf[u] = a}
      Here(a) == IF Sockets(a) = {} THEN Nil ELSE CHOOSE u \in Sockets(a) : TRUE
      By(xs, a) == {x \in xs : AuthorOf[x] = a}
  IN  /\ store = [EmptyStore EXCEPT ![Home] =
                    [@ EXCEPT !.connections = [a \in Agents |-> Here(a)],
                              !.uriToConnection = [u \in Uris |-> IF u \in Settled THEN AgentOf[u] ELSE Nil],
                              !.aspects = Published \cup Unsent,
                              !.holding = [x \in Aspects |->
                                 {a \in Agents : x \in By(Published \cup Unsent, a)}]]]
      /\ worker = [a \in Agents |->
                     IF Sockets(a) = {} THEN NewWorker
                     ELSE [TakeHello(NewWorker) EXCEPT !.uri = Here(a), !.buffer = << >>,
                                                       !.selfStored = Redundancy = 0]]
      /\ authored = [a \in Agents |-> By(Published \cup Unsent, a)]
      /\ held = [a \in Agents |-> By(Published, a)]
      /\ unpublished = [a \in Agents |-> {}]
      /\ down = [u \in Uris |-> {}]
      /\ used = Settled
      /\ restarted = {}

Next ==
  \/ \E a \in Agents :
       \/ \E x \in Aspects : Commit(a, x) \/ CorePublish(a, x)
       \/ \E m \in Requests : Receive(a, m)
       \/ Transmit(a)
       \/ \E u \in Uris : Connect(a, u)
       \/ Break(a) \/ BreakUnanswered(a)
       \/ Restart(a)
  \/ \E u \in Uris : Disconnect(u)
  \/ \E e \in Entries : \E a \in Agents : Ask(e, a)

Spec == Init /\ [][Next]_vars

\* Ticks, action loops and the server's tasks go on; the server asks each of the
\* agents that it may ask again and again, as it picks one at random. A
\* socket is read in order, so that no message waits for ever; it is enough to say
\* so of each fetch, which may be sent over and over, and of all others together.
\* Commits and sockets are finitely many, so that it is enough that one publication,
\* and one Disconnect, after the other is made.
Fairness ==
  /\ \A a \in Agents :
       /\ WF_vars(\E x \in Aspects : CorePublish(a, x))
       /\ WF_vars(\E m \in Requests : m.op # "fetch" /\ Receive(a, m))
       /\ \A e \in Entries : WF_vars(Receive(a, Request("fetch", e)))
       /\ WF_vars(Transmit(a))
       /\ WF_vars(\E u \in Uris : Connect(a, u))
  /\ WF_vars(\E u \in Uris : Disconnect(u))
  /\ \A e \in Entries, a \in Agents : SF_vars(Ask(e, a))

FairSpec == Spec /\ Fairness

-----------------------------------------------------------------------------
(* Properties.                                                             *)

\* The worker has still to tell the server of an aspect.
OnItsWay(a, x) ==
  \/ x \in worker[a].fatAcks
  \/ \E i \in DOMAIN worker[a].buffer :
       LET m == worker[a].buffer[i]
       IN  m.kind = "join" \/ (m.kind = "multi" /\ x \in m.aspects)
  \/ Request("lists", Nil) \in down[worker[a].uri]

\* What the server takes an agent to hold, the agent has; and what an agent holds
\* the server knows of or will be told of, as long as the agent is joined. A break,
\* a restart, a repeated message and the forgetting of an agent's holdings that
\* goes with each join leave no gap between the two.
HoldingsAgree ==
  /\ \A a \in Agents, x \in Aspects :
       a \in store[Home].holding[x] => x \in held[a] \cup authored[a]
  /\ \A u \in Uris :
       LET a == AgentOf[u]
       IN  Live(u) /\ LookupJoined(store, Home, a) = u =>
             \A x \in held[a] : a \in store[Home].holding[x] \/ OnItsWay(a, x)

\* In a full sync, what an agent has committed or holds comes to be held by all
\* agents, whatever was lost when a connection broke or a process ended: each
\* agent comes back and is taken in, lists what it has, and the server goes on
\* asking for what is missing. The entries of chain headers are excepted until
\* somebody holds them: one that was committed and not published before its
\* author's process ended is listed and asked for, and is never sent.
Resynced == <>[](\A a, b \in Agents : Servable(a) \subseteq held[b])
=============================================================================
