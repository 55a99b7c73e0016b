----------------------------- MODULE Sim2hState -----------------------------
(***************************************************************************)
(* The state of a sim2h server (sim2h/src/sim2h_im_state.rs) as a value,   *)
(* and the mutations and queries on it as operators. Who applies them, and *)
(* on which copy of the state, is modelled by the modules that extend this *)
(* one.                                                                    *)
(*                                                                         *)
(* A store maps every space to its record. A space that is absent from the *)
(* map answers every query as the EmptySpace does, so get_space_mut, which *)
(* inserts a new Space, and check_drop_spaces, which removes one, need no  *)
(* flag of their own. An aspect stands for an aspect hash under one entry  *)
(* hash, as the same aspect under two entries is tracked twice.            *)
(***************************************************************************)
EXTENDS NaiveSharding, FiniteSets

CONSTANTS
  Agents,       \* AgentId
  Uris,         \* connections: every socket gets a fresh uri
  Spaces,       \* SpaceHash
  Entries,      \* EntryHash
  Aspects,      \* AspectHash
  Nil,          \* no agent, no uri
  EntryOf,      \* aspect -> the entry it belongs to
  AgentOf,      \* uri -> the agent whose worker opened the socket
  SpaceOf,      \* uri -> the space that worker joins
  AgentLoc,     \* agent -> its location on the ring
  EntryLoc,     \* entry -> its location on the ring
  Redundancy    \* redundant_count, 0 for DhtAlgorithm::FullSync

ASSUME StateAssumption ==
  /\ Nil \notin Agents \cup Uris
  /\ EntryOf \in [Aspects -> Entries]
  /\ AgentOf \in [Uris -> Agents]
  /\ SpaceOf \in [Uris -> Spaces]
  /\ AgentLoc \in [Agents -> Location]
  /\ EntryLoc \in [Entries -> Location]
  /\ Redundancy \in Nat

-----------------------------------------------------------------------------
(* The record of a space: connections (agent to uri) and its inverse       *)
(* uri_to_connection; entry_to_all_aspects as the set of aspects that are  *)
(* known and who holds each; and disconnect_uri, the replaced sockets that *)
(* are to be closed (in no order, each once).                              *)

Space == [connections : [Agents -> Uris \cup {Nil}],
          uriToConnection : [Uris -> Agents \cup {Nil}],
          aspects : SUBSET Aspects,
          holding : [Aspects -> SUBSET Agents],
          disconnectUri : SUBSET Uris]

Stores == [Spaces -> Space]

EmptySpace == [connections |-> [a \in Agents |-> Nil],
               uriToConnection |-> [u \in Uris |-> Nil],
               aspects |-> {},
               holding |-> [x \in Aspects |-> {}],
               disconnectUri |-> {}]

EmptyStore == [s \in Spaces |-> EmptySpace]

Connected(space) == {a \in Agents : space.connections[a] # Nil}

-----------------------------------------------------------------------------
(* Mutations.                                                              *)

\* clear_holding
ClearHolding(holding, a) == [x \in Aspects |-> holding[x] \ {a}]

\* Mutant of CheckInsertConnection: the entry of a replaced uri stays.
KeepReplacedUri(space, a, u) ==
  [space EXCEPT !.connections[a] = u,
                !.uriToConnection[u] = a,
                !.holding = ClearHolding(@, a),
                !.disconnectUri =
                   IF space.connections[a] = Nil THEN @
                   ELSE @ \cup {space.connections[a]}]

\* Mutant of CheckInsertConnection: the old uri is pushed on the list even if
\* there was none.
PushAnyUri(space, a, u) ==
  LET old == space.connections[a] IN
  [space EXCEPT
     !.connections[a] = u,
     !.uriToConnection =
        [v \in Uris |-> IF v = u THEN a ELSE IF v = old THEN Nil ELSE @[v]],
     !.holding = ClearHolding(@, a),
     !.disconnectUri = @ \cup {old}]

\* Space::check_insert_connection: the agent's uri is replaced, the old one
\* forgotten and put on the list of sockets to close, the new one registered,
\* and the agent is no longer assumed to hold anything.
CheckInsertConnection(space, a, u) ==
  LET old == space.connections[a] IN
  [space EXCEPT
     !.connections[a] = u,
     !.uriToConnection =
        [v \in Uris |-> IF v = u THEN a ELSE IF v = old THEN Nil ELSE @[v]],
     !.holding = ClearHolding(@, a),
     !.disconnectUri = IF old = Nil THEN @ ELSE @ \cup {old}]

\* Store::drop_connection_inner
DropConnectionInner(space, a) ==
  LET uri == space.connections[a] IN
  [space EXCEPT
     !.holding = ClearHolding(@, a),
     !.connections[a] = Nil,
     !.uriToConnection = [v \in Uris |-> IF v = uri THEN Nil ELSE @[v]]]

\* Store::new_connection
NewConnection(store, s, a, u) ==
  [store EXCEPT ![s] = CheckInsertConnection(@, a, u)]

\* Store::check_drop_spaces: a space without connections is forgotten, with all
\* it knew of its aspects and of the sockets it still had to close.
CheckDropSpaces(store) ==
  [s \in Spaces |-> IF Connected(store[s]) = {} THEN EmptySpace ELSE store[s]]

\* Mutant of DropConnectionByUri: every space the agent is in loses it, whether
\* or not it is this uri that the space routes the agent's messages to.
DropAgentOfUri(store, u) ==
  CheckDropSpaces([s \in Spaces |-> DropConnectionInner(store[s], AgentOf[u])])

\* Store::drop_connection_by_uri, in every space that routes to the uri.
DropConnectionByUri(store, u) ==
  CheckDropSpaces([s \in Spaces |->
     IF store[s].uriToConnection[u] = Nil THEN store[s]
     ELSE DropConnectionInner(store[s], store[s].uriToConnection[u])])

\* Store::agent_holds_aspects: the agent need not be connected.
AgentHoldsAspects(store, s, a, xs) ==
  [store EXCEPT ![s].aspects = @ \cup xs,
                ![s].holding = [x \in Aspects |-> IF x \in xs THEN @[x] \cup {a}
                                                  ELSE @[x]]]

\* Store::check_disconnected empties the lists of replaced sockets; Replaced is
\* what it answers.
Replaced(store) == UNION {store[s].disconnectUri : s \in Spaces}

CheckDisconnected(store) ==
  [s \in Spaces |-> [store[s] EXCEPT !.disconnectUri = {}]]

-----------------------------------------------------------------------------
(* Queries.                                                                *)

\* Store::lookup_joined
LookupJoined(store, s, a) == store[s].connections[a]

\* Store::get_space_info_from_uri: any of the spaces that know the uri.
SpacesOfUri(store, u) == {s \in Spaces : store[s].uriToConnection[u] # Nil}

\* should_store of sim2h_im_state.rs
ShouldStore(a, e, agentCount) ==
  \/ Redundancy = 0
  \/ NaiveShardingShouldStore(AgentLoc[a], EntryLoc[e], agentCount, Redundancy)

\* Space::get_agents_that_should_hold_entry
AgentsThatShouldHold(space, e) ==
  {a \in Connected(space) : ShouldStore(a, e, Cardinality(Connected(space)))}

\* Space::get_agents_holding_entry: those that hold every known aspect of it.
AgentsHoldingEntry(space, e) ==
  LET known == {x \in space.aspects : EntryOf[x] = e} IN
  IF known = {} THEN {} ELSE {a \in Agents : \A x \in known : a \in space.holding[x]}

\* Store::get_agents_for_query: the agents a query may go to (the code takes up
\* to three of them, shuffled); the requester, Nil if there is none, is the last
\* resort.
AgentsForQuery(space, e, requester) ==
  LET holders == AgentsHoldingEntry(space, e) \ {requester}
      others  == AgentsThatShouldHold(space, e) \ {requester}
  IN IF holders # {} THEN holders
     ELSE IF others # {} THEN others
     ELSE {requester} \ {Nil}

-----------------------------------------------------------------------------
\* connections and uri_to_connection are inverse: what is sent to an agent goes
\* to the socket whose messages are taken for that agent's, and to no other.
RoutesAgree(space) ==
  \A a \in Agents, u \in Uris :
    space.connections[a] = u <=> space.uriToConnection[u] = a

Consistent(store) == \A s \in Spaces : RoutesAgree(store[s])
=============================================================================
