---------------------------- MODULE Sim2hWorker ----------------------------
(***************************************************************************)
(* The network worker of an instance (net/src/sim2h_worker.rs) as a value, *)
(* and what its tick does to it as operators. Messages for the server wait *)
(* in outgoing_message_buffer; the first one is sent, and stays until its  *)
(* receipt comes. Notes of held aspects (fat acks) and fetched entries are *)
(* collected apart and put in the buffer as one message from time to time. *)
(* Timers are left out: what they delay may happen at any time. Direct     *)
(* messages and queries are left to the modules Sim2h and NetworkRequests. *)
(***************************************************************************)
EXTENDS Sim2hState, Sequences

\* A message in the buffer: hello, join, publish, authoring (a list) or multi,
\* with the aspects it names and, in a multi, those it carries as fetched.
Message(kind, xs, results) == [kind |-> kind, aspects |-> xs, results |-> results]

\* Sim2hWorker::new, and core's request to join its space, which is the first.
NewWorker ==
  [uri |-> Nil,              \* connection
   fullSync |-> FALSE,       \* is_full_sync_DHT
   buffer |-> <<Message("hello", {}, {}), Message("join", {}, {})>>,
   fatAcks |-> {},           \* outgoing_fat_acks
   results |-> {},           \* outgoing_fetch_entry_results
   authoring |-> Nil,        \* initial_authoring_list
   gossip |-> Nil,           \* initial_gossiping_list
   selfStored |-> FALSE]     \* has_self_stored_authored_aspects

IsAutonomous(w) == w.fullSync \/ w.uri = Nil

Queue(w, m) == [w EXCEPT !.buffer = Append(@, m)]

\* Mutant of CheckReconnect: the join waits behind what is in the buffer.
JoinLast(w, u) ==
  [w EXCEPT !.uri = u, !.buffer = Append(@, Message("join", {}, {}))]

\* check_reconnect, over a new socket: the join comes before all that waits.
CheckReconnect(w, u) ==
  [w EXCEPT !.uri = u, !.buffer = <<Message("join", {}, {})>> \o @]

\* check_batched_messages
CheckBatched(w) ==
  IF w.fatAcks \cup w.results = {} THEN w
  ELSE [Queue(w, Message("multi", w.fatAcks, w.results)) EXCEPT !.fatAcks = {}, !.results = {}]

\* self_store_authored_aspects, when both lists have come: the entries of the
\* authoring list that are not held with all their aspects are fetched from the
\* own core, which is then told to store what it answers. The lists are of no use
\* after that, and are not kept.
SelfStores(w) == IsAutonomous(w) /\ ~w.selfStored /\ Nil \notin {w.authoring, w.gossip}

ToFetch(w) == IF SelfStores(w) THEN {EntryOf[x] : x \in w.authoring \ w.gossip} ELSE {}

SelfStore(w) ==
  IF SelfStores(w) THEN [w EXCEPT !.authoring = Nil, !.gossip = Nil, !.selfStored = TRUE] ELSE w

\* Mutant of TakeGossipList: a note of held aspects replaces the one before it.
TakeLastList(w, xs) == [w EXCEPT !.gossip = IF w.selfStored THEN Nil ELSE xs, !.fatAcks = xs]

\* handle_client_message of HandleGetGossipingEntryListResult, with which core
\* answers a request of the server and reports an aspect that it holds.
TakeGossipList(w, xs) ==
  [w EXCEPT !.gossip = IF w.selfStored THEN Nil ELSE xs, !.fatAcks = @ \cup xs]

\* ... and of HandleGetAuthoringEntryListResult
TakeAuthoringList(w, xs) ==
  Queue([w EXCEPT !.authoring = IF w.selfStored THEN Nil ELSE xs], Message("authoring", xs, {}))

\* handle_server_message of HelloResponse
TakeHello(w) == [w EXCEPT !.fullSync = Redundancy = 0]
=============================================================================
