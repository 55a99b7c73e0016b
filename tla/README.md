# A TLA+ verification of holochain-rust

holochain-rust is a peer-to-peer application framework. A *conductor* hosts
*instances*; an instance runs one application (a DNA) for one agent, keeps that
agent's source chain and a share of the application's DHT, and talks to the
other agents of the application through a network worker. In this version the
network is `sim2h`: a switchboard server to which every worker keeps one
websocket, and which routes, shards and gossips for all of them.

This directory holds TLA+ models of the parts where concurrency, failure and
ordering matter, TLC configurations for small instances of them, and TLAPS
proofs of their main invariants for all instances. The tables in `PROJECT.json`
list the runs, the source lines behind each definition, the hazards, the
findings and the theorems; this file explains them. Paths below are relative to
`src/crates/`.

## 1. Inventory

### Core (`core/src`)

An instance is a redux store: threads and futures *dispatch* actions into one
unbounded FIFO channel; the **action loop** (`instance.rs`) takes them one at a
time, computes the new state with the *reducers*, saves it (`persister.rs`) and
wakes the futures, which *poll* the state to see whether what they wait for is
there. Everything that goes on in an instance is therefore an interleaving of
dispatches and polls around a sequential loop; a value read from the state may
be stale when the action it led to is reduced.

| Part | State | Operations | Hard behaviour |
|---|---|---|---|
| DHT holding queue (`dht/`, `instance.rs`, `workflows/hold_*`) | queue, in-process list, holding map, snapshot | store request, pick, validate, hold, retry, acknowledge, prune, restore | duplicates, races of the holding loop, crash, failed save, dependencies |
| DHT entry and link store (`dht_inner_reducers.rs`, `dht_store.rs`) | CAS, EAV metadata | store, update, remove, add and remove link, get_links | aspects arrive in any order, and again |
| Network requests (`network/reducers`, `network/actions`, `scheduled_jobs/timeouts.rs`) | results, timeouts and open connections of queries, direct messages and validation packages | ask, answer, time out, clear | timeout against late or repeated answer, results nobody clears |
| Nucleus (`nucleus/`) | running and queued zome calls, results, initialization status | queue, start, return, clear a call; initialize | bounded pool, calls that wait for inner calls of the same pool, dropped futures |
| Agent (`agent/`, `workflows/author_entry.rs`) | top header, chain store, responses | commit, publish, prune | two calls that author at once, crash between commit and publication |
| Persistence (`persister.rs`) | the saved snapshot | save, load | a save that fails |
| Consistency model, signals | none that is read back | emit | none |
| Wasm engine, HDK, wasm_utils, core_types | none | marshalling | none |

### Network (`net/src`, `sim2h/src`)

| Part | State | Operations | Hard behaviour |
|---|---|---|---|
| sim2h store (`sim2h_im_state.rs`) | per space: connections and their inverse, holders of aspects, list of replaced sockets; a snapshot for readers | join, drop, holds-aspects, sweep; queries | copies published in any order, stale reads |
| sim2h server (`lib.rs`) | spawned tasks | handle_message and its handlers, receipts, disconnects, sweep | one task per frame, against Disconnects applied by the loop |
| Connection manager (`connection_mgr.rs`) | open sockets, their count | connect, send, disconnect | sockets end at any time |
| Sharding (`naive_sharding.rs`) | none | should_store | wrap-around, empty arcs |
| Gossip (`lib.rs`, `schedule.rs`) | already-fetched entries, schedule token | authoring and gossip lists, resync, fetch, forward | agents that leave between two steps |
| Worker (`net/src/sim2h_worker.rs`) | outgoing buffer, connection, backoff | send, repeat, reconnect | messages repeated after a reconnect |
| In-memory network, lib3h worker, connection thread | test doubles and wrappers | | |

### Conductor and tools

| Part | State | Operations | Hard behaviour |
|---|---|---|---|
| Conductor (`conductor_lib/src/conductor`, `config.rs`) | configuration in memory and on disk, instance objects with their bridges, interface threads, signal multiplexer, static servers | the admin functions, boot and exit | functions that fail or panic half way; copies of the configuration that grow old; a saved file that cannot be started |
| Key stores, `dpki`, `in_stream`, `locksmith`, `metrics`, `cli`, `trycp_server`, `stress` | | | I/O, cryptography or statistics |

The conductor's operations are serialised under one lock, so that what is hard
about it is not concurrency but agreement between its parts.

### What makes the parts correct

- *Holding queue*: an aspect the network hands over is pending once, validated
  by one workflow at a time, never lost without a cause, acknowledged only if
  held; it leaves the queue in the end, dependency cycles apart; retries back
  off.
- *sim2h store and server*: the tables that route to and from a socket are
  inverse in every copy of the store; a worker told that it has joined stays
  registered until somebody decides otherwise; every message is answered or its
  socket closed; readers come to see the last state.
- *Network requests*: every future ends; an answer is never replaced by a
  timeout; an open connection has a timeout that will close it.
- *Zome calls*: at most `MAX_ZOME_CALLS` run, none waits while a place is free,
  each runs once, and all end but for what the pool itself locks up.
- *Source chain and authoring*: what others were told of survives a crash,
  success means published, private content is not published and stays at home
  until a public entry refers to it.
- *DHT store*: what is held is stored; two nodes that hold the same aspects
  answer alike; removals are final; what one holds the others come to hold.
- *Gossip*: the server's idea of what an agent holds is the agent's own; what
  is missing is fetched in the end.
- *Conductor*: it can be started again from its file at any time, and
  interfaces, signals and bridges follow the configuration.

## 2. Modules

| Module | What it models |
|---|---|
| `HoldingQueue` | the holding queue of an instance with its action loop, holding loop, workflows, timer, saves and crashes |
| `MCHoldingQueue` | its instances for TLC |
| `HoldingQueue_proofs` | its theorems |
| `NaiveSharding` | the arc rule of the sharding |
| `Sim2hState` | the server's store as a value; its mutations and queries as operators |
| `Sim2h` | the server's process loop, message tasks, store task, snapshot and sweep, with the sockets and workers around it |
| `MCSim2h` | its instances for TLC |
| `Sim2h_proofs` | its theorems |
| `Sim2hWorker` | an agent's network worker as a value; what its tick does to it as operators |
| `Sim2hGossip` | workers, the server's handlers of published, listed and fetched aspects, and the resync, composed over one store of `Sim2hState` |
| `MCSim2hGossip` | its instance for TLC |
| `Sim2hGossip_proofs` | its theorems |
| `RequestPromise` | abstract: what a caller of the network may rely on |
| `NetworkRequests` | the tables, reducers, futures, network thread and timeout job of queries, direct messages and validation packages; implements `RequestPromise` |
| `MCNetworkRequests` | its instance for TLC |
| `NetworkRequests_proofs` | its theorems |
| `Authoring` | zome calls in the nucleus' pool, and the authoring of entries from validation to publication, with saves and a crash |
| `MCAuthoring` | its instances for TLC |
| `Authoring_proofs` | its theorems |
| `DhtStore` | chains, content and EAV rows of several nodes: committing, holding, answering and serving aspects, with crashes in the middle of a write |
| `MCDhtStore` | its instance for TLC |
| `DhtStore_proofs` | its theorems |
| `Conductor` | configuration, instances, interfaces, bridges, signals and static servers under the admin functions |
| `MCConductor` | its instance for TLC |
| `Conductor_proofs` | its theorems |
| `SequenceFacts` | lemmas on sequences that the proofs share: what is appended to and taken off a channel, by index |

`Sim2h` and `Sim2hWorker` extend `Sim2hState`, which extends `NaiveSharding`;
`Sim2hGossip` extends `Sim2hWorker`. Definitions whose comment begins with
"Mutant" are variants of the definition that follows with a plausible bug; the
tables pair each property with one that it catches.

How the modules fit together: `Authoring` ends with an aspect handed to the
worker, `Sim2hGossip` carries it to the cores of other agents, `HoldingQueue` is
what such a core does until it holds it, `DhtStore` what holding it writes and
what is answered and served from that, and `NetworkRequests` how a zome call
gets at it. Each module takes its neighbours at the interface of the code: what
one of them promises is what the other assumes (that a missing aspect is sent
again is the assumption of `DhtStore` and the property `Resynced` of
`Sim2hGossip`; that an aspect that was handed over comes to be held is the
assumption of `Sim2hGossip` and the property `Drains` of `HoldingQueue`).

### HoldingQueue

`queued`, `inProcess` and `held` are the fields of `DhtStore`; an item is an
aspect with the `uuid` of its PendingValidation, its delay (0 for none) and
whether the delay has elapsed. `channel` is the action channel, restricted to
the actions that touch this state, `persisted` the last saved
`DhtStoreSnapshot`, `loop` the holding loop (scanning, or blocked on the item it
picked), `tasks` the spawned workflows. `accepted`, `acked` and `gone` are
history variables that no action reads.

- `HandleStore` is `handle_store`: it reads the holding map, then dispatches.
  The map may change in between, so an aspect that is held by now may still be
  queued, and the reducer must notice.
- `Reduce*` are one reducer each, followed by `Save`, which may fail: the code
  logs that and goes on.
- `LoopPick` and `LoopStart` are the two halves of the holding loop around its
  `block_on`.
- `ValidationPending`, `ValidationFails`, `ValidationSucceeds`, `AspectHeld` and
  `AspectNotHeld` are the steps of a workflow between its awaits. What
  validation decides is a choice; what it does next is the code's.
- `Crash` may happen between any two steps. It empties the channel and all
  tasks and restores the snapshot as `new_from_snapshot` does: in-process items
  first, all delays reset. Uuids go on across it, although a `ProcessUniqueId` is
  unique within one process only; nothing of the older process compares them.

Dependencies are a constant relation from aspects to addresses, and may be
cyclic: an update depends on the entry it updates, `free_pending_filter` counts
every queued item, the item itself included, and so an update to the same
content waits for itself and two opposite updates for each other. `Knotted` names
such aspects.

The content of entries, the EAV store and the validation callbacks are
abstracted to outcomes.

### Sim2hState and Sim2h

A store maps a space to its `connections`, `uriToConnection`, known aspects with
their holders, and `disconnectUri`. `store` is the store task's own value;
`publishing` holds the copies that spawned tasks have still to write to
`clone_ref`; `snapshot` is `clone_ref`. `Publish(i)` takes *any* of these copies:
that is what separate spawned tasks can do, and an older copy may replace a
newer one. Every query reads `snapshot`.

`tasks` are the spawned message tasks; a join has three stages around its await.
`sweep` is the task that asks every 500 ms for the replaced sockets and
disconnects them. `sock`, `closing` and `ended` are what the server sees of the
connection manager: a socket ends by itself or on request, and then reports a
Disconnect. `client` is what a worker knows: its current message until its
receipt comes, and whether it has joined. Uris are never used again, as each
socket gets a fresh one. Messages are joins, lists of held aspects, leaves, and
"asks" that stand for all that is only forwarded.

`disconnect_uri` is a list in the code and a set here; only its members matter.
One consequence of `check_insert_connection` is worth knowing: a second
JoinSpace over the same socket puts the live uri on that list, and the sweep
then closes it. The worker reconnects, and the properties hold through it.

### Sim2hWorker and Sim2hGossip

A worker is a record with its socket, `outgoing_message_buffer`, the two batches
(`outgoing_fat_acks`, `outgoing_fetch_entry_results`) and what it keeps of the
first lists. Its first message stays in the buffer until the receipt comes;
`Transmit` is a message whose receipt comes, `BreakUnanswered` one that the
server has processed and whose receipt is lost with the connection. On a
reconnect a join is put before everything that waits. `Restart` is a new process:
chain and holding map are on disk, the worker is new, and what the core was about
to publish is forgotten; it is up to the list of authored entries, which the
server asks for after each join, to make good for that.

The lists also name the entries that stand for chain headers, which are aspects of
their own (`HeaderAspects`). A fetch finds such an entry only where it is held:
`get_content_aspects` looks for the header of a header in the chain and serves
nothing. `Servable(a)` is what an agent can be got to send, and `Unsent` are headers
that an agent committed and did not publish before an earlier end of its process.

On the server's side `Applied` is what a message does to the store and `Replies`
whom the handlers then send something to; a handler that reads the snapshot may
see the store with or without the message it handles. `Ask` is the resync. The
sending of a message to an agent whose socket is gone loses it.

Read from the code on the way: `HelloResponse` is sent before the receipt of the
Hello; lists that are asked for on a join have an empty request id, so that
gossip lists are batched like fat acks; an authoring list makes its author the
holder of all it names, although `handle_get_gossip_list` reports only what is
held (CHANGELOG.md:551 says that the two are merged; the server makes up for
it).

### NetworkRequests and RequestPromise

`results`, `timeouts`, `replies`, `connections` and `messageTimeouts` are the
tables of `NetworkState`, `channel` the action channel, `future` what each caller
polls. The network thread looks at the state, then dispatches (`handler`); the
timeout job walks a copy of the state (`scan`) and dispatches for each overdue
row. One reducer is one `Reduce...` operator. `RequestPromise` has two variables,
the phase of a request and its outcome so far: a failure may give way to an
answer until the caller looks, an answer to nothing. The refinement mapping
reads them off `future` and the row that the future polls.

### Authoring

A caller's future queues its call, starts the thread of the call when it sees it
in `running_zome_calls`, and waits for the result. The thread of an author goes
through `author_entry` (`NextStep`), each step an action in the channel with a
response in the state, which is then cleared. A function may call another one of
its instance (`CallInner`): its thread then waits, with its place in the pool, for a
call that needs a place too (`awaits`). `FetchEntry` is the network's asking for an
address that this node has sent or listed: the handler serves the content without
looking whether its type may be published, and metadata only of public entries.
`Persist` is the save after each action, which may fail; `CrashAndRestart` keeps the
saved chain and what was sent.

### DhtStore

`store[n]` is the set of rows and contents that a node has written, `held[n]` its
holding map, `owed[n]` what a link's workflow has still to hold, `torn[n]`
aspects of which a crash has left some rows. `Writes(a)` are the rows of an
aspect, `Status` and `LiveLinks` what a node answers from its rows, `Served` the
aspects that `get_content_aspects` and `get_meta_aspects` put together from
them. A link is valid, when committed and when held, only where its base and its
target are found. For what a row points to, the code serves the first header it
finds, in an order the stores do not fix: the model lets it be any. Where there is
content and no header at all, as after a crash between the two writes, the code's
`headers[0]` panics in the thread of the network connection; `FetchPanics` takes the
node off the network then.

### Conductor

`config` and `saved` are the configuration in memory and in the file, `object`
the instance objects made since the start, `instances` the map of them by id,
`threads` what each interface's handler serves, `multiplexers` the threads that
distribute signals, each with its copy of the configuration, `servers` the static
servers. A new multiplexer is started while the old one has only been sent a kill
message, and `MultiplexerEnds` is when it comes to read it. An admin function is one
step with alternatives for its refusal, a failing save (which may leave a file cut
off), a failing creation and a panic; `failed` remembers that one happened. The
history `cut` of an object says for which handles a bridge was removed since its
conductor api was built, as remove_bridge does not build it again. Storage and dpki
sections, with their checks, are left out.

## 3. Runs

| Run | Instance | Result |
|---|---|---|
| `holding_safety` | two store requests over four aspects, one prune, crash and failed save each, delays 1 and 2 | six invariants hold, and delays grow |
| `holding_drains` | two requests over an entry, its update, the update back and an update to itself, one prune, one crash | every pending aspect leaves, or waits in a cycle, or the loop is stranded |
| `holding_loop_stranded` | two aspects of one entry, one prune | violated (finding) |
| `sim2h_safety` | two agents, three sockets, three messages of any kind | three invariants hold |
| `sim2h_live` | one agent, two sockets, two messages, one repetition | both liveness properties hold |
| `sim2h_ghost_route` | as `sim2h_safety` | violated (finding) |
| `sim2h_gossip` | two agents in full sync; one aspect published, one to be committed, one header never published; one loss of a connection or restart; 129,284 states | both properties hold |
| `network_requests` | a query, a direct message and a package, two calls (one may be a shutdown), one answer each; 116,368 states | three invariants, the refinement and the liveness property hold |
| `authoring` | two authors (of a private entry and of its removal) and another call, which may call each other in a chain, a pool of two, fetches, one crash; 782,618 states | six invariants and the liveness property hold |
| `authoring_responses` | as `authoring`, without a crash | violated (finding) |
| `dht_store` | an author and two holders; an entry, an update of it, a link between the two and its removal, a deletion; the author may leave, a holder may crash; 56,754 states | five invariants, the action property and the liveness property hold |
| `conductor` | three DNAs, three instances, an interface, a UI, four admin functions with restarts between them; 314,504 states | five invariants and the action property hold |

**Bounds.** `MaxStores = 2` is enough for a duplicate of a request in each phase
of the first one, and for an item with another that depends on it; the four
aspects give two headers of one entry (what Prune merges), a link with a base,
and a workflow that holds two aspects. One crash and one failed save give all
orders of the two. `RetryMax` is 2 in the safety run, where the growth is checked,
and 1 in the liveness run, whose aspects give a dependency, a cycle of two and a
cycle of one, and two items that Prune merges, so that both exceptions of `Drains`
occur. In `Sim2h` a reconnecting agent needs two sockets;
a second agent keeps the space alive while the first is dropped; three messages
give a join on both sockets and one message between or after them.
`MaxWriters = 2` is the least number of copies that can overtake each other. The
theorems do not depend on any of these bounds.

In `sim2h_gossip` the two aspects belong to one entry, so that an agent may hold
one and not the other, which is what the server's notion of a holder is about;
one spare socket allows for one fault at any moment. The unpublished header is an
entry of its own, and makes the case that fetching cannot repair. Two bounds are in actions:
what is batched enters the buffer when nothing else waits there, and an agent is
not asked again by the resync while a request to it or its answer is under way
(an authoring list is still answered with several requests at once). In `network_requests` two calls at
once let a timeout of one meet an answer of the other and a shutdown meet
either; `MaxChannel` bounds how far the timeout job may run ahead of the loop. In
`authoring` three calls and a pool of two make one of them wait, and the two that
may make inner calls can lock it up; a third author would add nothing to the pool
and little to the chain. The removal is of the private entry, so that its address
becomes known. In `dht_store` the five headers are one of each kind of aspect; the
arcs are chosen so that one holder is also to hold the updated entry, which is the
target of the link and out of reach of the others once its author has left. In `conductor` four functions are
enough to remove an instance and add it again and to look at what is left, and
to swap the callee of a bridge.

The sim2h runs have `Redundancy = 0`, full sync, as the resync is stated for that
mode only. The arc rule itself is evaluated by the assumption `ShardsCover` of
`MCSim2hGossip`: of up to four nodes at even distances on a ring of twelve
locations, every location is stored by as many as copies are asked for, or by all.
The theorems on `Sim2h` and `Sim2hGossip` hold for any redundancy.

**Deadlock** is checked for the server, whose sweep never rests. It is not
checked for the others, which rest when their bounded inputs are used up; that
they do not rest too early is what their liveness properties say.

**Fairness.** In `HoldingQueue`, weak fairness of the action loop, of both halves
of the holding loop, of the clock and of each aspect's workflow: these are
operating-system threads and executor tasks that always run again. Strong fairness
of "validation ends with a verdict" is an assumption on the environment: an
author who is never online again, or a dependency nobody has, keeps an aspect
pending for ever, as the code intends. In `Sim2h`, weak fairness of
spawned tasks, of the process loop's reading of Disconnects, of the connection
manager and of the sweep: tokio drops none of them. Workers owe nothing, and
`SnapshotCatchesUp` relies on the sweep, which publishes a copy at every round
even when there is nothing to close; its mutant, which skips idle rounds, leaves
the snapshot behind.

In `Sim2hGossip`, weak fairness of each core's publishing, of the ticks of the
workers (of each fetch that was received, and of the other messages together, since
all of them are taken in turn), of their reconnecting and of the server's reading of
Disconnects, and strong fairness of asking each agent, as the server picks among its
candidates at random. In `NetworkRequests`,
weak fairness of the action loop, the network thread, the timeout job (a timer of
one second) and the polling of each future, which `block_on` repeats at least
every 10 ms, and that time passes; the network owes no answer. In `Authoring`,
weak fairness of the loop and, for each call, of its future's polls and its thread's
steps together, as the future has nothing to do while the thread has; the function
itself is taken to end, and whether it makes inner calls is left open. In `DhtStore`, weak fairness of some node's holding
something that is offered to it.

**What the properties say.** `OnePendingPerAspect`, `OneWorkflowPerAspect`,
`EndedIsInProcess`, `AckedIsHeld` and `NothingLost` are the promises of the
holding queue; `BackoffGrows` and `Drains` its progress. `RoutingConsistent` and
`JoinedIsRegistered` are the promises of the server's tables;
`SnapshotCatchesUp` and `Answered` its progress. `HoldingsAgree` says that the
server never takes an agent to hold what it lacks, and knows or will be told
of what it holds, across repeated messages and the forgetting that goes with a
join; `Resynced` that everything an agent holds or can serve comes to be held by
everybody, also entries committed and not published when the process ended. `KeepsPromise` is the
refinement; `NeverStranded` and `ConnectionsTimeOut` say why `EveryFutureEnds`
holds. `PoolIsUsed`, `CommitsOnce`, `PublishedIsSaved`, `SuccessIsPublished` and
`PrivateStaysHome` are the promises of authoring; the last says that private content
is sent only once the chain has a public entry about it, and never its metadata.
`CallsEnd` is the progress of authoring, with two exceptions: finding 3, and a pool
whose places are all held by functions that wait for inner calls (`PoolLocked`). `HeldIsStored`, `SameHoldingsSameAnswers`, `RemovalIsFinal`,
`LinksResolve` and `ServedIsAuthored` are those of the DHT store, `Spreads` its
progress; the exceptions that these properties name are behaviours of the code
(see below). `Restartable`, `InterfacesServeConfig`, `SignalsReachInterfaces`,
`BridgesResolve` and `RetiredIsStopped` are those of the conductor. Each is
stated in words above its definition.

**Findings.**

1. `LoopNotStranded`. The holding loop picks an item and blocks until it is in
   process. A Prune that is already in the channel may drop that item first
   (it keeps one item per workflow and entry, and a second author's header is
   another item of the same entry). The move then finds nothing, and the loop
   waits for ever: the instance holds nothing more until it is restarted.
2. `RoutesAreOpen`. A JoinSpace is handled in a task of its own, a Disconnect by
   the process loop. If the socket breaks before the task runs, the join
   registers a dead uri that no later event removes.
3. `ResponsesAreKept`. The reducer of the agent state that clears one response
   keeps that one and drops all others (`==` for `!=`). Of two calls that
   commit at the same time one may lose its response, and then waits for ever
   with its place in the pool.

**Known behaviour that the properties make exceptions for**, each seen in a
counterexample of an earlier, stronger form of a property:

- Queued aspects whose dependencies form a cycle are never free, an update to the
  same content among them (`dht_store.rs:513`).
- Zome functions that call functions of their own instance keep their place; as many
  as there are places lock the pool for good (`wasm_engine/api/call.rs:108`).
- The content of a private entry is served to whoever fetches its address, and a
  removal of it or a link from it makes the address known
  (`network/handler/fetch.rs:32`).
- A chain header that was not published before its author's process ended is listed
  and asked for, and never sent (`network/handler/mod.rs:341`).
- A list of held aspects that is applied after its sender was dropped makes an
  absent agent the preferred target of queries (`sim2h_im_state.rs:444`).
- In the sharded mode, an aspect that only its author outside the arc has is not
  asked for while nobody holds all aspects of its entry (`lib.rs:1562`);
  `Resynced` is therefore stated for full sync.
- Holders do not serve deletions, and put the removal of several links together
  again as several removals; of an entry with several headers they serve what is
  said with the first; one row whose entry is out of reach keeps a holder from
  serving any aspect of an entry (`network/handler/mod.rs`).
- A link whose target is deleted, or that nobody within reach has, stays pending at
  the nodes that do not hold it yet.
- A crash between an entry's content and its header makes the next fetch of an entry
  that refers to it panic, and the node is not heard of again before a restart
  (`network/handler/mod.rs:473`).
- A crash between a link's row and its entry may leave a link that get_links
  cannot resolve until the workflow has run again.
- A configuration that does not list the callees of required bridges first, as
  add_bridge can make it, is consistent and cannot be started
  (`conductor/base.rs:621`); nor can a file that a failed save has cut off.
- A multiplexer that has been sent the kill message may take one more round of
  signals, and sends them where its old copy of the configuration says
  (`conductor/base.rs:467`).
- remove_bridge leaves the callee in its caller's conductor api, where it may take
  the place of another callee with the same handle until the api is built again
  (`conductor/admin.rs:602`).
- A timeout or an answer that is reduced after a request was cleared leaves a row
  that nobody reads.

## 4. Proofs

Everything here is for all values of the constants, that is, any number of
agents, sockets, aspects, calls, requests, messages, crashes, and any dependency
relation, under the named assumptions of the modules; TLC evaluates those on
every run. There is a theorem for every invariant and every action property of
the passing runs, and for the refinement of `RequestPromise`. What a theorem
rests on is an inductive invariant, which TLC was given first, on the instance of
the run.

**HoldingQueue_proofs.** None of the invariants is inductive alone: that an
aspect is pending once depends on what is in the channel. `IInv` adds
- `SnapshotInv`: the saved lists are as well-formed as the current ones (needed
  by Crash, since a failed save leaves an older pair of lists);
- `OwnerInv`: an item in process belongs to exactly one of the blocked loop, one
  workflow, or one end-of-workflow action in the channel;
- `MoveInv`: at most one move is in the channel, it is for the item the loop is
  blocked on, and that item is not in process yet;
- `HoldInv`: a HoldAspect in the channel is the one its workflow waits for;
- `ProgressInv`: what a workflow, an Ack or a Done in the channel claims to have
  been held is held.

`Invariance` shows IInv preserved, one lemma per action; `TypeCorrect`,
`PendingOnce`, `WorkflowOnce`, `EndsInProcess`, `AckImpliesHeld` and
`NoSilentLoss` follow. Assumed are the named assumptions of `HoldingQueue`: types
of the constant functions, `0 < RetryMin =< RetryMax`, and that a workflow
first holds the aspect it was queued for.

`RetriesBackOff` is the action property `BackoffGrows`. It needs to know the delay
that comes back with the Waiting action, which was read two hand-overs before:
`BackoffInv` follows it from the loop to the workflow to the channel. It says "not
shorter" where one would expect "equal". The loop may be blocked on an item that
Prune has removed, and that nothing in IInv keeps from being queued again with a
delay of 0; the weaker form is what a longer delay needs, and spares an argument
about the uuids. OwnerInv shows that a Waiting finds nobody else at work on the
item, and that items are pending once, that no other step brings an item back.

**Sim2h_proofs.** `RoutingInv` says that the two tables are inverse *and* that a
uri is registered only for the agent whose worker opened it (`WellRouted`), in
the store, in every copy under way and in the snapshot. The second part is what
makes the first inductive: `check_insert_connection` overwrites the entry of the
new uri without looking at who had it, which keeps the tables inverse only
because nobody else can have had it. The mutations are shown to preserve this on
a single store (lemmas per mutation), then every action on all copies. It gives
`ServerTypeCorrect` and `RoutingCorrect`.

`JoinedStaysRegistered` needs to follow a join from its registration to its
receipt. `JoinInv` says that a uri for which a join task is past its first stage,
or whose worker has its receipt, is *kept*: registered for its agent, or on its
way out (superseded, closed, or told to close). Each drop is examined: it is for
this uri, and then the socket is closed or told to close in the same step; or for
another one, and then the tables' being inverse shows that this uri stays.

**DhtStore_proofs.** Two facts carry the proofs. No step takes a row out of a store
(`Grown`), the crash that leaves part of an aspect included, and the step that
marks an aspect as held writes all of it: that makes `HeldIsStored` inductive, and
`RemovalsAreFinal` follow, since the rows of a deletion or of a removal stay and
`Status` and `LiveLinks` prefer them to whatever else is written. And every row has
an origin (`RowsHaveOrigin`): an aspect that is held or was torn by a crash, or the
node's own commit. The second is needed wherever two nodes are compared:
- `HoldersAgree` (`SameHoldingsSameAnswers`): a commit writes only the content and
  the row of a live entry, which no answer prefers; every other row of a node with
  nothing torn is from an aspect it holds, and so the other node has it too.
- `OnlyAuthoredIsServed`: an aspect that is put together from rows has the kind and
  the header of one that wrote them.
- `LinksAlwaysResolve` also needs `TornByCrash`, that only a node that has crashed
  has anything torn; `LinkEntryFollows`, that the entry of a held link is readable
  or owed by a workflow under way; and, for that, `OwedIsContent`.

Assumed are types, that only the entry of a link removal removes links, and that a
deletion's header replaces something. TLC's instance has one update, deletion and
removal; the theorems are for any number of them.

**NetworkRequests_proofs.** That no caller waits for nothing (`NobodyStranded`)
depends on the order of two actions of the network thread: the answer to a message
is dispatched before the action that drops its timeout. `AnswerFirst` says so of
the channel and of what the thread has still to dispatch (`HandlerOrder`);
`AllAttended` is then preserved: a request that was reduced has an outcome, or a
timeout that will give it one. The rest of the invariant is about the ends of a
request's life: nothing is about it before it was made (`IdleUntouched`) or reduced
(`StartUntouched`), a row is cleared only when the future has ended
(`ClearAfterEnd`), and the job dispatches only timeouts. `ConnectionsEnd` is a part
of the invariant. `RequestsKeepPromise` is the refinement: Init implies that of
`RequestPromise`; the steps that a caller can observe (the dispatch, the poll that
ends the future, the reduction of an answer or a timeout) are its steps, all others
change neither `phase` nor `value`. Assumed is that the three kinds of requests are
disjoint.

**Authoring_proofs.** The state of one call is spread over its caller, its thread,
the pool, the channel and three tables of responses. The invariant is the map of
it: of each call one action at most carries it forward (`Alone`), and every action,
result and response says where the call is (`ActionsPlaced`, `CallsPlaced`,
`ResultsPlaced`, `ResponsesPlaced`). From that,
- `PoolAlwaysUsed`: calls wait only while all places are taken; a place is given
  back by the one return action of a call that is running;
- `OneHeaderPerCall`: a call with a header on the chain has no commit under way and
  does not come back to one (`ChainIsPast`);
- `NothingPublishedIsLost`: what is saved is a beginning of the chain, and all of it
  unless a save has failed (`SavedIsChain`);
- `SuccessMeansPublished`: what the progress of a thread means for its entry is
  carried by `ThreadsProgress`, then by the response, then by the return action and
  the result (`ResponsesProgress`, `SuccessIsDone`), since the code reports success
  from the last response alone;
- `PrivateContentStays`: only an entry that is not private gets to the publish step,
  and a fetch sends private content only while a public entry on the chain is about
  it; `SavedIsChain` keeps that entry there through a crash, unless a save has
  failed.

A pool of at least one place is assumed, and nothing of which functions call which.

**Conductor_proofs.** The invariants of the run but `Restartable` are inductive together
once four facts are added. `StaysConsistent`: what is in memory and in the file passes
check_consistency, as it was checked before it was saved. `FileKeepsUp`: only a failed
save cuts off the file, and only that or a failed creation lets it differ from what is
in memory. `MapIsInjective`: no two ids share an instance object; without it
the removal of one instance would stop the one of another. `DownIsEmpty`: a process
that does not run has no instances, from which a start begins. The work is in the
configurations: every admin function is shown to give one that passes
check_consistency, with lemmas for a change, a change whose save fails, and the
removal of a set of instances from all interfaces. The lists of the configuration
are ordered, and filtering them is part of the code; `Only` defines that by ranks
instead of recursion, and a pigeonhole argument shows that it is a filter
(`OnlyFacts`). `AlwaysRestartable` follows with one more argument: a consistent
configuration that lists callees first is started to its end by `start_all_instances`,
which goes through the list in the file's order. `SignalsArrive` is
about the multiplexers that have not been killed, beside which killed ones run on for
a while; `BridgesAlwaysResolve` compares each caller's api with the conductor's map and
list of bridges of now. `RetiredAreStopped` is the action property: a step either leaves the
list of instances alone, or stops the objects of what it takes out, or records that
something failed half way. Assumed of the configuration found on disk: it has the
right type and passes check_consistency, as `Conductor::from_config` demands.

**Sim2hGossip_proofs.** `HoldingsAgree` has two halves. What the server takes an agent
to hold, the agent has: `Honest`, which needs that all a worker has noted or put in
its buffer is true (`NotesAreTrue`), since messages stay there through breaks and
are sent again, and that core and chain only grow. And what an agent holds, the
server knows or will be told: `Told`, for an agent that is connected and joined. It
is the agent's own socket over which it is told (`OwnSocket`), and a message is taken
for that of the agent registered for its uri (`WellRouted`, as in `Sim2h_proofs`;
the few lemmas on the mutations are stated again, for the one space and the smaller
state of this module). A reconnect puts the join ahead of everything, and the join
is answered by a request for lists; so the second half holds however often a socket
breaks. What can be fetched plays no part in it. Assumed of the agents that are settled at the start: one socket each, and
only what such an agent published is published, or committed and unsent.

**SequenceFacts.** The library's induction principles take an operator and cannot be
used with the provers at hand. Where an argument needs one (the last index of a
kind in the channel, the ranks of `Only`), these proofs use the form of the
principle that is about sets: a set of indices that is not empty has a largest one.

**Only model-checked**: the liveness properties `Drains`, `SnapshotCatchesUp`,
`Answered`, `EveryFutureEnds`, `CallsEnd`, `Spreads` and `Resynced`. They rest on
fairness and are out of the prover's reach. What the provers do not check either is
that the findings occur: those are behaviours that TLC exhibits. The sharding rule
is used by the routing of queries and by the resync; the theorems hold whatever it
answers, and TLC evaluates it on the ring of `ShardsCover`.

## 5. Not modelled, and the plan

Not modelled: cryptography, key stores and dpki, serialization, logging, tracing
and metrics, the wasm engine and its host API, the HDK, the JSON-RPC methods and
transports of interfaces, `in_stream`, `locksmith`, command lines, the in-memory
network and other test doubles. They hold no state that the protocols read, are
calls into libraries, or pass a value through.

The mapped definitions cover about an eighth of the lines of the repository, or
some 30% of the code, without its unit tests, of the four crates that hold the
protocols (`core`, `conductor_lib`, `sim2h`, `net`). More than half of the
repository is unit tests, example applications, guest libraries, tools and data
types that there is nothing to check in by a model.

Left out of the modelled components:

- direct messages and query results in the server, which are forwarded to one
  agent without any state;
- the connection manager's own futures and its count of sockets, of which `Sim2h`
  has what is visible to the server;
- the initialization of an instance, a sequence of steps of one thread;
- pruning of responses and calls by age (60 s);
- the backoff of a worker: `backoff()` takes the larger of its limit and the doubled
  interval where the smaller must be meant (`sim2h_worker.rs:153`), so that the
  interval is not limited. A duration, and left out with all others;
- the assembly of an entry's history from several answers; an update that leads
  back to the entry makes `get_entry_result_workflow` go round for ever
  (`get_entry_result.rs:101`);
- the sharing of one action channel by all reducers: each module has the part of
  the channel that concerns it.

Worth doing next: a proof that a worker's buffer and the server's tasks in
`Sim2h` keep the order of one agent's messages, which `Sim2hGossip` has by
construction; and lemmas about `NaiveSharding` as an operator (while there are no
more nodes than copies everybody stores everything, and nobody ceases to store an
entry because a copy more is asked for).
