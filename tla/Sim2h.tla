-------------------------------- MODULE Sim2h --------------------------------
(***************************************************************************)
(* A sim2h server and the sockets of the workers that connect to it        *)
(* (sim2h/src/lib.rs, sim2h_im_state.rs): how a worker joins a space,      *)
(* tells what it holds, asks for something, leaves or is cut off, while    *)
(* the server works on its messages in tasks of their own.                 *)
(*                                                                         *)
(* Nobody changes the store directly. A task appends a mutation to a       *)
(* channel; the store task applies the mutations in order and, after each, *)
(* spawns a task that writes a copy of the store over the snapshot and     *)
(* then tells the one who asked. These copies are written in any order.    *)
(* All queries read the snapshot. A worker sends one message at a time and *)
(* repeats it until the receipt comes (net/src/sim2h_worker.rs).           *)
(*                                                                         *)
(* Left out: what the server forwards to other workers (a message that is  *)
(* only forwarded, such as a query or a direct message, is an "ask"; it    *)
(* reads the snapshot and changes nothing here), signatures, metrics.      *)
(*                                                                         *)
(* Abstracted: the channel of events from the sockets to the process loop. *)
(* The loop spawns a task for every frame it reads, and the task may run   *)
(* at any later time, so a frame becomes a task when it is sent; the       *)
(* Disconnect events come from independent socket tasks, so the loop may   *)
(* meet them in any order. And the mutation channel: only the store task   *)
(* sees the store, in the order of the channel, so a mutation is applied   *)
(* when it is sent, and the time it spends in the channel is part of the   *)
(* time its copy takes to be written.                                      *)
(***************************************************************************)
EXTENDS Sim2hState, Sequences, SequencesExt, FiniteSetsExt

CONSTANTS
  MaxMessages,  \* bound: messages sent on all sockets, without repetitions
  MaxResends,   \* bound: messages that are sent a second time
  MaxWriters    \* bound: copies of the store on their way to the snapshot

ASSUME Sim2hBoundAssumption ==
  /\ MaxMessages \in Nat
  /\ MaxResends \in Nat
  /\ MaxWriters \in Nat \ {0}

VARIABLES
  store,        \* the store task's Store, all mutations sent so far applied
  publishing,   \* spawned writes of a copy to clone_ref, oldest first
  snapshot,     \* clone_ref, what get_clone reads
  tasks,        \* spawned message tasks
  sweep,        \* the task that closes replaced connections
  sock,         \* the sockets
  closing,      \* sockets the connection manager has been told to close
  ended,        \* sockets whose Disconnect event is still to be read
  client,       \* the worker behind each socket
  resends,      \* number of messages sent a second time
  superseded    \* history: sockets whose agent has since joined over another

im == <<store, publishing, snapshot>>
net == <<sock, closing, ended>>
vars == <<store, publishing, snapshot, tasks, sweep, sock, closing, ended,
          client, resends, superseded>>

-----------------------------------------------------------------------------
(* Data.                                                                   *)

Kinds == {"join", "list", "ask", "leave"}

\* A message: seq counts the worker's messages on the socket, again marks the
\* second copy of one that was repeated; aspects (of one entry) is what a "list"
\* says the agent holds.
Message == [uri : Uris, seq : Nat, again : BOOLEAN, kind : Kinds,
            aspects : SUBSET Aspects]

Task == [msg : Message, pc : {"start", "await", "joined"}]

\* A copy of the store, the join tasks it wakes, and whether it wakes the sweep.
Writer == [copy : Stores, joins : SUBSET Message, sweep : BOOLEAN]

Sweep == [pc : {"sleep", "wait", "close"}, uris : SUBSET Uris]

\* out is the message that still lacks its receipt, if any.
Client == [seq : Nat, out : SUBSET Message, joined : BOOLEAN]

\* An entry list names at least one aspect: one without is skipped.
EntryLists == {xs \in SUBSET Aspects :
                 \E e \in Entries : xs # {} /\ \A x \in xs : EntryOf[x] = e}

Init ==
  /\ store = EmptyStore
  /\ publishing = << >>
  /\ snapshot = EmptyStore
  /\ tasks = {}
  /\ sweep = [pc |-> "sleep", uris |-> {}]
  /\ sock = [u \in Uris |-> "none"]
  /\ closing = {}
  /\ ended = {}
  /\ client = [u \in Uris |-> [seq |-> 0, out |-> {}, joined |-> FALSE]]
  /\ resends = 0
  /\ superseded = {}

-----------------------------------------------------------------------------
(* The workers and their sockets.                                          *)

\* A frame arrives: handle_payload runs in a task of its own.
Spawn(msg) == tasks' = tasks \cup {[msg |-> msg, pc |-> "start"]}

\* The number of messages sent so far.
Sent == MapThenSumSet(LAMBDA v : client[v].seq, Uris)

Transmit(u, kind, xs) ==
  LET msg == [uri |-> u, seq |-> client[u].seq + 1, again |-> FALSE,
              kind |-> kind, aspects |-> xs]
  IN /\ client[u].out = {}
     /\ Sent < MaxMessages
     /\ Spawn(msg)
     /\ client' = [client EXCEPT ![u].seq = @ + 1, ![u].out = {msg}]

\* A worker opens a socket and joins its space: nothing that it sends before
\* (Hello, Ping) changes the server's state.
Join(u) ==
  /\ sock[u] = "none"
  /\ sock' = [sock EXCEPT ![u] = "open"]
  /\ Transmit(u, "join", {})
  /\ UNCHANGED <<im, sweep, closing, ended, resends, superseded>>

\* A worker sends its next message once the last one has got its receipt. This
\* can be a second join: one that was waiting when the socket before this broke.
Send(u, kind, xs) ==
  /\ sock[u] = "open"
  /\ kind = "list" <=> xs # {}
  /\ Transmit(u, kind, xs)
  /\ UNCHANGED <<im, sweep, net, resends, superseded>>

\* No receipt in time: the worker sends the same message again.
Resend(u) ==
  /\ sock[u] = "open"
  /\ resends < MaxResends
  /\ resends' = resends + 1
  /\ \E msg \in client[u].out :
       /\ ~msg.again
       /\ Spawn([msg EXCEPT !.again = TRUE])
       /\ client' = [client EXCEPT ![u].out = {[msg EXCEPT !.again = TRUE]}]
  /\ UNCHANGED <<im, sweep, net, superseded>>

\* A socket ends, by the worker's doing or by an error: its task reports it and
\* ends, and the connection manager forgets it.
SocketEnds(u) ==
  /\ sock[u] = "open"
  /\ sock' = [sock EXCEPT ![u] = "closed"]
  /\ closing' = closing \ {u}
  /\ ended' = ended \cup {u}
  /\ UNCHANGED <<im, tasks, sweep, client, resends, superseded>>

\* The connection manager carries out a disconnect: the same end.
CloseSocket(u) ==
  /\ u \in closing
  /\ SocketEnds(u)

\* Sim2hHandle::send_receipt: the receipt reaches a worker whose socket is open
\* and not already given up, and counts if it is for the message it waits on.
Receipt(msg) ==
  client' =
    IF /\ sock[msg.uri] = "open"
       /\ msg.uri \notin closing
       /\ client[msg.uri].seq = msg.seq
    THEN [client EXCEPT ![msg.uri].out = {}, ![msg.uri].joined = TRUE]
    ELSE client

-----------------------------------------------------------------------------
(* The store task and the publication of its copies.                       *)

\* A mutation: it changes the store, and a task is spawned that will write a
\* copy of it to the snapshot and then tell the join or the sweep that awaits it.
Mutate(newStore, joins, swept) ==
  /\ Len(publishing) < MaxWriters
  /\ store' = newStore
  /\ publishing' = Append(publishing, [copy |-> newStore, joins |-> joins,
                                       sweep |-> swept])

\* The spawned task overwrites the snapshot with its copy, then wakes the waiter.
Publish(i) ==
  /\ i \in DOMAIN publishing
  /\ snapshot' = publishing[i].copy
  /\ publishing' = RemoveAt(publishing, i)
  /\ tasks' = {IF t.msg \in publishing[i].joins THEN [t EXCEPT !.pc = "joined"]
               ELSE t : t \in tasks}
  /\ sweep' = IF publishing[i].sweep THEN [sweep EXCEPT !.pc = "close"] ELSE sweep
  /\ UNCHANGED <<store, net, client, resends, superseded>>

-----------------------------------------------------------------------------
(* The process loop and the tasks it spawns.                               *)

\* Sim2hHandle::disconnect of one uri: the drop is on the channel before the
\* call returns, and the connection manager is told to close the socket.
Disconnect(u) ==
  /\ Mutate(DropConnectionByUri(store, u), {}, FALSE)
  /\ closing' = IF sock[u] = "open" THEN closing \cup {u} ELSE closing

\* priv_check_incoming_messages, for a Disconnect event.
ReadDisconnect(u) ==
  /\ u \in ended
  /\ ended' = ended \ {u}
  /\ Disconnect(u)
  /\ UNCHANGED <<snapshot, tasks, sweep, sock, client, resends, superseded>>

\* handle_message_join_space, up to its await.
StartJoin(t) ==
  /\ t.pc = "start"
  /\ t.msg.kind = "join"
  /\ LET u == t.msg.uri
         s == SpaceOf[u]
         a == AgentOf[u]
     IN /\ Mutate(NewConnection(store, s, a, u), {t.msg}, FALSE)
        /\ superseded' = (superseded \cup {LookupJoined(store, s, a)}) \ {u, Nil}
  /\ tasks' = (tasks \ {t}) \cup {[t EXCEPT !.pc = "await"]}
  /\ UNCHANGED <<snapshot, sweep, net, client, resends>>

\* Mutant of FinishJoin: the worker is asked for its lists, but gets no receipt.
FinishJoinSilently(t) ==
  /\ t.pc = "joined"
  /\ tasks' = tasks \ {t}
  /\ UNCHANGED <<im, sweep, net, client, resends, superseded>>

\* ... and from there on.
FinishJoin(t) ==
  /\ t.pc = "joined"
  /\ Receipt(t.msg)
  /\ tasks' = tasks \ {t}
  /\ UNCHANGED <<im, sweep, net, resends, superseded>>

\* handle_message: any other message needs the uri to have joined a space,
\* else the server hangs up.
RefuseUnjoined(t) ==
  /\ t.pc = "start"
  /\ t.msg.kind # "join"
  /\ SpacesOfUri(snapshot, t.msg.uri) = {}
  /\ Disconnect(t.msg.uri)
  /\ tasks' = tasks \ {t}
  /\ UNCHANGED <<snapshot, sweep, sock, ended, client, resends, superseded>>

\* handle_message, client_to_lib3h, lib3h_to_client_response: a message of a
\* joined agent gets its receipt, then its work is done or left to a task that
\* only reads. (A message signed by another agent than the one joined under the
\* uri is dropped without a receipt: no worker sends one.)
HandleMessage(t) ==
  /\ t.pc = "start"
  /\ t.msg.kind # "join"
  /\ \E s \in SpacesOfUri(snapshot, t.msg.uri) :
       snapshot[s].uriToConnection[t.msg.uri] = AgentOf[t.msg.uri]
  /\ Receipt(t.msg)
  /\ \/ /\ t.msg.kind = "ask"
        /\ UNCHANGED <<store, publishing, closing>>
     \/ /\ t.msg.kind = "list"      \* spawn_handle_message_list_data
        /\ Mutate(AgentHoldsAspects(store, SpaceOf[t.msg.uri],
                                    AgentOf[t.msg.uri], t.msg.aspects),
                  {}, FALSE)
        /\ UNCHANGED closing
     \/ /\ t.msg.kind = "leave"     \* for now, just disconnect on LeaveSpace
        /\ Disconnect(t.msg.uri)
  /\ tasks' = tasks \ {t}
  /\ UNCHANGED <<snapshot, sweep, sock, ended, resends, superseded>>

-----------------------------------------------------------------------------
(* The task that every 500 ms closes the connections that were replaced.   *)

\* Mutant of SweepStarts: asks only when there is something to close.
SweepStartsIfReplaced ==
  /\ sweep.pc = "sleep"
  /\ Replaced(store) # {}
  /\ sweep' = [pc |-> "wait", uris |-> Replaced(store)]
  /\ Mutate(CheckDisconnected(store), {}, TRUE)
  /\ UNCHANGED <<snapshot, tasks, net, client, resends, superseded>>

SweepStarts ==
  /\ sweep.pc = "sleep"
  /\ sweep' = [pc |-> "wait", uris |-> Replaced(store)]
  /\ Mutate(CheckDisconnected(store), {}, TRUE)
  /\ UNCHANGED <<snapshot, tasks, net, client, resends, superseded>>

SweepCloses(u) ==
  /\ sweep.pc = "close"
  /\ u \in sweep.uris
  /\ sweep' = [sweep EXCEPT !.uris = @ \ {u}]
  /\ Disconnect(u)
  /\ UNCHANGED <<snapshot, tasks, sock, ended, client, resends, superseded>>

SweepEnds ==
  /\ sweep.pc = "close"
  /\ sweep.uris = {}
  /\ sweep' = [sweep EXCEPT !.pc = "sleep"]
  /\ UNCHANGED <<im, tasks, net, client, resends, superseded>>

-----------------------------------------------------------------------------
RunTask(t) ==
  StartJoin(t) \/ FinishJoin(t) \/ RefuseUnjoined(t) \/ HandleMessage(t)

RunSweep == SweepStarts \/ SweepEnds \/ \E u \in Uris : SweepCloses(u)

Next ==
  \/ \E u \in Uris :
       \/ Join(u) \/ Resend(u) \/ SocketEnds(u) \/ CloseSocket(u)
       \/ ReadDisconnect(u)
       \/ \E kind \in Kinds, xs \in EntryLists \cup {{}} : Send(u, kind, xs)
  \/ \E t \in tasks : RunTask(t)
  \/ \E i \in DOMAIN publishing : Publish(i)
  \/ RunSweep

Spec == Init /\ [][Next]_vars

\* Every spawned task runs to its end (tokio never drops one), the process loop
\* reads all events, the connection manager carries out what it is told, and the
\* sweep never stops. Workers need not do anything. As the messages and sockets
\* are finitely many, one condition for each kind of step is as good as one for
\* each task. Publish(1) is the oldest copy still to be written: with it every
\* copy is written sooner or later.
Fairness ==
  /\ WF_vars(Publish(1))
  /\ WF_vars(RunSweep)
  /\ WF_vars(\E u \in Uris : CloseSocket(u))
  /\ WF_vars(\E u \in Uris : ReadDisconnect(u))
  /\ WF_vars(\E t \in tasks : RunTask(t))

FairSpec == Spec /\ Fairness

-----------------------------------------------------------------------------
(* Properties.                                                             *)

\* The variables have their types.
TypeOK ==
  /\ store \in Stores
  /\ publishing \in Seq(Writer)
  /\ snapshot \in Stores
  /\ tasks \subseteq Task
  /\ sweep \in Sweep
  /\ sock \in [Uris -> {"none", "open", "closed"}]
  /\ closing \subseteq Uris
  /\ ended \subseteq Uris
  /\ client \in [Uris -> Client]
  /\ resends \in 0..MaxResends
  /\ superseded \subseteq Uris

\* In the store, in every copy on its way to the snapshot and in the snapshot
\* itself, connections and uri_to_connection stay inverse through joins, repeated
\* joins, joins over a new socket, drops of one socket and dropped spaces: a
\* message for an agent goes to the one socket whose messages count as his.
RoutingConsistent ==
  /\ Consistent(store)
  /\ Consistent(snapshot)
  /\ \A i \in DOMAIN publishing : Consistent(publishing[i].copy)

\* A worker whose join was answered, and whose agent has not joined since over
\* another socket, is known to the store for as long as its socket lives, unless
\* the server has already decided to hang up on it: no drop of another socket of
\* the agent, no dropped space and no repeated join makes the server forget it.
JoinedIsRegistered ==
  \A u \in Uris :
    client[u].joined /\ sock[u] = "open" /\ u \notin superseded
      => \/ store[SpaceOf[u]].uriToConnection[u] = AgentOf[u]
         \/ u \in closing

\* When the server has nothing left to do, the sockets it routes to are open.
Quiet ==
  /\ publishing = << >> /\ sweep.pc = "sleep"
  /\ tasks = {} /\ closing = {} /\ ended = {}

RoutesAreOpen ==
  Quiet => \A u \in Uris :
             SpacesOfUri(store, u) # {} => sock[u] = "open"

\* Although copies overwrite the snapshot in any order, so that an old one may
\* replace a newer, the snapshot does not stay behind: once the workers are done,
\* it comes to equal the store and remains so.
SnapshotCatchesUp == <>[](snapshot = store)

\* Every message a worker sends gets its receipt or the worker's socket is
\* closed, however often it was repeated and whatever became of the join.
Answered ==
  \A u \in Uris :
    (client[u].out # {}) ~> (client[u].out = {} \/ sock[u] = "closed")
=============================================================================
