---------------------------- MODULE HoldingQueue ----------------------------
(***************************************************************************)
(* The DHT holding queue of one holochain instance: how an entry aspect    *)
(* that the network asks this node to store is queued, picked up,          *)
(* validated, held, retried, acknowledged, pruned and restored.            *)
(*                                                                         *)
(* Five kinds of actors touch the queue:                                   *)
(*   - the network thread (handle_store) turns a store request into a      *)
(*     QueueHoldingWorkflow action;                                        *)
(*   - the action loop reduces one action at a time, then saves the state; *)
(*   - the holding loop reads a clone of the state, picks the next free    *)
(*     item, dispatches its move to the in-process list, and blocks until  *)
(*     it sees the move in the state before it spawns the workflow;        *)
(*   - one task per in-process item runs the holding workflow;             *)
(*   - a timer dispatches Prune.                                           *)
(* They only share the action channel (unbounded, FIFO) and the state.     *)
(* The content and metadata stores are not modelled here: what they answer *)
(* to a HoldAspect is a nondeterministic outcome of its reducer.            *)
(***************************************************************************)
EXTENDS Naturals, Sequences, FiniteSets

CONSTANTS
  Aspects,          \* the entry aspects the network may ask this node to hold
  Addresses,        \* entry addresses
  Workflows,        \* ValidatingWorkflow
  EntryOf,          \* aspect -> address of pending.entry_with_header.entry
  WorkflowOf,       \* aspect -> the workflow PendingValidationStruct gives it
  DependenciesOf,   \* aspect -> addresses of its validation dependencies
  HoldsOf,          \* aspect -> the aspects its workflow holds, in order
  RetryMin,         \* RETRY_VALIDATION_DURATION_MIN
  RetryMax,         \* RETRY_VALIDATION_DURATION_MAX
  HeaderFaults,     \* whether add_header_for_entry may fail
  MaxStores,        \* bound: store requests delivered by the network
  MaxPrunes,        \* bound: Prune actions dispatched by the timer
  MaxCrashes,       \* bound: restarts of the process
  MaxSaveFailures   \* bound: saves of the state that fail

ASSUME AspectAssumption ==
  /\ EntryOf \in [Aspects -> Addresses]
  /\ WorkflowOf \in [Aspects -> Workflows]
  /\ DependenciesOf \in [Aspects -> SUBSET Addresses]

\* Every workflow holds at least one aspect, and first of all the queued one.
ASSUME HoldsAssumption ==
  /\ HoldsOf \in [Aspects -> Seq(Aspects)]
  /\ \A a \in Aspects : HoldsOf[a] # << >> /\ Head(HoldsOf[a]) = a

ASSUME RetryAssumption ==
  /\ RetryMin \in Nat \ {0}
  /\ RetryMax \in Nat
  /\ RetryMin =< RetryMax

ASSUME BoundAssumption ==
  /\ HeaderFaults \in BOOLEAN
  /\ {MaxStores, MaxPrunes, MaxCrashes, MaxSaveFailures} \subseteq Nat

VARIABLES
  queued,       \* DhtStore::queued_holding_workflows
  inProcess,    \* DhtStore::in_process_holding_workflows
  held,         \* DhtStore::holding_map
  channel,      \* the redux action channel
  loop,         \* the holding loop: scanning, or blocked on an item
  tasks,        \* the spawned holding workflows
  persisted,    \* the DhtStoreSnapshot of the last successful save
  uuid,         \* the next ProcessUniqueId
  prunes, crashes, saveFailures,  \* counters for the bounds
  accepted,     \* history: aspects that were pushed on the queue
  acked,        \* history: aspects this node told the network it holds
  gone          \* history: aspects rejected, pruned, or lost by a failed save

store == <<queued, inProcess, held>>
history == <<accepted, acked, gone>>
counters == <<uuid, prunes, crashes, saveFailures>>
vars == <<queued, inProcess, held, channel, loop, tasks, persisted,
          uuid, prunes, crashes, saveFailures, accepted, acked, gone>>

-----------------------------------------------------------------------------
(* Data. A PendingValidation is an aspect and the uuid of this attempt to  *)
(* queue it; == on pendings compares both, has_same_* only the aspect      *)
(* (header and workflow).                                                  *)

Pending == [aspect : Aspects, uuid : Nat]

\* The delay of an item: 0 is a timeout of None.
Delay == {0} \cup RetryMin..RetryMax

\* PendingValidationWithTimeout: elapsed tells whether the time since
\* time_of_dispatch has reached the delay.
Item == [pending : Pending, delay : Delay, elapsed : BOOLEAN]

Reason == {"rejected", "pruned", "unsaved"}

Actions ==
  [type : {"QueueHoldingWorkflow", "Processing", "Done"}, pending : Pending]
  \cup [type : {"Waiting"}, pending : Pending, delay : RetryMin..RetryMax]
  \cup [type : {"HoldAspect"}, pending : Pending, aspect : Aspects]
  \cup [type : {"Ack"}, aspect : Aspects]
  \cup [type : {"Prune"}]

LoopState ==
  [pc : {"scan"}]
  \cup [pc : {"wait"}, pending : Pending, delay : Delay]

\* A running workflow: the aspects it still has to hold and what it awaits.
Task == [pending : Pending, delay : Delay, todo : Seq(Aspects),
         pc : {"validate", "hold", "held", "failed"}]

\* has_exact_queued_holding_workflow / has_exact_in_process_holding_workflow
HasExact(q, p) == \E i \in DOMAIN q : q[i].pending = p

\* has_same_queued_holding_worfkow / has_same_in_process_holding_worfkow
HasSame(q, a) == \E i \in DOMAIN q : q[i].pending.aspect = a

\* Mutant of Without: removes the item after the one found.
WithoutNext(q, i) ==
  [j \in 1..(Len(q) - 1) |-> IF j =< i THEN q[j] ELSE q[j + 1]]

\* VecDeque::remove(index)
Without(q, i) ==
  [j \in 1..(Len(q) - 1) |-> IF j < i THEN q[j] ELSE q[j + 1]]

PendingAspects == {a \in Aspects : HasSame(queued, a) \/ HasSame(inProcess, a)}

Snapshot == [queued |-> queued, inProcess |-> inProcess, held |-> held]

-----------------------------------------------------------------------------
(* The network thread and the timer.                                       *)

\* handle_store: an aspect already held is acknowledged again (ack_single),
\* any other becomes a pending validation with a fresh uuid. The holding map is
\* read before the dispatch: a hold reduced in between goes unnoticed.
HandleStore(a) ==
  /\ uuid < MaxStores
  /\ uuid' = uuid + 1
  /\ \/ /\ a \in held
        /\ channel' = Append(channel, [type |-> "Ack", aspect |-> a])
     \/ channel' = Append(channel, [type |-> "QueueHoldingWorkflow",
                                    pending |-> [aspect |-> a, uuid |-> uuid]])
  /\ UNCHANGED <<store, loop, tasks, persisted, prunes, crashes,
                 saveFailures, history>>

\* create_state_pruning_callback
DispatchPrune ==
  /\ prunes < MaxPrunes
  /\ prunes' = prunes + 1
  /\ channel' = Append(channel, [type |-> "Prune"])
  /\ UNCHANGED <<store, loop, tasks, persisted, uuid, crashes,
                 saveFailures, history>>

\* The delay of a queued item runs out.
DelayElapses(i) ==
  /\ i \in DOMAIN queued
  /\ ~queued[i].elapsed
  /\ queued' = [queued EXCEPT ![i].elapsed = TRUE]
  /\ UNCHANGED <<inProcess, held, channel, loop, tasks, persisted, counters,
                 history>>

-----------------------------------------------------------------------------
(* The action loop: process_action reduces the next action and saves.      *)

\* save: a failure is only logged, the snapshot then stays the older one.
Save ==
  \/ /\ persisted' = Snapshot'
     /\ saveFailures' = saveFailures
  \/ /\ saveFailures < MaxSaveFailures
     /\ saveFailures' = saveFailures + 1
     /\ persisted' = persisted

\* The next action of the channel has this type; it is consumed.
Reduces(type) ==
  /\ channel # << >>
  /\ Head(channel).type = type
  /\ channel' = Tail(channel)
  /\ UNCHANGED <<loop, uuid, prunes, crashes>>

\* Mutant of AlreadyKnown: forgets the in-process list.
AlreadyKnownQueued(a) == a \in held \/ HasSame(queued, a)

\* The three reasons for which reduce_queue_holding_workflow skips an aspect.
AlreadyKnown(a) == a \in held \/ HasSame(queued, a) \/ HasSame(inProcess, a)

\* reduce_queue_holding_workflow
ReduceQueueHoldingWorkflow ==
  /\ Reduces("QueueHoldingWorkflow")
  /\ LET p == Head(channel).pending
     IN \/ /\ AlreadyKnown(p.aspect)
           /\ UNCHANGED <<queued, accepted>>
        \/ /\ ~AlreadyKnown(p.aspect)
           /\ queued' = Append(queued, [pending |-> p, delay |-> 0,
                                        elapsed |-> TRUE])
           /\ accepted' = accepted \cup {p.aspect}
  /\ UNCHANGED <<inProcess, held, tasks, acked, gone>>
  /\ Save

\* update_queued_holding_workflow(Processing): from queued to in process.
ReduceProcessing ==
  /\ Reduces("Processing")
  /\ LET p == Head(channel).pending
     IN \/ /\ ~HasExact(queued, p)        \* error!("... not found waiting!")
           /\ UNCHANGED <<queued, inProcess>>
        \/ \E i \in DOMAIN queued :
             /\ queued[i].pending = p
             /\ queued' = Without(queued, i)
             /\ inProcess' = Append(inProcess, queued[i])
  /\ UNCHANGED <<held, tasks, history>>
  /\ Save

\* update_queued_holding_workflow(Waiting): back to the end of the queue.
ReduceWaiting ==
  /\ Reduces("Waiting")
  /\ LET p == Head(channel).pending
     IN \/ /\ ~HasExact(inProcess, p)     \* error!("... not found in process!")
           /\ UNCHANGED <<queued, inProcess>>
        \/ \E i \in DOMAIN inProcess :
             /\ inProcess[i].pending = p
             /\ inProcess' = Without(inProcess, i)
             /\ queued' = Append(queued, [pending |-> p,
                                          delay |-> Head(channel).delay,
                                          elapsed |-> FALSE])
  /\ UNCHANGED <<held, tasks, history>>
  /\ Save

\* update_queued_holding_workflow(Done): leaves the in-process list.
ReduceDone ==
  /\ Reduces("Done")
  /\ LET p == Head(channel).pending
     IN \/ /\ ~HasExact(inProcess, p)     \* error!("... not found in process!")
           /\ UNCHANGED inProcess
        \/ \E i \in DOMAIN inProcess :
             /\ inProcess[i].pending = p
             /\ inProcess' = Without(inProcess, i)
  /\ UNCHANGED <<queued, held, tasks, history>>
  /\ Save

\* Mutant of Answer: a workflow takes an error for a success.
AnswerHeld(p, pc) ==
  tasks' = {IF t.pending = p /\ t.pc = "hold" THEN [t EXCEPT !.pc = "held"]
            ELSE t : t \in tasks}

\* The workflow waiting for the result of this HoldAspect learns it.
Answer(p, pc) ==
  tasks' = {IF t.pending = p /\ t.pc = "hold" THEN [t EXCEPT !.pc = pc] ELSE t :
              t \in tasks}

\* reduce_hold_aspect: held; or an error is recorded for the attempt; or, when
\* the header of a content aspect cannot be added, neither (`.ok()?`).
ReduceHoldAspect ==
  /\ Reduces("HoldAspect")
  /\ LET a == Head(channel) IN
       \/ held' = held \cup {a.aspect} /\ Answer(a.pending, "held")
       \/ held' = held /\ Answer(a.pending, "failed")
       \/ HeaderFaults /\ held' = held /\ tasks' = tasks
  /\ UNCHANGED <<queued, inProcess, history>>
  /\ Save

\* The reducer of RespondGossipList hands the list to the network.
ReduceAck ==
  /\ Reduces("Ack")
  /\ acked' = acked \cup {Head(channel).aspect}
  /\ UNCHANGED <<store, tasks, accepted, gone>>
  /\ Save

PruneKey(item) ==
  <<WorkflowOf[item.pending.aspect], EntryOf[item.pending.aspect]>>

\* unique_by: the indices of the first item of each key, in order.
UniqueIndices(q) ==
  {i \in DOMAIN q : \A j \in 1..(i - 1) : PruneKey(q[j]) # PruneKey(q[i])}

Enumerations(S) ==
  {f \in [1..Cardinality(S) -> S] :
     /\ \A i, j \in DOMAIN f : i < j => f[i] < f[j]
     /\ \A k \in S : \E i \in DOMAIN f : f[i] = k}

\* reduce_prune of the DHT store.
ReducePrune ==
  /\ Reduces("Prune")
  /\ \E f \in Enumerations(UniqueIndices(queued)) :
       queued' = [i \in DOMAIN f |-> queued[f[i]]]
  /\ gone' = gone \cup {<<queued[i].pending.aspect, "pruned">> :
                          i \in DOMAIN queued \ UniqueIndices(queued)}
  /\ UNCHANGED <<inProcess, held, tasks, accepted, acked>>
  /\ Save

ActionLoop ==
  \/ ReduceQueueHoldingWorkflow
  \/ ReduceProcessing
  \/ ReduceWaiting
  \/ ReduceDone
  \/ ReduceHoldAspect
  \/ ReduceAck
  \/ ReducePrune

-----------------------------------------------------------------------------
(* The holding loop.                                                       *)

\* free_pending_filter: no dependency is the entry of a queued item.
Free(q, i) ==
  \A d \in DependenciesOf[q[i].pending.aspect] :
    \A j \in DOMAIN q : EntryOf[q[j].pending.aspect] # d

\* Mutant of IsNext: only the head of the queue is looked at.
IsNextHead(q, i) == i = 1 /\ i \in DOMAIN q /\ Free(q, i) /\ q[i].elapsed

\* next_queued_holding_workflow: the first free item whose delay has elapsed.
IsNext(q, i) ==
  /\ i \in DOMAIN q
  /\ Free(q, i) /\ q[i].elapsed
  /\ \A j \in 1..(i - 1) : ~(Free(q, j) /\ q[j].elapsed)

\* start_holding_loop: pick an item, dispatch its move and block on it.
LoopPick ==
  /\ loop.pc = "scan"
  /\ \E i \in DOMAIN queued :
       /\ IsNext(queued, i)
       /\ loop' = [pc |-> "wait", pending |-> queued[i].pending,
                   delay |-> queued[i].delay]
       /\ channel' = Append(channel, [type |-> "Processing",
                                      pending |-> queued[i].pending])
  /\ UNCHANGED <<store, tasks, persisted, counters, history>>

\* Mutant of MoveSeen: the loop does not wait for the move.
MoveDispatched(p) == p \in Pending

\* RemoveQueuedHoldingWorkflowFuture (Processing) is ready.
MoveSeen(p) == ~HasExact(queued, p) /\ HasExact(inProcess, p)

\* block_on returns: spawn the workflow and go on scanning.
LoopStart ==
  /\ loop.pc = "wait"
  /\ MoveSeen(loop.pending)
  /\ tasks' = tasks \cup {[pending |-> loop.pending, delay |-> loop.delay,
                           todo |-> HoldsOf[loop.pending.aspect],
                           pc |-> "validate"]}
  /\ loop' = [pc |-> "scan"]
  /\ UNCHANGED <<store, channel, persisted, counters, history>>

-----------------------------------------------------------------------------
(* The holding workflows. A workflow dispatches its last action and then   *)
(* only waits to see it reduced, so the task ends with the dispatch.       *)

\* Mutants of NextDelay: no cap, and no growth.
NextDelayUncapped(delay) == IF delay = 0 THEN RetryMin ELSE 2 * delay
NextDelayFlat(delay) == IF delay = 0 THEN RetryMin ELSE delay

\* The exponential back-off of the retries.
NextDelay(delay) ==
  LET doubled == IF delay = 0 THEN RetryMin ELSE 2 * delay
  IN IF doubled > RetryMax THEN RetryMax ELSE doubled

Dispatch(actions) ==
  /\ channel' = channel \o actions
  /\ UNCHANGED <<store, loop, persisted, counters, accepted, acked>>

\* The validation package or a dependency is missing: ValidationPending.
ValidationPending(t) ==
  /\ t.pc = "validate"
  /\ tasks' = tasks \ {t}
  /\ Dispatch(<<[type |-> "Waiting", pending |-> t.pending,
                 delay |-> NextDelay(t.delay)]>>)
  /\ UNCHANGED gone

\* The aspect is not valid, or validation failed with another error.
ValidationFails(t) ==
  /\ t.pc = "validate"
  /\ tasks' = tasks \ {t}
  /\ Dispatch(<<[type |-> "Done", pending |-> t.pending]>>)
  /\ gone' = gone \cup {<<t.pending.aspect, "rejected">>}

\* The aspect is valid: hold the first aspect of the workflow.
ValidationSucceeds(t) ==
  /\ t.pc = "validate"
  /\ tasks' = (tasks \ {t}) \cup {[t EXCEPT !.pc = "hold"]}
  /\ Dispatch(<<[type |-> "HoldAspect", pending |-> t.pending,
                 aspect |-> Head(t.todo)]>>)
  /\ UNCHANGED gone

\* hold_aspect returned Ok: ack_single, then the next aspect of the workflow
\* or, after the last one, the end of it.
AspectHeld(t) ==
  LET ack == [type |-> "Ack", aspect |-> Head(t.todo)]
      rest == Tail(t.todo)
  IN /\ t.pc = "held"
     /\ \/ /\ rest = << >>
           /\ tasks' = tasks \ {t}
           /\ Dispatch(<<ack, [type |-> "Done", pending |-> t.pending]>>)
        \/ /\ rest # << >>
           /\ tasks' = (tasks \ {t})
                         \cup {[t EXCEPT !.pc = "hold", !.todo = rest]}
           /\ Dispatch(<<ack, [type |-> "HoldAspect", pending |-> t.pending,
                               aspect |-> Head(rest)]>>)
     /\ UNCHANGED gone

\* hold_aspect returned an error: the workflow ends without a retry.
AspectNotHeld(t) ==
  /\ t.pc = "failed"
  /\ tasks' = tasks \ {t}
  /\ Dispatch(<<[type |-> "Done", pending |-> t.pending]>>)
  /\ gone' = gone \cup {<<t.pending.aspect, "rejected">>}

Workflow(t) ==
  \/ ValidationPending(t)
  \/ ValidationFails(t)
  \/ ValidationSucceeds(t)
  \/ AspectHeld(t)
  \/ AspectNotHeld(t)

-----------------------------------------------------------------------------
(* Crash and restart.                                                      *)

\* Mutant of Restored: the in-process items are forgotten.
RestoredQueued(snapshot) ==
  [i \in 1..Len(snapshot.queued) |->
     [pending |-> snapshot.queued[i].pending, delay |-> RetryMin,
      elapsed |-> FALSE]]

\* new_from_snapshot: in-process items go ahead of the queued ones and every
\* delay starts again from the minimum.
Restored(snapshot) ==
  LET q == snapshot.inProcess \o snapshot.queued
  IN [i \in 1..Len(q) |-> [pending |-> q[i].pending, delay |-> RetryMin,
                           elapsed |-> FALSE]]

\* The aspects a snapshot knows of.
Recorded(snapshot) ==
  {a \in Aspects : \/ a \in snapshot.held
                   \/ HasSame(snapshot.queued, a)
                   \/ HasSame(snapshot.inProcess, a)}

\* The process stops between two steps and starts again from the snapshot. The
\* uuids go on where they were; a ProcessUniqueId is unique within one process
\* only, so an id may come back after a restart, with another aspect or, as
\* nothing of the older process is left in the channel, harmlessly with the same.
Crash ==
  /\ crashes < MaxCrashes
  /\ crashes' = crashes + 1
  /\ queued' = Restored(persisted)
  /\ inProcess' = << >>
  /\ held' = persisted.held
  /\ channel' = << >>
  /\ loop' = [pc |-> "scan"]
  /\ tasks' = {}
  /\ gone' = gone \cup
       {<<a, "unsaved">> : a \in (held \ persisted.held)
                              \cup (PendingAspects \ Recorded(persisted))}
  /\ UNCHANGED <<persisted, uuid, prunes, saveFailures, accepted, acked>>

-----------------------------------------------------------------------------
Init ==
  /\ queued = << >>
  /\ inProcess = << >>
  /\ held = {}
  /\ channel = << >>
  /\ loop = [pc |-> "scan"]
  /\ tasks = {}
  /\ persisted = Snapshot
  /\ uuid = 0
  /\ prunes = 0
  /\ crashes = 0
  /\ saveFailures = 0
  /\ accepted = {}
  /\ acked = {}
  /\ gone = {}

Next ==
  \/ \E a \in Aspects : HandleStore(a)
  \/ DispatchPrune
  \/ \E i \in DOMAIN queued : DelayElapses(i)
  \/ ActionLoop
  \/ LoopPick
  \/ LoopStart
  \/ \E t \in tasks : Workflow(t)
  \/ Crash

Spec == Init /\ [][Next]_vars

\* The scheduler runs every thread and task, clocks advance, and the network
\* eventually lets a validation come to an end (the environment's part).
Fairness ==
  /\ WF_vars(ActionLoop)
  /\ WF_vars(LoopPick)
  /\ WF_vars(LoopStart)
  /\ WF_vars(\E i \in DOMAIN queued : DelayElapses(i))
  /\ \A a \in Aspects :
       /\ WF_vars(\E t \in tasks : t.pending.aspect = a /\ Workflow(t))
       /\ SF_vars(\E t \in tasks : /\ t.pending.aspect = a
                                   /\ ValidationSucceeds(t) \/ ValidationFails(t))

FairSpec == Spec /\ Fairness

-----------------------------------------------------------------------------
(* Properties.                                                             *)

\* The type invariant: the delay of every item is None or lies between the two
\* retry constants, whatever was doubled, restored or requeued.
TypeOK ==
  /\ queued \in Seq(Item)
  /\ inProcess \in Seq(Item)
  /\ held \in SUBSET Aspects
  /\ channel \in Seq(Actions)
  /\ loop \in LoopState
  /\ tasks \in SUBSET Task
  /\ persisted \in [queued : Seq(Item), inProcess : Seq(Item),
                    held : SUBSET Aspects]
  /\ uuid \in Nat /\ prunes \in Nat /\ crashes \in Nat /\ saveFailures \in Nat
  /\ accepted \in SUBSET Aspects
  /\ acked \in SUBSET Aspects
  /\ gone \in SUBSET (Aspects \X Reason)

Distinct(q) ==
  \A i, j \in DOMAIN q : q[i].pending.aspect = q[j].pending.aspect => i = j

Disjoint(q, r) ==
  \A i \in DOMAIN q : \A j \in DOMAIN r :
    q[i].pending.aspect # r[j].pending.aspect

\* However often the network repeats a store request, and whatever is retried,
\* pruned or restored, an aspect is pending at most once: not twice in the
\* queue, not twice in process, not in both. reduce_queue_holding_workflow
\* checks this only when an item is first pushed.
OnePendingPerAspect ==
  /\ Distinct(queued)
  /\ Distinct(inProcess)
  /\ Disjoint(queued, inProcess)

\* No aspect is validated by two workflows at once, and a running workflow
\* always belongs to an item of the in-process list, so that a restart finds
\* it there and runs it again.
OneWorkflowPerAspect ==
  /\ \A t, u \in tasks : t.pending.aspect = u.pending.aspect => t = u
  /\ \A t \in tasks : HasExact(inProcess, t.pending)

\* When a workflow ends, its item is still in process: the error branches
\* "not found in process!" of update_queued_holding_workflow are never taken.
EndedIsInProcess ==
  \A k \in DOMAIN channel :
    channel[k].type \in {"Waiting", "Done"} =>
      HasExact(inProcess, channel[k].pending)

\* The network is only told of aspects this node holds, also after a restart;
\* the exception is an aspect whose hold could not be saved before a crash.
AckedIsHeld ==
  \A a \in acked : a \in held \/ <<a, "unsaved">> \in gone

\* An aspect accepted into the queue is held or still pending, also after
\* retries and restarts, unless it was rejected by validation or storage,
\* dropped by Prune, or never saved before a crash.
NothingLost ==
  \A a \in accepted :
    a \in held \/ a \in PendingAspects \/ \E r \in Reason : <<a, r>> \in gone

\* A delay that is longer than the one before it, as far as the cap allows.
Longer(delay, before) ==
  delay >= RetryMin /\ (delay > before \/ delay = RetryMax)

\* A retry waits longer than the attempt before it until the cap is reached,
\* and never less than the minimum: the delay read when the item was picked
\* survives the trip through the holding loop and the workflow.
BackoffGrows ==
  [][crashes' = crashes =>
       \A i \in DOMAIN queued' : \A j \in DOMAIN inProcess :
         queued'[i].pending = inProcess[j].pending =>
           Longer(queued'[i].delay, inProcess[j].delay)]_vars

\* The holding loop only ever blocks on an item that is in one of the lists:
\* "If for whatever reason we pop_next_holding_workflow anywhere else other
\* than here, we can run into a race condition" (start_holding_loop).
LoopNotStranded ==
  loop.pc = "wait" =>
    HasExact(queued, loop.pending) \/ HasExact(inProcess, loop.pending)

\* The queued aspects of S wait for each other: each depends on the entry of one
\* of them. It may be its own, since free_pending_filter counts all the queued
\* items: an update of an entry to the same content depends on its own entry.
Knot(S) ==
  /\ \A a \in S : HasSame(queued, a)
  /\ \A a \in S : \E b \in S : EntryOf[b] \in DependenciesOf[a]

\* The aspect is one of such a set, or waits for one that is.
Knotted(a) == \E S \in SUBSET Aspects : a \in S /\ Knot(S)

\* Every pending aspect eventually leaves the queue and the in-process list:
\* dependencies that are queued too, retries, prunes and restarts delay it. Two
\* things alone keep it there: dependencies of queued items that form a cycle,
\* which free_pending_filter never frees, and the holding loop blocked on an item
\* that Prune has taken away (LoopNotStranded).
Drains ==
  \A a \in Aspects :
    a \in PendingAspects ~>
      a \notin PendingAspects \/ Knotted(a) \/ ~LoopNotStranded

-----------------------------------------------------------------------------
(* The inductive invariant of HoldingQueue_proofs.                         *)

\* The last saved state is as well-formed as the state itself.
SnapshotInv ==
  /\ Distinct(persisted.queued)
  /\ Distinct(persisted.inProcess)
  /\ Disjoint(persisted.queued, persisted.inProcess)

Ends(a) == a.type \in {"Waiting", "Done"}

\* An item in process belongs to the blocked loop, to one workflow, or to one
\* end-of-workflow action on its way through the channel: never to two.
OwnerInv ==
  /\ \A k \in DOMAIN channel : Ends(channel[k]) =>
       /\ HasExact(inProcess, channel[k].pending)
       /\ \A t \in tasks : t.pending # channel[k].pending
       /\ loop.pc = "wait" => loop.pending # channel[k].pending
  /\ \A k, l \in DOMAIN channel :
       Ends(channel[k]) /\ Ends(channel[l])
         /\ channel[k].pending = channel[l].pending => k = l
  /\ loop.pc = "wait" => \A t \in tasks : t.pending # loop.pending

\* A move to the in-process list is under way only while the loop blocks on it.
MoveInv ==
  /\ \A k \in DOMAIN channel : channel[k].type = "Processing" =>
       /\ loop.pc = "wait"
       /\ loop.pending = channel[k].pending
       /\ ~HasExact(inProcess, channel[k].pending)
  /\ \A k, l \in DOMAIN channel :
       channel[k].type = "Processing" /\ channel[l].type = "Processing" => k = l

\* A HoldAspect under way is the one its workflow waits for.
HoldInv ==
  /\ \A k \in DOMAIN channel : channel[k].type = "HoldAspect" =>
       \E t \in tasks : /\ t.pending = channel[k].pending
                        /\ t.pc = "hold"
                        /\ Head(t.todo) = channel[k].aspect
  /\ \A k, l \in DOMAIN channel :
       channel[k].type = "HoldAspect" /\ channel[l].type = "HoldAspect"
         /\ channel[k].pending = channel[l].pending => k = l

\* What a workflow has got done so far is in the holding map.
ProgressInv ==
  /\ \A t \in tasks :
       /\ t.todo # << >>
       /\ Head(t.todo) = t.pending.aspect \/ t.pending.aspect \in held
       /\ t.pc = "held" => Head(t.todo) \in held
  /\ \A k \in DOMAIN channel :
       /\ channel[k].type = "Ack" => channel[k].aspect \in held
       /\ channel[k].type = "Done" =>
            \/ channel[k].pending.aspect \in held
            \/ <<channel[k].pending.aspect, "rejected">> \in gone

\* The delay of an item on its way from the loop through its workflow to the
\* action that requeues it: never shorter than the item's own, longer at the
\* end. Kept apart from IInv, which it builds on.
BackoffInv ==
  /\ loop.pc = "wait" =>
       /\ \A j \in DOMAIN queued :
            queued[j].pending = loop.pending => loop.delay >= queued[j].delay
       /\ \A j \in DOMAIN inProcess :
            inProcess[j].pending = loop.pending => loop.delay >= inProcess[j].delay
  /\ \A t \in tasks : \A j \in DOMAIN inProcess :
       inProcess[j].pending = t.pending => t.delay >= inProcess[j].delay
  /\ \A k \in DOMAIN channel : channel[k].type = "Waiting" =>
       \A j \in DOMAIN inProcess : inProcess[j].pending = channel[k].pending =>
         Longer(channel[k].delay, inProcess[j].delay)

IInv ==
  /\ TypeOK
  /\ OnePendingPerAspect
  /\ SnapshotInv
  /\ OneWorkflowPerAspect
  /\ OwnerInv
  /\ MoveInv
  /\ HoldInv
  /\ ProgressInv
  /\ AckedIsHeld
  /\ NothingLost
=============================================================================
