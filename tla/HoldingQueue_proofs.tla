------------------------ MODULE HoldingQueue_proofs -------------------------
(***************************************************************************)
(* Proofs that the invariants of HoldingQueue hold for every set of        *)
(* aspects, every dependency relation, every retry delay and every bound.  *)
(***************************************************************************)
EXTENDS HoldingQueue, SequenceFacts, FiniteSetTheorems, TLAPS

-----------------------------------------------------------------------------
(* Sequences.                                                              *)

\* What Without does, by index: every element but the i-th stays.
LEMMA WithoutFacts ==
  ASSUME NEW S, NEW q \in Seq(S), NEW i \in DOMAIN q
  PROVE  /\ Without(q, i) \in Seq(S)
         /\ DOMAIN Without(q, i) = 1..(Len(q) - 1)
         /\ DOMAIN q = 1..Len(q)
         /\ Len(q) \in Nat
         /\ \A j \in DOMAIN Without(q, i) :
              Without(q, i)[j] = IF j < i THEN q[j] ELSE q[j + 1]
         /\ \A k \in DOMAIN q : k # i =>
              \E j \in DOMAIN Without(q, i) : Without(q, i)[j] = q[k]
  <1>1. Len(q) \in Nat /\ DOMAIN q = 1..Len(q) /\ i \in 1..Len(q)
    OBVIOUS
  <1>2. Len(q) - 1 \in Nat
    BY <1>1
  <1>3. \A j \in 1..(Len(q) - 1) : (IF j < i THEN q[j] ELSE q[j + 1]) \in S
    BY <1>1
  <1>4. Without(q, i) \in [1..(Len(q) - 1) -> S]
    BY <1>3 DEF Without
  <1>5. Without(q, i) \in Seq(S)
    BY <1>2, <1>4
  <1>6. DOMAIN Without(q, i) = 1..(Len(q) - 1)
    BY DEF Without
  <1>7. \A j \in 1..(Len(q) - 1) :
          Without(q, i)[j] = IF j < i THEN q[j] ELSE q[j + 1]
    BY DEF Without
  <1>8. ASSUME NEW k \in DOMAIN q, k # i
        PROVE  \E j \in DOMAIN Without(q, i) : Without(q, i)[j] = q[k]
    <2>1. CASE k < i
      <3>1. k \in 1..(Len(q) - 1) /\ Without(q, i)[k] = q[k]
        BY <1>1, <1>7, <2>1
      <3> QED BY <3>1, <1>6
    <2>2. CASE k > i
      <3>1. k - 1 \in 1..(Len(q) - 1) /\ Without(q, i)[k - 1] = q[k]
        BY <1>1, <1>7, <2>2
      <3> QED BY <3>1, <1>6
    <2> QED BY <1>1, <1>8, <2>1, <2>2
  <1> QED BY <1>1, <1>5, <1>6, <1>7, <1>8

-----------------------------------------------------------------------------
(* The data of an action, by its type.                                     *)

\* The fields of an action that its type promises.
LEMMA ActionFields ==
  ASSUME NEW a \in Actions
  PROVE  /\ a.type \in {"QueueHoldingWorkflow", "Processing", "Done", "Waiting",
                        "HoldAspect"} => a.pending \in Pending
         /\ a.type = "Waiting" => a.delay \in RetryMin..RetryMax
         /\ a.type \in {"HoldAspect", "Ack"} => a.aspect \in Aspects
  BY DEF Actions

\* The delays of the back-off stay between the minimum and the maximum.
LEMMA NextDelayRange ==
  ASSUME NEW d \in Delay
  PROVE  NextDelay(d) \in RetryMin..RetryMax
  BY RetryAssumption DEF NextDelay, Delay

\* Saving the state: the snapshot is the new state or stays what it was.
LEMMA Saved ==
  ASSUME IInv, Save,
         queued' \in Seq(Item), inProcess' \in Seq(Item), held' \in SUBSET Aspects,
         OnePendingPerAspect'
  PROVE  /\ SnapshotInv'
         /\ saveFailures' \in Nat
         /\ persisted' \in [queued : Seq(Item), inProcess : Seq(Item),
                            held : SUBSET Aspects]
  BY DEF IInv, TypeOK, Save, Snapshot, SnapshotInv, OnePendingPerAspect

-----------------------------------------------------------------------------
(* The network thread and the timer.                                       *)

\* Dispatching an action that no invariant but that of the acks speaks of.
LEMMA InertDispatch ==
  ASSUME IInv,
         NEW act \in Actions,
         act.type \in {"Ack", "QueueHoldingWorkflow", "Prune"},
         act.type = "Ack" => act.aspect \in held,
         channel' = Append(channel, act),
         uuid' \in Nat, prunes' \in Nat,
         UNCHANGED <<queued, inProcess, held, loop, tasks, persisted, crashes,
                     saveFailures, accepted, acked, gone>>
  PROVE  IInv'
  <1>1. channel \in Seq(Actions)
    BY DEF IInv, TypeOK
  <1>2. /\ channel' \in Seq(Actions)
        /\ \A k \in DOMAIN channel' :
             \/ k \in DOMAIN channel /\ channel'[k] = channel[k]
             \/ channel'[k] = act
    BY <1>1, Dispatched
  <1>3. TypeOK'
    BY <1>2 DEF IInv, TypeOK
  <1>4. OnePendingPerAspect' /\ SnapshotInv' /\ OneWorkflowPerAspect'
    BY DEF IInv, OnePendingPerAspect, SnapshotInv, OneWorkflowPerAspect,
           Distinct, Disjoint, HasExact
  <1>5. OwnerInv'
    BY <1>2 DEF IInv, OwnerInv, Ends, HasExact
  <1>6. MoveInv'
    BY <1>2 DEF IInv, MoveInv, HasExact
  <1>7. HoldInv'
    BY <1>2 DEF IInv, HoldInv
  <1>8. ProgressInv'
    BY <1>2 DEF IInv, ProgressInv
  <1>9. AckedIsHeld' /\ NothingLost'
    BY DEF IInv, AckedIsHeld, NothingLost, PendingAspects, HasSame
  <1> QED
    BY <1>3, <1>4, <1>5, <1>6, <1>7, <1>8, <1>9 DEF IInv

\* handle_store keeps the invariant, even when the holding map it read is stale.
LEMMA HandleStoreStep ==
  ASSUME IInv, NEW a \in Aspects, HandleStore(a)
  PROVE  IInv'
  <1>1. PICK act \in Actions :
          /\ act.type \in {"Ack", "QueueHoldingWorkflow", "Prune"}
          /\ act.type = "Ack" => act.aspect \in held
          /\ channel' = Append(channel, act)
    BY DEF HandleStore, Actions, Pending, IInv, TypeOK
  <1>2. uuid' \in Nat /\ prunes' \in Nat
    BY DEF HandleStore, IInv, TypeOK
  <1>3. UNCHANGED <<queued, inProcess, held, loop, tasks, persisted, crashes,
                    saveFailures, accepted, acked, gone>>
    BY DEF HandleStore, store, history
  <1> QED BY <1>1, <1>2, <1>3, InertDispatch

\* The pruning timer keeps the invariant.
LEMMA DispatchPruneStep ==
  ASSUME IInv, DispatchPrune
  PROVE  IInv'
  <1>1. [type |-> "Prune"] \in Actions
    BY DEF Actions
  <1>2. UNCHANGED <<queued, inProcess, held, loop, tasks, persisted, crashes,
                    saveFailures, accepted, acked, gone>>
    BY DEF DispatchPrune, store, history
  <1>3. /\ channel' = Append(channel, [type |-> "Prune"])
        /\ uuid' \in Nat /\ prunes' \in Nat
    BY DEF DispatchPrune, IInv, TypeOK
  <1> QED BY <1>1, <1>2, <1>3, InertDispatch

\* The passing of time keeps the invariant.
LEMMA DelayElapsesStep ==
  ASSUME IInv, NEW i \in DOMAIN queued, DelayElapses(i)
  PROVE  IInv'
  <1>1. UNCHANGED <<inProcess, held, channel, loop, tasks, persisted, uuid, prunes,
                    crashes, saveFailures, accepted, acked, gone>>
    BY DEF DelayElapses, counters, history
  <1>2. queued \in Seq(Item) /\ queued[i] \in Item
    BY DEF IInv, TypeOK
  <1>3. [queued[i] EXCEPT !.elapsed = TRUE] \in Item
    BY <1>2 DEF Item
  <1>4. queued' = [queued EXCEPT ![i] = [queued[i] EXCEPT !.elapsed = TRUE]]
    BY DEF DelayElapses
  <1>5. /\ queued' \in Seq(Item)
        /\ DOMAIN queued' = DOMAIN queued
        /\ \A j \in DOMAIN queued : queued'[j].pending = queued[j].pending
    BY <1>2, <1>3, <1>4 DEF Item
  <1>6. TypeOK'
    BY <1>1, <1>5 DEF IInv, TypeOK
  <1>7. OnePendingPerAspect'
    BY <1>1, <1>5 DEF IInv, OnePendingPerAspect, Distinct, Disjoint
  <1>8. SnapshotInv' /\ OneWorkflowPerAspect'
    BY <1>1 DEF IInv, SnapshotInv, OneWorkflowPerAspect, Distinct, Disjoint, HasExact
  <1>9. OwnerInv' /\ MoveInv'
    BY <1>1 DEF IInv, OwnerInv, MoveInv, Ends, HasExact
  <1>10. HoldInv' /\ ProgressInv' /\ AckedIsHeld'
    BY <1>1 DEF IInv, HoldInv, ProgressInv, AckedIsHeld
  <1>11. NothingLost'
    BY <1>1, <1>5 DEF IInv, NothingLost, PendingAspects, HasSame
  <1> QED
    BY <1>6, <1>7, <1>8, <1>9, <1>10, <1>11 DEF IInv

-----------------------------------------------------------------------------
(* The action loop.                                                        *)

\* What every reducer step has in common.
LEMMA ReducesFacts ==
  ASSUME IInv, NEW type, Reduces(type)
  PROVE  /\ channel' \in Seq(Actions)
         /\ 1 \in DOMAIN channel
         /\ Head(channel) = channel[1] /\ Head(channel) \in Actions
         /\ channel[1].type = type
         /\ \A k \in DOMAIN channel' :
              k + 1 \in DOMAIN channel /\ k + 1 # 1 /\ channel'[k] = channel[k + 1]
         /\ DOMAIN channel' \subseteq Nat
         /\ UNCHANGED <<loop, uuid, prunes, crashes>>
  <1>1. channel \in Seq(Actions) /\ channel # << >>
    BY DEF IInv, TypeOK, Reduces
  <1> QED BY <1>1, Consumed DEF Reduces

\* reduce_queue_holding_workflow keeps the invariant.
LEMMA ReduceQueueHoldingWorkflowStep ==
  ASSUME IInv, ReduceQueueHoldingWorkflow
  PROVE  IInv'
  <1> DEFINE p == channel[1].pending
  <1>1. Reduces("QueueHoldingWorkflow") /\ Save
    BY DEF ReduceQueueHoldingWorkflow
  <1>2. /\ channel' \in Seq(Actions)
        /\ p \in Pending
        /\ \A k \in DOMAIN channel' :
             k + 1 \in DOMAIN channel /\ channel'[k] = channel[k + 1]
        /\ DOMAIN channel' \subseteq Nat
        /\ UNCHANGED <<loop, uuid, prunes, crashes>>
        /\ Head(channel) = channel[1]
    BY <1>1, ReducesFacts, ActionFields
  <1>3. UNCHANGED <<inProcess, held, tasks, acked, gone>>
    BY DEF ReduceQueueHoldingWorkflow
  <1> DEFINE item == [pending |-> p, delay |-> 0, elapsed |-> TRUE]
  <1>4. item \in Item
    BY <1>2 DEF Item, Delay
  <1>5. \/ AlreadyKnown(p.aspect) /\ UNCHANGED <<queued, accepted>>
        \/ /\ ~AlreadyKnown(p.aspect)
           /\ queued' = Append(queued, item)
           /\ accepted' = accepted \cup {p.aspect}
    BY <1>2 DEF ReduceQueueHoldingWorkflow
  <1>6. queued \in Seq(Item) /\ inProcess \in Seq(Item)
    BY DEF IInv, TypeOK
  <1>7. item.pending = p
    OBVIOUS
  <1> HIDE DEF p, item
  <1>8. \/ AlreadyKnown(p.aspect) /\ UNCHANGED <<queued, accepted>>
        \/ /\ \A i \in DOMAIN queued : queued[i].pending.aspect # p.aspect
           /\ \A i \in DOMAIN inProcess : inProcess[i].pending.aspect # p.aspect
           /\ \A i \in DOMAIN queued' :
                \/ i \in DOMAIN queued /\ queued'[i] = queued[i]
                \/ i = Len(queued) + 1 /\ queued'[i].pending = p
           /\ \A i \in DOMAIN queued : i \in DOMAIN queued' /\ queued'[i] = queued[i]
           /\ \E i \in DOMAIN queued' : queued'[i].pending = p
           /\ accepted' = accepted \cup {p.aspect}
    <2>1. CASE AlreadyKnown(p.aspect)
      BY <1>5, <2>1
    <2>2. CASE ~AlreadyKnown(p.aspect)
      <3>1. queued' = Append(queued, item) /\ accepted' = accepted \cup {p.aspect}
        BY <1>5, <2>2
      <3>2. /\ \A i \in DOMAIN queued : queued[i].pending.aspect # p.aspect
            /\ \A i \in DOMAIN inProcess : inProcess[i].pending.aspect # p.aspect
        BY <2>2 DEF AlreadyKnown, HasSame
      <3>3. /\ Len(queued) \in Nat /\ DOMAIN queued = 1..Len(queued)
            /\ DOMAIN queued' = 1..(Len(queued) + 1)
            /\ \A i \in DOMAIN queued : queued'[i] = queued[i]
            /\ queued'[Len(queued) + 1].pending = p
        BY <1>4, <1>6, <1>7, <3>1, AppendFacts
      <3>4. /\ \A i \in DOMAIN queued' :
                 \/ i \in DOMAIN queued /\ queued'[i] = queued[i]
                 \/ i = Len(queued) + 1 /\ queued'[i].pending = p
            /\ \A i \in DOMAIN queued : i \in DOMAIN queued' /\ queued'[i] = queued[i]
            /\ Len(queued) + 1 \in DOMAIN queued'
        BY <3>3
      <3> QED BY <3>1, <3>2, <3>3, <3>4
    <2> QED BY <2>1, <2>2
  <1>9. queued' \in Seq(Item)
    BY <1>4, <1>5, <1>6, AppendFacts
  <1>10. OnePendingPerAspect'
    BY <1>3, <1>8 DEF IInv, OnePendingPerAspect, Distinct, Disjoint
  <1>11. /\ SnapshotInv' /\ saveFailures' \in Nat
         /\ persisted' \in [queued : Seq(Item), inProcess : Seq(Item),
                            held : SUBSET Aspects]
    BY <1>1, <1>3, <1>9, <1>10, Saved DEF IInv, TypeOK
  <1>12. accepted' \in SUBSET Aspects
    BY <1>2, <1>5 DEF IInv, TypeOK, Pending
  <1>13. TypeOK'
    BY <1>2, <1>3, <1>9, <1>11, <1>12 DEF IInv, TypeOK
  <1>14. OneWorkflowPerAspect'
    BY <1>3 DEF IInv, OneWorkflowPerAspect, HasExact
  <1>15. OwnerInv' /\ MoveInv'
    BY <1>2, <1>3 DEF IInv, OwnerInv, MoveInv, Ends, HasExact
  <1>16. HoldInv' /\ ProgressInv' /\ AckedIsHeld'
    BY <1>2, <1>3 DEF IInv, HoldInv, ProgressInv, AckedIsHeld
  <1>17. NothingLost'
    BY <1>2, <1>3, <1>8 DEF IInv, NothingLost, PendingAspects, HasSame, Pending
  <1> QED
    BY <1>10, <1>11, <1>13, <1>14, <1>15, <1>16, <1>17 DEF IInv

\* Moving an item between the lists: where the items of r = Without(q, i) are
\* in q, and that every other item of q is still there.
LEMMA Moved ==
  ASSUME NEW q \in Seq(Item), NEW i \in DOMAIN q, Distinct(q)
  PROVE  /\ Without(q, i) \in Seq(Item)
         /\ Distinct(Without(q, i))
         /\ \A j \in DOMAIN Without(q, i) :
              \E k \in DOMAIN q : k # i /\ Without(q, i)[j] = q[k]
         /\ \A j \in DOMAIN Without(q, i) :
              Without(q, i)[j].pending.aspect # q[i].pending.aspect
         /\ \A k \in DOMAIN q : k # i =>
              \E j \in DOMAIN Without(q, i) : Without(q, i)[j] = q[k]
  <1> DEFINE r == Without(q, i)
             from(j) == IF j < i THEN j ELSE j + 1
  <1>1. /\ r \in Seq(Item) /\ DOMAIN r = 1..(Len(q) - 1)
        /\ DOMAIN q = 1..Len(q) /\ Len(q) \in Nat
        /\ \A j \in DOMAIN r : r[j] = IF j < i THEN q[j] ELSE q[j + 1]
        /\ \A k \in DOMAIN q : k # i => \E j \in DOMAIN r : r[j] = q[k]
    BY WithoutFacts
  <1> HIDE DEF r
  <1>2. \A j \in DOMAIN r :
          from(j) \in DOMAIN q /\ from(j) # i /\ r[j] = q[from(j)]
    BY <1>1
  <1>3. \A j, k \in DOMAIN r : from(j) = from(k) => j = k
    BY <1>1
  <1>4. Distinct(r)
    BY <1>2, <1>3 DEF Distinct
  <1>5. \A j \in DOMAIN r : r[j].pending.aspect # q[i].pending.aspect
    BY <1>2 DEF Distinct
  <1> QED BY <1>1, <1>2, <1>4, <1>5 DEF r

\* q2 and r2 are q and r after the i-th item of q moved to the end of r.
MovedTo(q, r, i, q2, r2) ==
  /\ q2 \in Seq(Item) /\ r2 \in Seq(Item)
  /\ Distinct(q2) /\ Distinct(r2) /\ Disjoint(q2, r2)
  /\ \A k \in DOMAIN r : k \in DOMAIN r2 /\ r2[k] = r[k]
  /\ \A j \in DOMAIN q2 : \E k \in DOMAIN q : q2[j] = q[k]
  /\ \A k \in DOMAIN q :
       \/ \E j \in DOMAIN q2 : q2[j] = q[k]
       \/ k = i /\ \E j \in DOMAIN r2 : r2[j].pending = q[k].pending

\* Moving the i-th item of q to the end of r, with a new timeout or not, keeps
\* aspects distinct: update_queued_holding_workflow for Processing and Waiting.
LEMMA MoveBetween ==
  ASSUME NEW q \in Seq(Item), NEW r \in Seq(Item), NEW i \in DOMAIN q,
         NEW x \in Item, x.pending = q[i].pending,
         Distinct(q), Distinct(r), Disjoint(q, r)
  PROVE  MovedTo(q, r, i, Without(q, i), Append(r, x))
  <1> DEFINE q2 == Without(q, i)
             r2 == Append(r, x)
  <1>1. /\ q2 \in Seq(Item) /\ Distinct(q2)
        /\ \A j \in DOMAIN q2 : \E k \in DOMAIN q : k # i /\ q2[j] = q[k]
        /\ \A j \in DOMAIN q2 : q2[j].pending.aspect # q[i].pending.aspect
        /\ \A k \in DOMAIN q : k # i => \E j \in DOMAIN q2 : q2[j] = q[k]
    BY Moved
  <1>2. /\ r2 \in Seq(Item)
        /\ \A k \in DOMAIN r : k \in DOMAIN r2 /\ r2[k] = r[k]
        /\ \A k \in DOMAIN r2 :
             \/ k \in DOMAIN r /\ r2[k] = r[k]
             \/ k = Len(r) + 1 /\ r2[k] = x
        /\ \E j \in DOMAIN r2 : r2[j] = x
    BY AppendFacts
  <1> HIDE DEF q2, r2
  <1>3. Distinct(r2)
    BY <1>2 DEF Distinct, Disjoint
  <1>4. Disjoint(q2, r2)
    <2> SUFFICES ASSUME NEW j \in DOMAIN q2, NEW l \in DOMAIN r2
                 PROVE  q2[j].pending.aspect # r2[l].pending.aspect
      BY DEF Disjoint
    <2>1. PICK k \in DOMAIN q : q2[j] = q[k]
      BY <1>1
    <2>2. CASE l \in DOMAIN r /\ r2[l] = r[l]
      BY <2>1, <2>2 DEF Disjoint
    <2>3. CASE r2[l] = x
      BY <1>1, <2>3
    <2> QED BY <1>2, <2>2, <2>3
  <1>5. MovedTo(q, r, i, q2, r2)
    BY <1>1, <1>2, <1>3, <1>4 DEF MovedTo
  <1> QED BY <1>5 DEF q2, r2

\* The move of a picked item to the in-process list keeps the invariant.
LEMMA ReduceProcessingStep ==
  ASSUME IInv, ReduceProcessing
  PROVE  IInv'
  <1> DEFINE p == channel[1].pending
  <1>1. Reduces("Processing") /\ Save
    BY DEF ReduceProcessing
  <1>2. /\ channel' \in Seq(Actions)
        /\ 1 \in DOMAIN channel /\ channel[1].type = "Processing"
        /\ \A k \in DOMAIN channel' :
             k + 1 \in DOMAIN channel /\ k + 1 # 1 /\ channel'[k] = channel[k + 1]
        /\ DOMAIN channel' \subseteq Nat
        /\ UNCHANGED <<loop, uuid, prunes, crashes>>
        /\ Head(channel) = channel[1]
    BY <1>1, ReducesFacts
  <1>3. UNCHANGED <<held, tasks, accepted, acked, gone>>
    BY DEF ReduceProcessing, history
  <1>4. /\ queued \in Seq(Item) /\ inProcess \in Seq(Item)
        /\ Distinct(queued) /\ Distinct(inProcess) /\ Disjoint(queued, inProcess)
    BY DEF IInv, TypeOK, OnePendingPerAspect
  <1>5. \/ UNCHANGED <<queued, inProcess>>
        \/ \E i \in DOMAIN queued : /\ queued[i].pending = p
                                   /\ queued' = Without(queued, i)
                                   /\ inProcess' = Append(inProcess, queued[i])
    BY <1>2 DEF ReduceProcessing
  <1> HIDE DEF p
  <1>6. /\ queued' \in Seq(Item) /\ inProcess' \in Seq(Item)
        /\ Distinct(queued') /\ Distinct(inProcess') /\ Disjoint(queued', inProcess')
        /\ \A k \in DOMAIN inProcess :
             k \in DOMAIN inProcess' /\ inProcess'[k] = inProcess[k]
        /\ \A k \in DOMAIN queued :
             \/ \E j \in DOMAIN queued' : queued'[j] = queued[k]
             \/ \E j \in DOMAIN inProcess' : inProcess'[j].pending = queued[k].pending
    <2>1. CASE UNCHANGED <<queued, inProcess>>
      BY <1>4, <2>1
    <2>2. CASE ~UNCHANGED <<queued, inProcess>>
      <3>1. PICK i \in DOMAIN queued : /\ queued' = Without(queued, i)
                                      /\ inProcess' = Append(inProcess, queued[i])
        BY <1>5, <2>2
      <3>2. queued[i] \in Item
        BY <1>4
      <3>3. MovedTo(queued, inProcess, i, Without(queued, i),
                    Append(inProcess, queued[i]))
        BY <1>4, <3>2, MoveBetween
      <3>4. MovedTo(queued, inProcess, i, queued', inProcess')
        BY <3>1, <3>3
      <3> QED BY <3>4 DEF MovedTo
    <2> QED BY <2>1, <2>2
  <1>7. OnePendingPerAspect'
    BY <1>6 DEF OnePendingPerAspect
  <1>8. /\ SnapshotInv' /\ saveFailures' \in Nat
        /\ persisted' \in [queued : Seq(Item), inProcess : Seq(Item),
                            held : SUBSET Aspects]
    BY <1>1, <1>3, <1>6, <1>7, Saved DEF IInv, TypeOK
  <1>9. TypeOK'
    BY <1>2, <1>3, <1>6, <1>8 DEF IInv, TypeOK
  <1>10. \A r : HasExact(inProcess, r) => HasExact(inProcess', r)
    BY <1>6 DEF HasExact
  <1>11. OneWorkflowPerAspect' /\ OwnerInv'
    BY <1>2, <1>3, <1>10 DEF IInv, OneWorkflowPerAspect, OwnerInv, Ends
  <1>12. MoveInv'
    BY <1>2 DEF IInv, MoveInv
  <1>13. HoldInv' /\ ProgressInv' /\ AckedIsHeld'
    BY <1>2, <1>3 DEF IInv, HoldInv, ProgressInv, AckedIsHeld
  <1>14. PendingAspects \subseteq PendingAspects'
    BY <1>6 DEF PendingAspects, HasSame
  <1>15. NothingLost'
    BY <1>3, <1>14 DEF IInv, NothingLost
  <1> QED
    BY <1>7, <1>8, <1>9, <1>11, <1>12, <1>13, <1>15 DEF IInv

\* The return of an item to the queue for a retry keeps the invariant.
LEMMA ReduceWaitingStep ==
  ASSUME IInv, ReduceWaiting
  PROVE  IInv'
  <1> DEFINE p == channel[1].pending
             x == [pending |-> p, delay |-> channel[1].delay, elapsed |-> FALSE]
  <1>1. Reduces("Waiting") /\ Save
    BY DEF ReduceWaiting
  <1>2. /\ channel' \in Seq(Actions)
        /\ 1 \in DOMAIN channel /\ channel[1].type = "Waiting"
        /\ \A k \in DOMAIN channel' :
             k + 1 \in DOMAIN channel /\ k + 1 # 1 /\ channel'[k] = channel[k + 1]
        /\ DOMAIN channel' \subseteq Nat
        /\ UNCHANGED <<loop, uuid, prunes, crashes>>
        /\ Head(channel) = channel[1] /\ channel[1] \in Actions
    BY <1>1, ReducesFacts
  <1>3. UNCHANGED <<held, tasks, accepted, acked, gone>>
    BY DEF ReduceWaiting, history
  <1>4. /\ queued \in Seq(Item) /\ inProcess \in Seq(Item)
        /\ Distinct(queued) /\ Distinct(inProcess) /\ Disjoint(inProcess, queued)
    BY DEF IInv, TypeOK, OnePendingPerAspect, Disjoint
  <1>5. x \in Item /\ x.pending = p
    BY <1>2, ActionFields DEF Item, Delay
  <1>6. PICK i \in DOMAIN inProcess : /\ inProcess[i].pending = p
                                     /\ inProcess' = Without(inProcess, i)
                                     /\ queued' = Append(queued, x)
    <2>1. HasExact(inProcess, p)
      BY <1>2 DEF IInv, OwnerInv, Ends
    <2> QED BY <1>2, <2>1 DEF ReduceWaiting
  <1>7. \A k \in DOMAIN channel' : Ends(channel'[k]) => channel'[k].pending # p
    BY <1>2 DEF IInv, OwnerInv, Ends
  <1>8. \A t \in tasks : t.pending # p
    BY <1>2 DEF IInv, OwnerInv, Ends
  <1> HIDE DEF p, x
  <1>9. /\ queued' \in Seq(Item) /\ inProcess' \in Seq(Item)
        /\ Distinct(queued') /\ Distinct(inProcess') /\ Disjoint(inProcess', queued')
        /\ \A k \in DOMAIN queued :
             k \in DOMAIN queued' /\ queued'[k] = queued[k]
        /\ \A j \in DOMAIN inProcess' :
             \E k \in DOMAIN inProcess : inProcess'[j] = inProcess[k]
        /\ \A k \in DOMAIN inProcess :
             \/ \E j \in DOMAIN inProcess' : inProcess'[j] = inProcess[k]
             \/ k = i /\ \E j \in DOMAIN queued' :
                           queued'[j].pending = inProcess[k].pending
    <2>1. MovedTo(inProcess, queued, i, Without(inProcess, i), Append(queued, x))
      BY <1>4, <1>5, <1>6, MoveBetween
    <2>2. MovedTo(inProcess, queued, i, inProcess', queued')
      BY <1>6, <2>1
    <2> QED BY <2>2 DEF MovedTo
  <1>10. OnePendingPerAspect'
    BY <1>9 DEF OnePendingPerAspect, Disjoint
  <1>11. /\ SnapshotInv' /\ saveFailures' \in Nat
         /\ persisted' \in [queued : Seq(Item), inProcess : Seq(Item),
                            held : SUBSET Aspects]
    BY <1>1, <1>3, <1>9, <1>10, Saved DEF IInv, TypeOK
  <1>12. TypeOK'
    BY <1>2, <1>3, <1>9, <1>11 DEF IInv, TypeOK
  \* Every other item stays in process.
  <1>13. \A r \in Pending : r # p /\ HasExact(inProcess, r) => HasExact(inProcess', r)
    BY <1>6, <1>9 DEF HasExact
  <1>14. \A r : HasExact(inProcess', r) => HasExact(inProcess, r)
    BY <1>9 DEF HasExact
  <1>15. OneWorkflowPerAspect'
    <2>1. \A t \in tasks : t.pending \in Pending
      BY DEF IInv, TypeOK, Task
    <2> QED BY <1>3, <1>8, <1>13, <2>1 DEF IInv, OneWorkflowPerAspect
  <1>16. OwnerInv'
    <2>1. \A k \in DOMAIN channel' : Ends(channel'[k]) => channel'[k].pending \in Pending
      BY <1>2, ActionFields DEF Ends
    <2> QED BY <1>2, <1>3, <1>7, <1>13, <2>1 DEF IInv, OwnerInv
  <1>17. MoveInv'
    BY <1>2, <1>14 DEF IInv, MoveInv
  <1>18. HoldInv' /\ ProgressInv' /\ AckedIsHeld'
    BY <1>2, <1>3 DEF IInv, HoldInv, ProgressInv, AckedIsHeld
  <1>19. PendingAspects \subseteq PendingAspects'
    BY <1>9 DEF PendingAspects, HasSame
  <1>20. NothingLost'
    BY <1>3, <1>19 DEF IInv, NothingLost
  <1> QED
    BY <1>10, <1>11, <1>12, <1>15, <1>16, <1>17, <1>18, <1>20 DEF IInv

\* The removal of a finished item keeps the invariant.
LEMMA ReduceDoneStep ==
  ASSUME IInv, ReduceDone
  PROVE  IInv'
  <1> DEFINE p == channel[1].pending
  <1>1. Reduces("Done") /\ Save
    BY DEF ReduceDone
  <1>2. /\ channel' \in Seq(Actions)
        /\ 1 \in DOMAIN channel /\ channel[1].type = "Done"
        /\ \A k \in DOMAIN channel' :
             k + 1 \in DOMAIN channel /\ k + 1 # 1 /\ channel'[k] = channel[k + 1]
        /\ DOMAIN channel' \subseteq Nat
        /\ UNCHANGED <<loop, uuid, prunes, crashes>>
        /\ Head(channel) = channel[1] /\ channel[1] \in Actions
    BY <1>1, ReducesFacts
  <1>3. UNCHANGED <<queued, held, tasks, accepted, acked, gone>>
    BY DEF ReduceDone, history
  <1>4. /\ queued \in Seq(Item) /\ inProcess \in Seq(Item)
        /\ Distinct(queued) /\ Distinct(inProcess) /\ Disjoint(queued, inProcess)
    BY DEF IInv, TypeOK, OnePendingPerAspect
  <1>5. PICK i \in DOMAIN inProcess : /\ inProcess[i].pending = p
                                     /\ inProcess' = Without(inProcess, i)
    <2>1. HasExact(inProcess, p)
      BY <1>2 DEF IInv, OwnerInv, Ends
    <2> QED BY <1>2, <2>1 DEF ReduceDone
  <1>6. /\ \A k \in DOMAIN channel' : Ends(channel'[k]) => channel'[k].pending # p
        /\ \A t \in tasks : t.pending # p
    BY <1>2 DEF IInv, OwnerInv, Ends
  <1>7. p.aspect \in held \/ <<p.aspect, "rejected">> \in gone
    BY <1>2 DEF IInv, ProgressInv
  <1> HIDE DEF p
  <1>8. /\ inProcess' \in Seq(Item) /\ Distinct(inProcess')
        /\ \A j \in DOMAIN inProcess' :
             \E k \in DOMAIN inProcess : k # i /\ inProcess'[j] = inProcess[k]
        /\ \A k \in DOMAIN inProcess : k # i =>
             \E j \in DOMAIN inProcess' : inProcess'[j] = inProcess[k]
    <2> DEFINE r == Without(inProcess, i)
    <2>1. /\ r \in Seq(Item) /\ Distinct(r)
          /\ \A j \in DOMAIN r : \E k \in DOMAIN inProcess : k # i /\ r[j] = inProcess[k]
          /\ \A k \in DOMAIN inProcess : k # i => \E j \in DOMAIN r : r[j] = inProcess[k]
      BY <1>4, Moved
    <2>2. inProcess' = r
      BY <1>5
    <2> HIDE DEF r
    <2> QED BY <2>1, <2>2
  <1>9. OnePendingPerAspect'
    <2>1. Disjoint(queued', inProcess')
      BY <1>3, <1>4, <1>8 DEF Disjoint
    <2> QED BY <1>3, <1>4, <1>8, <2>1 DEF OnePendingPerAspect
  <1>10. /\ SnapshotInv' /\ saveFailures' \in Nat
         /\ persisted' \in [queued : Seq(Item), inProcess : Seq(Item),
                            held : SUBSET Aspects]
    BY <1>1, <1>3, <1>4, <1>8, <1>9, Saved DEF IInv, TypeOK
  <1>11. TypeOK'
    BY <1>2, <1>3, <1>8, <1>10 DEF IInv, TypeOK
  <1>12. \A r : r # p /\ HasExact(inProcess, r) => HasExact(inProcess', r)
    BY <1>5, <1>8 DEF HasExact
  <1>13. \A r : HasExact(inProcess', r) => HasExact(inProcess, r)
    BY <1>8 DEF HasExact
  <1>14. OneWorkflowPerAspect' /\ OwnerInv'
    BY <1>2, <1>3, <1>6, <1>12 DEF IInv, OneWorkflowPerAspect, OwnerInv
  <1>15. MoveInv'
    BY <1>2, <1>13 DEF IInv, MoveInv
  <1>16. HoldInv' /\ ProgressInv' /\ AckedIsHeld'
    BY <1>2, <1>3 DEF IInv, HoldInv, ProgressInv, AckedIsHeld
  <1>17. PendingAspects \subseteq PendingAspects' \cup {p.aspect}
    BY <1>3, <1>5, <1>8 DEF PendingAspects, HasSame
  <1>18. NothingLost'
    BY <1>3, <1>7, <1>17 DEF IInv, NothingLost, Reason
  <1> QED
    BY <1>9, <1>10, <1>11, <1>14, <1>15, <1>16, <1>18 DEF IInv

\* The reducer that sends an acknowledgement keeps the invariant.
LEMMA ReduceAckStep ==
  ASSUME IInv, ReduceAck
  PROVE  IInv'
  <1>1. Reduces("Ack") /\ Save
    BY DEF ReduceAck
  <1>2. /\ channel' \in Seq(Actions)
        /\ 1 \in DOMAIN channel /\ channel[1].type = "Ack"
        /\ \A k \in DOMAIN channel' :
             k + 1 \in DOMAIN channel /\ k + 1 # 1 /\ channel'[k] = channel[k + 1]
        /\ DOMAIN channel' \subseteq Nat
        /\ UNCHANGED <<loop, uuid, prunes, crashes>>
        /\ Head(channel) = channel[1] /\ channel[1] \in Actions
    BY <1>1, ReducesFacts
  <1>3. UNCHANGED <<queued, inProcess, held, tasks, accepted, gone>>
    BY DEF ReduceAck, store
  <1>4. channel[1].aspect \in held /\ acked' = acked \cup {channel[1].aspect}
    BY <1>2 DEF ReduceAck, IInv, ProgressInv
  <1>5. OnePendingPerAspect'
    BY <1>3 DEF IInv, OnePendingPerAspect, Distinct, Disjoint
  <1>6. /\ SnapshotInv' /\ saveFailures' \in Nat
        /\ persisted' \in [queued : Seq(Item), inProcess : Seq(Item),
                            held : SUBSET Aspects]
    BY <1>1, <1>3, <1>5, Saved DEF IInv, TypeOK
  <1>7. TypeOK'
    BY <1>2, <1>3, <1>4, <1>6 DEF IInv, TypeOK
  <1>8. OneWorkflowPerAspect' /\ OwnerInv' /\ MoveInv'
    BY <1>2, <1>3 DEF IInv, OneWorkflowPerAspect, OwnerInv, MoveInv, Ends, HasExact
  <1>9. HoldInv' /\ ProgressInv'
    BY <1>2, <1>3 DEF IInv, HoldInv, ProgressInv
  <1>10. AckedIsHeld' /\ NothingLost'
    BY <1>3, <1>4 DEF IInv, AckedIsHeld, NothingLost, PendingAspects, HasSame
  <1> QED
    BY <1>5, <1>6, <1>7, <1>8, <1>9, <1>10 DEF IInv

\* reduce_hold_aspect keeps the invariant, whatever its outcome.
LEMMA ReduceHoldAspectStep ==
  ASSUME IInv, ReduceHoldAspect
  PROVE  IInv'
  <1> DEFINE p == channel[1].pending
             b == channel[1].aspect
  <1>1. Reduces("HoldAspect") /\ Save
    BY DEF ReduceHoldAspect
  <1>2. /\ channel' \in Seq(Actions)
        /\ 1 \in DOMAIN channel /\ channel[1].type = "HoldAspect"
        /\ \A k \in DOMAIN channel' :
             k + 1 \in DOMAIN channel /\ k + 1 # 1 /\ channel'[k] = channel[k + 1]
        /\ DOMAIN channel' \subseteq Nat
        /\ UNCHANGED <<loop, uuid, prunes, crashes>>
        /\ Head(channel) = channel[1] /\ channel[1] \in Actions
    BY <1>1, ReducesFacts
  <1>3. UNCHANGED <<queued, inProcess, accepted, acked, gone>>
    BY DEF ReduceHoldAspect, history
  <1>4. b \in Aspects
    BY <1>2, ActionFields
  \* The workflow that waits for this result.
  <1>5. PICK w \in tasks : w.pending = p /\ w.pc = "hold" /\ Head(w.todo) = b
    BY <1>2 DEF IInv, HoldInv
  <1>6. \A t \in tasks : t.pending = p => t = w
    BY <1>5 DEF IInv, OneWorkflowPerAspect
  <1>7. \A k \in DOMAIN channel' :
          channel'[k].type = "HoldAspect" => channel'[k].pending # p
    BY <1>2 DEF IInv, HoldInv
  <1>8. /\ held' \in {held, held \cup {b}}
        /\ \/ tasks' = tasks
           \/ \E pc \in {"held", "failed"} :
                /\ pc = "held" => b \in held'
                /\ tasks' = (tasks \ {w}) \cup {[w EXCEPT !.pc = pc]}
    <2>1. \A pc : Answer(p, pc) => tasks' = (tasks \ {w}) \cup {[w EXCEPT !.pc = pc]}
      BY <1>5, <1>6 DEF Answer
    <2> QED BY <1>2, <2>1 DEF ReduceHoldAspect
  <1> HIDE DEF p, b
  <1>9. \A u \in tasks' :
          /\ u \in Task
          /\ u \in tasks \/ ( /\ u.pending = p /\ u.todo = w.todo
                              /\ u.pc = "held" => b \in held'
                              /\ w \notin tasks' )
    <2>1. w \in Task /\ tasks \subseteq Task
      BY DEF IInv, TypeOK
    <2>2. CASE tasks' = tasks
      BY <2>1, <2>2
    <2>3. ASSUME NEW pc \in {"held", "failed"}, pc = "held" => b \in held',
                 tasks' = (tasks \ {w}) \cup {[w EXCEPT !.pc = pc]}
          PROVE  <1>9
      <3>1. /\ [w EXCEPT !.pc = pc] \in Task
            /\ [w EXCEPT !.pc = pc].pending = p /\ [w EXCEPT !.pc = pc].todo = w.todo
            /\ [w EXCEPT !.pc = pc].pc = pc
            /\ [w EXCEPT !.pc = pc] # w
        BY <1>5, <2>1 DEF Task
      <3> QED BY <2>1, <2>3, <3>1
    <2> QED BY <1>8, <2>2, <2>3
  <1>10. /\ \A t \in tasks : t # w => t \in tasks'
         /\ \A u, v \in tasks' : u \notin tasks /\ v \notin tasks => u = v
    BY <1>8
  <1>11. OnePendingPerAspect'
    BY <1>3 DEF IInv, OnePendingPerAspect, Distinct, Disjoint
  <1>12. held' \in SUBSET Aspects /\ held \subseteq held'
    BY <1>4, <1>8 DEF IInv, TypeOK
  <1>13. /\ SnapshotInv' /\ saveFailures' \in Nat
         /\ persisted' \in [queued : Seq(Item), inProcess : Seq(Item),
                            held : SUBSET Aspects]
    BY <1>1, <1>3, <1>11, <1>12, Saved DEF IInv, TypeOK
  <1>14. TypeOK'
    BY <1>2, <1>3, <1>9, <1>12, <1>13 DEF IInv, TypeOK
  <1>15. OneWorkflowPerAspect'
    <2>1. \A u \in tasks' : HasExact(inProcess', u.pending)
      BY <1>3, <1>5, <1>9 DEF IInv, OneWorkflowPerAspect, HasExact
    <2>2. ASSUME NEW u \in tasks', NEW v \in tasks',
                 u.pending.aspect = v.pending.aspect
          PROVE  u = v
      BY <1>5, <1>9, <1>10, <2>2 DEF IInv, OneWorkflowPerAspect
    <2> QED BY <2>1, <2>2 DEF OneWorkflowPerAspect
  <1>16. OwnerInv' /\ MoveInv'
    BY <1>2, <1>3, <1>5, <1>9 DEF IInv, OwnerInv, MoveInv, Ends, HasExact
  <1>17. HoldInv'
    <2>1. ASSUME NEW k \in DOMAIN channel', channel'[k].type = "HoldAspect"
          PROVE  \E t \in tasks' : /\ t.pending = channel'[k].pending
                                   /\ t.pc = "hold"
                                   /\ Head(t.todo) = channel'[k].aspect
      <3>1. PICK t \in tasks : /\ t.pending = channel'[k].pending
                              /\ t.pc = "hold"
                              /\ Head(t.todo) = channel'[k].aspect
        BY <1>2, <2>1 DEF IInv, HoldInv
      <3>2. t # w
        BY <1>5, <1>7, <2>1, <3>1
      <3> QED BY <1>10, <3>1, <3>2
    <2>2. \A k, l \in DOMAIN channel' :
            channel'[k].type = "HoldAspect" /\ channel'[l].type = "HoldAspect"
              /\ channel'[k].pending = channel'[l].pending => k = l
      BY <1>2 DEF IInv, HoldInv
    <2> QED BY <2>1, <2>2 DEF HoldInv
  <1>18. ProgressInv'
    BY <1>2, <1>3, <1>5, <1>9, <1>12 DEF IInv, ProgressInv
  <1>19. AckedIsHeld' /\ NothingLost'
    BY <1>3, <1>12 DEF IInv, AckedIsHeld, NothingLost, PendingAspects, HasSame
  <1> QED
    BY <1>11, <1>13, <1>14, <1>15, <1>16, <1>17, <1>18, <1>19 DEF IInv

\* reduce_prune keeps the invariant.
LEMMA ReducePruneStep ==
  ASSUME IInv, ReducePrune
  PROVE  IInv'
  <1> DEFINE U == UniqueIndices(queued)
  <1>1. Reduces("Prune") /\ Save
    BY DEF ReducePrune
  <1>2. /\ channel' \in Seq(Actions)
        /\ 1 \in DOMAIN channel /\ channel[1].type = "Prune"
        /\ \A k \in DOMAIN channel' :
             k + 1 \in DOMAIN channel /\ k + 1 # 1 /\ channel'[k] = channel[k + 1]
        /\ DOMAIN channel' \subseteq Nat
        /\ UNCHANGED <<loop, uuid, prunes, crashes>>
        /\ Head(channel) = channel[1] /\ channel[1] \in Actions
    BY <1>1, ReducesFacts
  <1>3. UNCHANGED <<inProcess, held, tasks, accepted, acked>>
    BY DEF ReducePrune
  <1>4. /\ queued \in Seq(Item) /\ Len(queued) \in Nat
        /\ DOMAIN queued = 1..Len(queued)
    BY DEF IInv, TypeOK
  <1>5. U \subseteq DOMAIN queued
    BY DEF UniqueIndices
  <1>6. Cardinality(U) \in Nat
    <2>1. IsFiniteSet(1..Len(queued))
      BY <1>4, FS_Interval
    <2> QED BY <1>4, <1>5, <2>1, FS_Subset, FS_CardinalityType
  <1>7. gone' = gone \cup {<<queued[i].pending.aspect, "pruned">> :
                             i \in DOMAIN queued \ U}
    BY DEF ReducePrune
  <1> HIDE DEF U
  <1>8. PICK f \in [1..Cardinality(U) -> U] :
          /\ \A i, j \in 1..Cardinality(U) : i < j => f[i] < f[j]
          /\ \A k \in U : \E i \in 1..Cardinality(U) : f[i] = k
          /\ queued' = [i \in 1..Cardinality(U) |-> queued[f[i]]]
    BY DEF ReducePrune, Enumerations, U
  <1>9. queued' \in Seq(Item)
    <2>1. \A i \in 1..Cardinality(U) : queued[f[i]] \in Item
      BY <1>4, <1>5, <1>8
    <2> QED BY <1>6, <1>8, <2>1
  <1>10. /\ DOMAIN queued' = 1..Cardinality(U)
         /\ \A i \in DOMAIN queued' : f[i] \in DOMAIN queued /\ queued'[i] = queued[f[i]]
         /\ \A i, j \in DOMAIN queued' : f[i] = f[j] => i = j
         /\ \A k \in U : \E i \in DOMAIN queued' : queued'[i] = queued[k]
    <2>1. /\ DOMAIN queued' = 1..Cardinality(U)
          /\ \A i \in DOMAIN queued' : f[i] \in DOMAIN queued /\ queued'[i] = queued[f[i]]
          /\ \A k \in U : \E i \in DOMAIN queued' : queued'[i] = queued[k]
      BY <1>5, <1>8
    <2>2. ASSUME NEW i \in DOMAIN queued', NEW j \in DOMAIN queued', f[i] = f[j]
          PROVE  i = j
      <3>1. i \in Int /\ j \in Int /\ f[i] \in Int /\ f[j] \in Int
        BY <1>4, <1>6, <2>1
      <3> QED BY <1>8, <2>1, <2>2, <3>1
    <2> QED BY <2>1, <2>2
  <1>11. OnePendingPerAspect'
    <2>1. Distinct(queued')
      BY <1>10 DEF IInv, OnePendingPerAspect, Distinct
    <2>2. Disjoint(queued', inProcess')
      BY <1>3, <1>10 DEF IInv, OnePendingPerAspect, Disjoint
    <2> QED BY <1>3, <2>1, <2>2 DEF IInv, OnePendingPerAspect
  <1>12. /\ SnapshotInv' /\ saveFailures' \in Nat
         /\ persisted' \in [queued : Seq(Item), inProcess : Seq(Item),
                            held : SUBSET Aspects]
    BY <1>1, <1>3, <1>9, <1>11, Saved DEF IInv, TypeOK
  <1>13. gone' \in SUBSET (Aspects \X Reason) /\ gone \subseteq gone'
    <2>1. \A i \in DOMAIN queued : queued[i].pending.aspect \in Aspects
      <3>1. \A i \in DOMAIN queued : queued[i] \in Item
        BY <1>4
      <3>2. \A x \in Item : x.pending.aspect \in Aspects
        BY DEF Item, Pending
      <3> QED BY <3>1, <3>2
    <2>2. gone \in SUBSET (Aspects \X Reason)
      BY DEF IInv, TypeOK
    <2> QED BY <1>7, <2>1, <2>2 DEF Reason
  <1>14. TypeOK'
    BY <1>2, <1>3, <1>9, <1>12, <1>13 DEF IInv, TypeOK
  <1>15. OneWorkflowPerAspect' /\ OwnerInv' /\ MoveInv'
    BY <1>2, <1>3 DEF IInv, OneWorkflowPerAspect, OwnerInv, MoveInv, Ends, HasExact
  <1>16. HoldInv' /\ ProgressInv' /\ AckedIsHeld'
    BY <1>2, <1>3, <1>13 DEF IInv, HoldInv, ProgressInv, AckedIsHeld
  <1>17. \A a \in PendingAspects : a \in PendingAspects' \/ <<a, "pruned">> \in gone'
    <2> SUFFICES ASSUME NEW a \in PendingAspects
                 PROVE  a \in PendingAspects' \/ <<a, "pruned">> \in gone'
      OBVIOUS
    <2>1. CASE HasSame(inProcess, a)
      BY <1>3, <2>1 DEF PendingAspects, HasSame
    <2>2. CASE HasSame(queued, a)
      <3>1. PICK k \in DOMAIN queued : queued[k].pending.aspect = a
        BY <2>2 DEF HasSame
      <3>2. CASE k \in U
        BY <1>10, <3>1, <3>2 DEF PendingAspects, HasSame
      <3>3. CASE k \notin U
        BY <1>7, <3>1, <3>3
      <3> QED BY <3>2, <3>3
    <2> QED BY <2>1, <2>2 DEF PendingAspects
  <1>18. NothingLost'
    BY <1>3, <1>13, <1>17 DEF IInv, NothingLost, Reason
  <1> QED
    BY <1>11, <1>12, <1>14, <1>15, <1>16, <1>18 DEF IInv

-----------------------------------------------------------------------------
(* The holding loop.                                                       *)

\* The holding loop keeps the invariant when it picks an item.
LEMMA LoopPickStep ==
  ASSUME IInv, LoopPick
  PROVE  IInv'
  <1>1. UNCHANGED <<queued, inProcess, held, tasks, persisted, uuid, prunes, crashes,
                    saveFailures, accepted, acked, gone>>
    BY DEF LoopPick, store, counters, history
  <1>2. PICK i \in DOMAIN queued :
          /\ loop' = [pc |-> "wait", pending |-> queued[i].pending,
                      delay |-> queued[i].delay]
          /\ channel' = Append(channel, [type |-> "Processing",
                                         pending |-> queued[i].pending])
    BY DEF LoopPick
  <1> DEFINE p == queued[i].pending
             act == [type |-> "Processing", pending |-> p]
  <1>3. queued[i] \in Item /\ channel \in Seq(Actions)
    BY DEF IInv, TypeOK
  <1>4. /\ p \in Pending /\ act \in Actions
        /\ act.type = "Processing" /\ act.pending = p
        /\ loop' \in LoopState /\ loop'.pc = "wait" /\ loop'.pending = p
    BY <1>2, <1>3 DEF Item, Actions, LoopState
  <1>5. /\ ~HasExact(inProcess, p)
        /\ \A t \in tasks : t.pending # p
    BY DEF IInv, OnePendingPerAspect, Disjoint, HasExact, OneWorkflowPerAspect
  <1>6. channel' = Append(channel, act)
    BY <1>2
  <1>7. \A k \in DOMAIN channel : channel[k].type # "Processing"
    BY DEF LoopPick, IInv, MoveInv
  <1> HIDE DEF p, act
  <1>8. /\ channel' \in Seq(Actions)
        /\ Len(channel) \in Nat
        /\ \A k \in DOMAIN channel' :
             \/ k \in DOMAIN channel /\ channel'[k] = channel[k]
             \/ k = Len(channel) + 1 /\ channel'[k] = act
    BY <1>3, <1>4, <1>6, Dispatched
  <1>9. TypeOK'
    BY <1>1, <1>4, <1>8 DEF IInv, TypeOK
  <1>10. OnePendingPerAspect' /\ SnapshotInv' /\ OneWorkflowPerAspect'
    BY <1>1 DEF IInv, OnePendingPerAspect, SnapshotInv, OneWorkflowPerAspect,
                Distinct, Disjoint, HasExact
  <1>11. OwnerInv'
    BY <1>1, <1>4, <1>5, <1>8 DEF IInv, OwnerInv, Ends
  <1>12. MoveInv'
    BY <1>1, <1>4, <1>5, <1>7, <1>8 DEF IInv, MoveInv
  <1>13. HoldInv' /\ ProgressInv'
    BY <1>1, <1>4, <1>8 DEF IInv, HoldInv, ProgressInv
  <1>14. AckedIsHeld' /\ NothingLost'
    BY <1>1 DEF IInv, AckedIsHeld, NothingLost, PendingAspects, HasSame
  <1> QED
    BY <1>9, <1>10, <1>11, <1>12, <1>13, <1>14 DEF IInv

\* The holding loop keeps the invariant when it spawns the workflow.
LEMMA LoopStartStep ==
  ASSUME IInv, LoopStart
  PROVE  IInv'
  <1> DEFINE p == loop.pending
             u == [pending |-> p, delay |-> loop.delay, todo |-> HoldsOf[p.aspect],
                   pc |-> "validate"]
  <1>1. UNCHANGED <<queued, inProcess, held, channel, persisted, uuid, prunes, crashes,
                    saveFailures, accepted, acked, gone>>
    BY DEF LoopStart, store, counters, history
  <1>2. /\ loop.pc = "wait" /\ tasks' = tasks \cup {u} /\ loop' = [pc |-> "scan"]
        /\ HasExact(inProcess, p)
    BY DEF LoopStart, MoveSeen
  <1>3. p \in Pending /\ p.aspect \in Aspects /\ loop.delay \in Delay
    BY <1>2 DEF IInv, TypeOK, LoopState, Pending
  <1>4. /\ HoldsOf[p.aspect] \in Seq(Aspects) /\ HoldsOf[p.aspect] # << >>
        /\ Head(HoldsOf[p.aspect]) = p.aspect
    BY <1>3, HoldsAssumption
  <1>5. /\ u \in Task /\ u.pending = p /\ u.pc = "validate"
        /\ u.todo # << >> /\ Head(u.todo) = p.aspect
    BY <1>3, <1>4 DEF Task
  <1>6. /\ loop' \in LoopState /\ loop'.pc # "wait"
    BY <1>2 DEF LoopState
  <1>7. /\ \A t \in tasks : t.pending # p
        /\ \A k \in DOMAIN channel : Ends(channel[k]) => channel[k].pending # p
        /\ \A k \in DOMAIN channel : channel[k].type # "Processing"
    BY <1>2 DEF IInv, OwnerInv, MoveInv
  <1>8. \A t \in tasks : t.pending.aspect # p.aspect
    BY <1>2, <1>7 DEF IInv, OneWorkflowPerAspect, OnePendingPerAspect, Distinct, HasExact
  <1> HIDE DEF u, p
  <1>9. TypeOK'
    BY <1>1, <1>2, <1>5, <1>6 DEF IInv, TypeOK
  <1>10. OnePendingPerAspect' /\ SnapshotInv'
    BY <1>1 DEF IInv, OnePendingPerAspect, SnapshotInv, Distinct, Disjoint
  <1>11. OneWorkflowPerAspect'
    BY <1>1, <1>2, <1>5, <1>8 DEF IInv, OneWorkflowPerAspect
  <1>12. OwnerInv' /\ MoveInv'
    BY <1>1, <1>2, <1>5, <1>6, <1>7 DEF IInv, OwnerInv, MoveInv
  <1>13. HoldInv' /\ ProgressInv'
    BY <1>1, <1>2, <1>5 DEF IInv, HoldInv, ProgressInv
  <1>14. AckedIsHeld' /\ NothingLost'
    BY <1>1 DEF IInv, AckedIsHeld, NothingLost, PendingAspects, HasSame
  <1> QED
    BY <1>9, <1>10, <1>11, <1>12, <1>13, <1>14 DEF IInv

-----------------------------------------------------------------------------
(* The holding workflows.                                                  *)

\* Dispatching one action after another action or none: every index of the new
\* channel is an old one, that of the first action, or the last one.
LEMMA DispatchFacts ==
  ASSUME NEW S, NEW c \in Seq(S), NEW x \in S, NEW y \in S
  PROVE  /\ c \o <<x>> \in Seq(S)
         /\ \A k \in DOMAIN (c \o <<x>>) :
              \/ k \in DOMAIN c /\ (c \o <<x>>)[k] = c[k]
              \/ k = Len(c) + 1 /\ (c \o <<x>>)[k] = x
         /\ c \o <<y, x>> \in Seq(S)
         /\ \A k \in DOMAIN (c \o <<y, x>>) :
              \/ k \in DOMAIN c /\ (c \o <<y, x>>)[k] = c[k]
              \/ (c \o <<y, x>>)[k] = y
              \/ k = Len(c) + 2 /\ (c \o <<y, x>>)[k] = x
  <1>1. /\ Len(c) \in Nat /\ DOMAIN c = 1..Len(c)
        /\ <<x>> \in Seq(S) /\ <<y, x>> \in Seq(S)
    OBVIOUS
  <1>2. /\ c \o <<x>> \in Seq(S)
        /\ DOMAIN (c \o <<x>>) = 1..(Len(c) + 1)
        /\ \A k \in 1..(Len(c) + 1) :
             (c \o <<x>>)[k] = IF k =< Len(c) THEN c[k] ELSE x
    BY <1>1
  <1>3. /\ c \o <<y, x>> \in Seq(S)
        /\ DOMAIN (c \o <<y, x>>) = 1..(Len(c) + 2)
        /\ \A k \in 1..(Len(c) + 2) :
             (c \o <<y, x>>)[k] = IF k =< Len(c) THEN c[k]
                                  ELSE IF k = Len(c) + 1 THEN y ELSE x
    BY <1>1
  <1> QED BY <1>1, <1>2, <1>3

\* The channel grew by act, at index n, and possibly by the acknowledgement of
\* an aspect that is held.
Sent(act, n) ==
  /\ act \in Actions
  /\ channel' \in Seq(Actions)
  /\ \A k \in DOMAIN channel' :
       \/ k \in DOMAIN channel /\ channel'[k] = channel[k]
       \/ channel'[k].type = "Ack" /\ channel'[k].aspect \in held
       \/ k = n /\ channel'[k] = act

\* The parts of the state a workflow never touches itself.
Untouched ==
  UNCHANGED <<queued, inProcess, held, loop, persisted, uuid, prunes, crashes,
              saveFailures, accepted, acked>>

\* A workflow that ends hands its item over to the action it dispatches.
LEMMA TaskEnds ==
  ASSUME IInv, NEW t \in tasks, t.pc # "hold",
         NEW act, NEW n, Sent(act, n), Ends(act), act.pending = t.pending,
         act.type = "Done" => \/ t.pending.aspect \in held
                              \/ <<t.pending.aspect, "rejected">> \in gone',
         tasks' = tasks \ {t}, Untouched,
         gone \subseteq gone', gone' \in SUBSET (Aspects \X Reason)
  PROVE  IInv'
  <1>1. TypeOK'
    BY DEF IInv, TypeOK, Sent, Untouched
  <1>2. OnePendingPerAspect' /\ SnapshotInv' /\ OneWorkflowPerAspect'
    BY DEF IInv, OnePendingPerAspect, SnapshotInv, OneWorkflowPerAspect, Untouched,
           Distinct, Disjoint, HasExact
  <1>3. /\ HasExact(inProcess, t.pending)
        /\ \A u \in tasks' : u.pending # t.pending
        /\ loop.pc = "wait" => loop.pending # t.pending
        /\ \A k \in DOMAIN channel : Ends(channel[k]) => channel[k].pending # t.pending
    BY DEF IInv, OneWorkflowPerAspect, OwnerInv
  <1>4. \A k \in DOMAIN channel' : Ends(channel'[k]) =>
          \/ k \in DOMAIN channel /\ channel'[k] = channel[k]
          \/ k = n /\ channel'[k] = act
    BY DEF Sent, Ends
  <1>5. OwnerInv'
    BY <1>3, <1>4 DEF IInv, OwnerInv, Untouched
  <1>6. \A k \in DOMAIN channel' :
          channel'[k].type \in {"Processing", "HoldAspect"} =>
            k \in DOMAIN channel /\ channel'[k] = channel[k]
    BY DEF Sent, Ends
  <1>7. MoveInv'
    BY <1>6 DEF IInv, MoveInv, Untouched
  <1>8. HoldInv'
    BY <1>6 DEF IInv, HoldInv
  <1>9. ProgressInv'
    BY DEF IInv, ProgressInv, Sent, Ends, Untouched
  <1>10. AckedIsHeld' /\ NothingLost'
    BY DEF IInv, AckedIsHeld, NothingLost, PendingAspects, HasSame, Untouched
  <1> QED
    BY <1>1, <1>2, <1>5, <1>7, <1>8, <1>9, <1>10 DEF IInv

\* A workflow that asks for an aspect to be held then waits for the result.
LEMMA TaskHolds ==
  ASSUME IInv, NEW t \in tasks, t.pc # "hold",
         NEW u \in Task, u.pending = t.pending, u.pc = "hold", u.todo # << >>,
         Head(u.todo) = t.pending.aspect \/ t.pending.aspect \in held,
         NEW act, NEW n, Sent(act, n), act.type = "HoldAspect",
         act.pending = t.pending, act.aspect = Head(u.todo),
         tasks' = (tasks \ {t}) \cup {u}, Untouched, gone' = gone
  PROVE  IInv'
  <1>1. TypeOK'
    BY DEF IInv, TypeOK, Sent, Untouched
  <1>2. OnePendingPerAspect' /\ SnapshotInv'
    BY DEF IInv, OnePendingPerAspect, SnapshotInv, Untouched, Distinct, Disjoint
  <1>3. OneWorkflowPerAspect'
    BY DEF IInv, OneWorkflowPerAspect, Untouched, HasExact
  <1>4. \A k \in DOMAIN channel' : channel'[k].type \in {"Waiting", "Done", "Processing"} =>
          k \in DOMAIN channel /\ channel'[k] = channel[k]
    BY DEF Sent
  <1>5. OwnerInv'
    BY <1>4 DEF IInv, OwnerInv, Ends, Untouched, HasExact
  <1>6. MoveInv'
    BY <1>4 DEF IInv, MoveInv, Untouched, HasExact
  <1>7. /\ \A k \in DOMAIN channel' : channel'[k].type = "HoldAspect" =>
             \/ k \in DOMAIN channel /\ channel'[k] = channel[k]
             \/ k = n /\ channel'[k] = act
        /\ \A k \in DOMAIN channel : channel[k].type = "HoldAspect" =>
             channel[k].pending # t.pending
    BY DEF Sent, IInv, HoldInv, OneWorkflowPerAspect
  <1>8. HoldInv'
    <2>1. ASSUME NEW k \in DOMAIN channel', channel'[k].type = "HoldAspect"
          PROVE  \E v \in tasks' : /\ v.pending = channel'[k].pending
                                   /\ v.pc = "hold"
                                   /\ Head(v.todo) = channel'[k].aspect
      <3>1. CASE k = n /\ channel'[k] = act
        BY <3>1
      <3>2. CASE k \in DOMAIN channel /\ channel'[k] = channel[k]
        BY <2>1, <3>2 DEF IInv, HoldInv
      <3> QED BY <1>7, <2>1, <3>1, <3>2
    <2>2. \A k, l \in DOMAIN channel' :
            channel'[k].type = "HoldAspect" /\ channel'[l].type = "HoldAspect"
              /\ channel'[k].pending = channel'[l].pending => k = l
      BY <1>7 DEF IInv, HoldInv
    <2> QED BY <2>1, <2>2 DEF HoldInv
  <1>9. ProgressInv'
    BY DEF IInv, ProgressInv, Sent, Untouched
  <1>10. AckedIsHeld' /\ NothingLost'
    BY DEF IInv, AckedIsHeld, NothingLost, PendingAspects, HasSame, Untouched
  <1> QED
    BY <1>1, <1>2, <1>3, <1>5, <1>6, <1>8, <1>9, <1>10 DEF IInv

\* A workflow that dispatches one action.
LEMMA SentOne ==
  ASSUME IInv, NEW act \in Actions, Dispatch(<<act>>)
  PROVE  Sent(act, Len(channel) + 1) /\ Untouched
  <1>1. channel \in Seq(Actions)
    BY DEF IInv, TypeOK
  <1> QED BY <1>1, DispatchFacts DEF Sent, Dispatch, Untouched, store, counters

\* A workflow that acknowledges an aspect it holds and dispatches an action.
LEMMA SentAcked ==
  ASSUME IInv, NEW b \in held, NEW act \in Actions,
         Dispatch(<<[type |-> "Ack", aspect |-> b], act>>)
  PROVE  Sent(act, Len(channel) + 2) /\ Untouched
  <1> DEFINE ack == [type |-> "Ack", aspect |-> b]
  <1>1. channel \in Seq(Actions) /\ ack \in Actions
    BY DEF IInv, TypeOK, Actions
  <1>2. ack.type = "Ack" /\ ack.aspect = b
    OBVIOUS
  <1>3. channel' = channel \o <<ack, act>>
    BY DEF Dispatch
  <1> HIDE DEF ack
  <1>4. Sent(act, Len(channel) + 2)
    BY <1>1, <1>2, <1>3, DispatchFacts DEF Sent
  <1> QED BY <1>4 DEF Dispatch, Untouched, store, counters

\* Every step of a holding workflow keeps the invariant.
LEMMA WorkflowStep ==
  ASSUME IInv, NEW t \in tasks, Workflow(t)
  PROVE  IInv'
  <1> DEFINE p == t.pending
             waiting == [type |-> "Waiting", pending |-> p, delay |-> NextDelay(t.delay)]
             done == [type |-> "Done", pending |-> p]
             hold(b) == [type |-> "HoldAspect", pending |-> p, aspect |-> b]
  <1>1. /\ t \in Task /\ p \in Pending /\ p.aspect \in Aspects
        /\ t.delay \in Delay /\ t.todo \in Seq(Aspects)
    BY DEF IInv, TypeOK, Task, Pending
  <1>2. /\ t.todo # << >>
        /\ Head(t.todo) = p.aspect \/ p.aspect \in held
        /\ t.pc = "held" => Head(t.todo) \in held
        /\ gone \in SUBSET (Aspects \X Reason)
    BY DEF IInv, ProgressInv, TypeOK
  <1>3. /\ done \in Actions /\ Ends(done) /\ done.pending = p
        /\ waiting \in Actions /\ Ends(waiting) /\ waiting.pending = p
        /\ waiting.type # "Done"
        /\ \A b \in Aspects : /\ hold(b) \in Actions /\ hold(b).type = "HoldAspect"
                              /\ hold(b).pending = p /\ hold(b).aspect = b
    BY <1>1, NextDelayRange DEF Actions, Ends
  <1>4. \A b \in Aspects : gone \cup {<<b, "rejected">>} \in SUBSET (Aspects \X Reason)
    BY <1>2 DEF Reason
  <1>5. CASE ValidationPending(t)
    <2>1. Dispatch(<<waiting>>) /\ tasks' = tasks \ {t} /\ gone' = gone /\ t.pc # "hold"
      BY <1>5 DEF ValidationPending
    <2> HIDE DEF waiting, p
    <2>2. Sent(waiting, Len(channel) + 1) /\ Untouched
      BY <1>3, <2>1, SentOne
    <2> QED BY <1>2, <1>3, <2>1, <2>2, TaskEnds DEF p
  <1>6. CASE ValidationFails(t) \/ AspectNotHeld(t)
    <2>1. /\ Dispatch(<<done>>) /\ tasks' = tasks \ {t} /\ t.pc # "hold"
          /\ gone' = gone \cup {<<t.pending.aspect, "rejected">>}
      BY <1>6 DEF ValidationFails, AspectNotHeld
    <2>2. /\ gone' \in SUBSET (Aspects \X Reason) /\ gone \subseteq gone'
          /\ <<t.pending.aspect, "rejected">> \in gone'
      BY <1>1, <1>4, <2>1
    <2> HIDE DEF done, p
    <2>3. Sent(done, Len(channel) + 1) /\ Untouched
      BY <1>3, <2>1, SentOne
    <2> QED BY <1>3, <2>1, <2>2, <2>3, TaskEnds DEF p
  <1>7. CASE ValidationSucceeds(t)
    <2> DEFINE u == [t EXCEPT !.pc = "hold"]
               act == hold(Head(t.todo))
    <2>1. /\ Dispatch(<<act>>) /\ tasks' = (tasks \ {t}) \cup {u} /\ t.pc # "hold"
          /\ gone' = gone
      BY <1>7 DEF ValidationSucceeds
    <2>2. /\ u \in Task /\ u.pending = t.pending /\ u.pc = "hold" /\ u.todo = t.todo
      BY <1>1 DEF Task
    <2>3. Head(t.todo) \in Aspects
      BY <1>1, <1>2
    <2>4. /\ act \in Actions /\ act.type = "HoldAspect" /\ act.pending = t.pending
          /\ act.aspect = Head(u.todo)
      BY <1>3, <2>2, <2>3
    <2> HIDE DEF u, act
    <2>5. Sent(act, Len(channel) + 1) /\ Untouched
      BY <2>1, <2>4, SentOne
    <2> QED BY <1>2, <2>1, <2>2, <2>4, <2>5, TaskHolds
  <1>8. CASE AspectHeld(t)
    <2> DEFINE rest == Tail(t.todo)
               u == [t EXCEPT !.pc = "hold", !.todo = rest]
               act == hold(Head(rest))
               b == Head(t.todo)
    <2>1. t.pc = "held" /\ gone' = gone /\ b \in held
      BY <1>2, <1>8 DEF AspectHeld
    <2>2. p.aspect \in held
      BY <1>2, <2>1
    <2>3. CASE rest = << >> /\ tasks' = tasks \ {t}
                 /\ Dispatch(<<[type |-> "Ack", aspect |-> b], done>>)
      <3> HIDE DEF done, b, p
      <3>1. Sent(done, Len(channel) + 2) /\ Untouched
        BY <1>3, <2>1, <2>3, SentAcked
      <3>2. gone \subseteq gone' /\ gone' \in SUBSET (Aspects \X Reason)
        BY <1>2, <2>1
      <3> QED BY <1>3, <2>1, <2>2, <2>3, <3>1, <3>2, TaskEnds DEF p
    <2>4. CASE rest # << >> /\ tasks' = (tasks \ {t}) \cup {u}
                 /\ Dispatch(<<[type |-> "Ack", aspect |-> b], act>>)
      <3>1. rest \in Seq(Aspects) /\ Head(rest) \in Aspects
        BY <1>1, <1>2, <2>4
      <3>2. /\ u \in Task /\ u.pending = t.pending /\ u.pc = "hold" /\ u.todo = rest
        BY <1>1, <3>1 DEF Task
      <3>3. /\ act \in Actions /\ act.type = "HoldAspect" /\ act.pending = t.pending
            /\ act.aspect = Head(u.todo)
        BY <1>3, <3>1, <3>2
      <3>4. u.todo # << >>
        BY <2>4, <3>2
      <3> HIDE DEF u, act, b, rest
      <3>5. Sent(act, Len(channel) + 2) /\ Untouched
        BY <2>1, <2>4, <3>3, SentAcked
      <3> QED BY <2>1, <2>2, <2>4, <3>2, <3>3, <3>4, <3>5, TaskHolds
    <2> QED BY <1>8, <2>3, <2>4 DEF AspectHeld
  <1> QED BY <1>5, <1>6, <1>7, <1>8 DEF Workflow

-----------------------------------------------------------------------------
(* Crash and restart.                                                      *)

\* The queue made from a snapshot has exactly the items of its two lists, and
\* no aspect twice.
LEMMA RestoredFacts ==
  ASSUME NEW q \in Seq(Item), NEW r \in Seq(Item), NEW snapshot,
         snapshot.inProcess = q, snapshot.queued = r,
         Distinct(q), Distinct(r), Disjoint(r, q)
  PROVE  /\ Restored(snapshot) \in Seq(Item)
         /\ Distinct(Restored(snapshot))
         /\ \A i \in DOMAIN q : HasExact(Restored(snapshot), q[i].pending)
         /\ \A i \in DOMAIN r : HasExact(Restored(snapshot), r[i].pending)
  <1> DEFINE qr == q \o r
             x == Restored(snapshot)
  <1>1. /\ Len(q) \in Nat /\ DOMAIN q = 1..Len(q)
        /\ Len(r) \in Nat /\ DOMAIN r = 1..Len(r)
    OBVIOUS
  <1>2. /\ qr \in Seq(Item) /\ Len(qr) = Len(q) + Len(r)
        /\ \A i \in 1..(Len(q) + Len(r)) :
             qr[i] = IF i =< Len(q) THEN q[i] ELSE r[i - Len(q)]
    BY <1>1
  <1>3. x = [i \in 1..Len(qr) |-> [pending |-> qr[i].pending, delay |-> RetryMin,
                                   elapsed |-> FALSE]]
    BY DEF Restored
  <1> HIDE DEF qr, x
  <1>4. \A i \in 1..Len(qr) : qr[i] \in Item
    BY <1>2
  <1>5. /\ Len(qr) \in Nat
        /\ \A y \in Item : [pending |-> y.pending, delay |-> RetryMin,
                            elapsed |-> FALSE] \in Item
    BY <1>1, <1>2, RetryAssumption DEF Item, Delay
  <1>6. x \in Seq(Item)
    BY <1>3, <1>4, <1>5
  <1>7. /\ DOMAIN x = 1..(Len(q) + Len(r))
        /\ \A i \in DOMAIN x : x[i].pending = qr[i].pending
    BY <1>2, <1>3
  <1>8. \A i \in DOMAIN x :
          \/ i \in DOMAIN q /\ x[i].pending = q[i].pending
          \/ /\ i > Len(q) /\ i - Len(q) \in DOMAIN r
             /\ x[i].pending = r[i - Len(q)].pending
    BY <1>1, <1>2, <1>7
  <1>9. Distinct(x)
    <2> SUFFICES ASSUME NEW i \in DOMAIN x, NEW j \in DOMAIN x,
                        x[i].pending.aspect = x[j].pending.aspect
                 PROVE  i = j
      BY DEF Distinct
    <2>1. CASE i \in DOMAIN q /\ x[i].pending = q[i].pending
                 /\ j \in DOMAIN q /\ x[j].pending = q[j].pending
      BY <2>1 DEF Distinct
    <2>2. CASE /\ i - Len(q) \in DOMAIN r /\ x[i].pending = r[i - Len(q)].pending
               /\ j - Len(q) \in DOMAIN r /\ x[j].pending = r[j - Len(q)].pending
      <3>1. i - Len(q) = j - Len(q)
        BY <2>2 DEF Distinct
      <3> QED BY <1>1, <1>7, <3>1
    <2> QED BY <1>8, <2>1, <2>2 DEF Disjoint
  <1>10. ASSUME NEW i \in DOMAIN q PROVE HasExact(x, q[i].pending)
    <2>1. i \in DOMAIN x /\ x[i].pending = q[i].pending
      BY <1>1, <1>2, <1>7
    <2> QED BY <2>1 DEF HasExact
  <1>11. ASSUME NEW i \in DOMAIN r PROVE HasExact(x, r[i].pending)
    <2>1. i + Len(q) \in DOMAIN x /\ x[i + Len(q)].pending = r[i].pending
      BY <1>1, <1>2, <1>7
    <2> QED BY <2>1 DEF HasExact
  <1> QED BY <1>6, <1>9, <1>10, <1>11 DEF x

\* A crash between any two steps, and the restart from the last snapshot, keep
\* the invariant.
LEMMA CrashStep ==
  ASSUME IInv, Crash
  PROVE  IInv'
  <1>1. /\ queued' = Restored(persisted) /\ inProcess' = << >>
        /\ held' = persisted.held /\ channel' = << >> /\ tasks' = {}
        /\ loop' = [pc |-> "scan"]
        /\ UNCHANGED <<persisted, uuid, prunes, saveFailures, accepted, acked>>
        /\ crashes' \in Nat
    BY DEF Crash, IInv, TypeOK
  <1>2. /\ persisted.queued \in Seq(Item) /\ persisted.inProcess \in Seq(Item)
        /\ persisted.held \in SUBSET Aspects
    BY DEF IInv, TypeOK
  <1>3. /\ Restored(persisted) \in Seq(Item)
        /\ Distinct(Restored(persisted))
        /\ \A i \in DOMAIN persisted.inProcess :
             HasExact(Restored(persisted), persisted.inProcess[i].pending)
        /\ \A i \in DOMAIN persisted.queued :
             HasExact(Restored(persisted), persisted.queued[i].pending)
    BY <1>2, RestoredFacts DEF IInv, SnapshotInv
  <1>4. /\ gone \subseteq gone'
        /\ \A a \in held : a \in held' \/ <<a, "unsaved">> \in gone'
        /\ \A a \in PendingAspects :
             a \in Recorded(persisted) \/ <<a, "unsaved">> \in gone'
        /\ gone' \in SUBSET (Aspects \X Reason)
    <2>1. /\ held \subseteq Aspects /\ PendingAspects \subseteq Aspects
          /\ gone \in SUBSET (Aspects \X Reason)
      BY DEF IInv, TypeOK, PendingAspects
    <2> QED BY <2>1 DEF Crash, Reason
  <1>5. loop' \in LoopState /\ loop'.pc # "wait"
    BY <1>1 DEF LoopState
  <1>6. << >> \in Seq(Item) /\ << >> \in Seq(Actions) /\ DOMAIN << >> = {}
    OBVIOUS
  <1>7. TypeOK'
    BY <1>1, <1>2, <1>3, <1>4, <1>5, <1>6 DEF IInv, TypeOK
  <1>8. OnePendingPerAspect'
    BY <1>1, <1>3, <1>6 DEF OnePendingPerAspect, Distinct, Disjoint
  <1>9. SnapshotInv'
    BY <1>1 DEF IInv, SnapshotInv, Distinct, Disjoint
  <1>10. OneWorkflowPerAspect' /\ OwnerInv' /\ MoveInv' /\ HoldInv' /\ ProgressInv'
    BY <1>1, <1>5, <1>6 DEF OneWorkflowPerAspect, OwnerInv, MoveInv, HoldInv, ProgressInv
  <1>11. AckedIsHeld'
    BY <1>1, <1>4 DEF IInv, AckedIsHeld
  <1>12. \A a \in Recorded(persisted) : a \in held' \/ a \in PendingAspects'
    <2> SUFFICES ASSUME NEW a \in Recorded(persisted), a \notin held'
                 PROVE  HasSame(queued', a)
      BY DEF PendingAspects, Recorded
    <2> QED BY <1>1, <1>3 DEF Recorded, HasSame, HasExact
  <1>13. NothingLost'
    BY <1>1, <1>4, <1>12 DEF IInv, NothingLost, Reason
  <1> QED
    BY <1>7, <1>8, <1>9, <1>10, <1>11, <1>13 DEF IInv

-----------------------------------------------------------------------------
(* The theorems.                                                           *)

\* A new instance starts with empty lists: the invariant holds.
LEMMA InitIInv == Init => IInv
  <1> SUFFICES ASSUME Init PROVE IInv
    OBVIOUS
  <1>1. << >> \in Seq(Item) /\ << >> \in Seq(Actions) /\ DOMAIN << >> = {}
    OBVIOUS
  <1>2. TypeOK
    BY <1>1 DEF Init, TypeOK, Snapshot, LoopState
  <1>3. OnePendingPerAspect /\ SnapshotInv
    BY <1>1 DEF Init, OnePendingPerAspect, SnapshotInv, Snapshot, Distinct, Disjoint
  <1>4. OneWorkflowPerAspect /\ OwnerInv /\ MoveInv /\ HoldInv /\ ProgressInv
    BY <1>1 DEF Init, OneWorkflowPerAspect, OwnerInv, MoveInv, HoldInv, ProgressInv
  <1>5. AckedIsHeld /\ NothingLost
    BY DEF Init, AckedIsHeld, NothingLost
  <1> QED BY <1>2, <1>3, <1>4, <1>5 DEF IInv

\* Every step of every actor keeps the invariant.
LEMMA NextIInv == IInv /\ [Next]_vars => IInv'
  <1> SUFFICES ASSUME IInv, [Next]_vars PROVE IInv'
    OBVIOUS
  <1>1. CASE \E a \in Aspects : HandleStore(a)
    BY <1>1, HandleStoreStep
  <1>2. CASE DispatchPrune
    BY <1>2, DispatchPruneStep
  <1>3. CASE \E i \in DOMAIN queued : DelayElapses(i)
    BY <1>3, DelayElapsesStep
  <1>4. CASE ActionLoop
    BY <1>4, ReduceQueueHoldingWorkflowStep, ReduceProcessingStep, ReduceWaitingStep,
       ReduceDoneStep, ReduceHoldAspectStep, ReduceAckStep, ReducePruneStep
       DEF ActionLoop
  <1>5. CASE LoopPick
    BY <1>5, LoopPickStep
  <1>6. CASE LoopStart
    BY <1>6, LoopStartStep
  <1>7. CASE \E t \in tasks : Workflow(t)
    BY <1>7, WorkflowStep
  <1>8. CASE Crash
    BY <1>8, CrashStep
  <1>9. CASE UNCHANGED vars
    <2>1. TypeOK' /\ OnePendingPerAspect' /\ SnapshotInv'
      BY <1>9 DEF vars, IInv, TypeOK, OnePendingPerAspect, SnapshotInv, Distinct, Disjoint
    <2>2. OneWorkflowPerAspect' /\ OwnerInv' /\ MoveInv'
      BY <1>9 DEF vars, IInv, OneWorkflowPerAspect, OwnerInv, MoveInv, Ends, HasExact
    <2>3. HoldInv' /\ ProgressInv' /\ AckedIsHeld' /\ NothingLost'
      BY <1>9 DEF vars, IInv, HoldInv, ProgressInv, AckedIsHeld, NothingLost,
                  PendingAspects, HasSame
    <2> QED BY <2>1, <2>2, <2>3 DEF IInv
  <1> QED
    BY <1>1, <1>2, <1>3, <1>4, <1>5, <1>6, <1>7, <1>8, <1>9 DEF Next

\* The inductive invariant holds in every reachable state of the holding queue.
THEOREM Invariance == Spec => []IInv
  BY InitIInv, NextIInv, PTL DEF Spec

\* The lists, the channel, the snapshot and the workflows keep their types; in
\* particular every retry delay stays between the two retry constants.
THEOREM TypeCorrect == Spec => []TypeOK
  <1>1. IInv => TypeOK
    BY DEF IInv
  <1> QED BY <1>1, Invariance, PTL

\* reduce_queue_holding_workflow, update_queued_holding_workflow, reduce_prune
\* and new_from_snapshot together never make an aspect pending twice.
THEOREM PendingOnce == Spec => []OnePendingPerAspect
  <1>1. IInv => OnePendingPerAspect
    BY DEF IInv
  <1> QED BY <1>1, Invariance, PTL

\* start_holding_loop never runs two workflows for one aspect, and the item of a
\* running workflow is in the in-process list.
THEOREM WorkflowOnce == Spec => []OneWorkflowPerAspect
  <1>1. IInv => OneWorkflowPerAspect
    BY DEF IInv
  <1> QED BY <1>1, Invariance, PTL

\* The "not found in process!" branches of update_queued_holding_workflow are
\* never taken.
THEOREM EndsInProcess == Spec => []EndedIsInProcess
  <1>1. IInv => EndedIsInProcess
    BY DEF IInv, OwnerInv, Ends, EndedIsInProcess
  <1> QED BY <1>1, Invariance, PTL

\* ack_single only ever tells the network of aspects in the holding map, also
\* across restarts, unless the hold was never saved.
THEOREM AckImpliesHeld == Spec => []AckedIsHeld
  <1>1. IInv => AckedIsHeld
    BY DEF IInv
  <1> QED BY <1>1, Invariance, PTL

\* An aspect accepted by reduce_queue_holding_workflow is held, pending, or gone
\* for one of the three reasons the code has.
THEOREM NoSilentLoss == Spec => []NothingLost
  <1>1. IInv => NothingLost
    BY DEF IInv
  <1> QED BY <1>1, Invariance, PTL

-----------------------------------------------------------------------------
(* The back-off of the retries.                                            *)

\* The delay of the next attempt is longer than the delay of this one, and so
\* than any delay that is not longer than that.
LEMMA NextDelayLonger ==
  ASSUME NEW d \in Delay, NEW e \in Delay, d >= e
  PROVE  Longer(NextDelay(d), e)
  BY RetryAssumption DEF NextDelay, Delay, Longer

\* Every pair of a pending and a delay in r is in q.
DelaysOf(r, q) ==
  \A j \in DOMAIN r : \E i \in DOMAIN q :
    r[j].pending = q[i].pending /\ r[j].delay = q[i].delay

\* A step that leaves the loop alone, and starts no attempt, no item and no
\* return to the queue, keeps the back-off in order.
LEMMA BackoffKept ==
  ASSUME BackoffInv, loop' = loop,
         DelaysOf(queued', queued), DelaysOf(inProcess', inProcess),
         \A u \in tasks' : \E t \in tasks : u.pending = t.pending /\ u.delay = t.delay,
         \A k \in DOMAIN channel' : channel'[k].type = "Waiting" =>
           \E l \in DOMAIN channel : channel'[k] = channel[l]
  PROVE  BackoffInv'
  <1>1. loop'.pc = "wait" =>
          /\ \A j \in DOMAIN queued' :
               queued'[j].pending = loop'.pending => loop'.delay >= queued'[j].delay
          /\ \A j \in DOMAIN inProcess' :
               inProcess'[j].pending = loop'.pending => loop'.delay >= inProcess'[j].delay
    BY DEF BackoffInv, DelaysOf
  <1>2. ASSUME NEW u \in tasks', NEW j \in DOMAIN inProcess',
               inProcess'[j].pending = u.pending
        PROVE  u.delay >= inProcess'[j].delay
    BY <1>2 DEF BackoffInv, DelaysOf
  <1>3. ASSUME NEW k \in DOMAIN channel', channel'[k].type = "Waiting",
               NEW j \in DOMAIN inProcess', inProcess'[j].pending = channel'[k].pending
        PROVE  Longer(channel'[k].delay, inProcess'[j].delay)
    <2>1. PICK l \in DOMAIN channel : channel'[k] = channel[l]
      BY <1>3
    <2>2. PICK i \in DOMAIN inProcess : /\ inProcess'[j].pending = inProcess[i].pending
                                       /\ inProcess'[j].delay = inProcess[i].delay
      BY DEF DelaysOf
    <2> QED BY <1>3, <2>1, <2>2 DEF BackoffInv
  <1> QED BY <1>1, <1>2, <1>3 DEF BackoffInv

\* What is in process is not returned to the queue by a step that only keeps
\* items of the queue.
LEMMA NotReturned ==
  ASSUME IInv, DelaysOf(queued', queued)
  PROVE  \A i \in DOMAIN queued' : \A j \in DOMAIN inProcess :
           queued'[i].pending # inProcess[j].pending
  BY DEF IInv, OnePendingPerAspect, Disjoint, DelaysOf

\* What a step must do for BackoffGrows.
Backoff ==
  \A i \in DOMAIN queued' : \A j \in DOMAIN inProcess :
    queued'[i].pending = inProcess[j].pending =>
      Longer(queued'[i].delay, inProcess[j].delay)

\* The steps that touch no delay: the network thread and the timer, the passing
\* of time, and the reducers of Done, HoldAspect, Ack and Prune.
LEMMA QuietBackoff ==
  ASSUME IInv, BackoffInv,
         \/ \E a \in Aspects : HandleStore(a)
         \/ DispatchPrune
         \/ \E i \in DOMAIN queued : DelayElapses(i)
         \/ ReduceDone \/ ReduceHoldAspect \/ ReduceAck \/ ReducePrune
         \/ UNCHANGED vars
  PROVE  BackoffInv' /\ Backoff
  <1>1. /\ queued \in Seq(Item) /\ inProcess \in Seq(Item)
        /\ channel \in Seq(Actions) /\ tasks \subseteq Task
    BY DEF IInv, TypeOK
  <1>2. DelaysOf(queued, queued) /\ DelaysOf(inProcess, inProcess)
    BY DEF DelaysOf
  <1>3. ASSUME loop' = loop, DelaysOf(queued', queued), DelaysOf(inProcess', inProcess),
               \A u \in tasks' : \E t \in tasks :
                 u.pending = t.pending /\ u.delay = t.delay,
               \A k \in DOMAIN channel' : channel'[k].type = "Waiting" =>
                 \E l \in DOMAIN channel : channel'[k] = channel[l]
        PROVE  BackoffInv' /\ Backoff
    BY <1>3, BackoffKept, NotReturned DEF Backoff
  <1>4. ASSUME NEW type, Reduces(type)
        PROVE  /\ loop' = loop
               /\ \A k \in DOMAIN channel' : channel'[k].type = "Waiting" =>
                    \E l \in DOMAIN channel : channel'[k] = channel[l]
    BY <1>4, ReducesFacts
  <1>5. ASSUME NEW act \in Actions, act.type # "Waiting",
               channel' = Append(channel, act)
        PROVE  \A k \in DOMAIN channel' : channel'[k].type = "Waiting" =>
                 \E l \in DOMAIN channel : channel'[k] = channel[l]
    BY <1>1, <1>5, Dispatched
  <1>6. CASE \E a \in Aspects : HandleStore(a)
    <2>1. PICK act \in Actions : act.type # "Waiting" /\ channel' = Append(channel, act)
      BY <1>6 DEF HandleStore, Actions, Pending, IInv, TypeOK
    <2>2. UNCHANGED <<queued, inProcess, loop, tasks>>
      BY <1>6 DEF HandleStore, store
    <2> QED BY <1>2, <1>3, <1>5, <2>1, <2>2
  <1>7. CASE DispatchPrune
    <2>1. /\ [type |-> "Prune"] \in Actions
          /\ channel' = Append(channel, [type |-> "Prune"])
      BY <1>7 DEF DispatchPrune, Actions
    <2>2. UNCHANGED <<queued, inProcess, loop, tasks>>
      BY <1>7 DEF DispatchPrune, store
    <2> QED BY <1>2, <1>3, <1>5, <2>1, <2>2
  <1>8. CASE \E i \in DOMAIN queued : DelayElapses(i)
    <2>1. PICK i \in DOMAIN queued : DelayElapses(i)
      BY <1>8
    <2>2. queued[i] \in Item
      BY <1>1
    <2>3. queued' = [queued EXCEPT ![i] = [queued[i] EXCEPT !.elapsed = TRUE]]
      BY <2>1 DEF DelayElapses
    <2>4. DelaysOf(queued', queued)
      BY <1>1, <2>2, <2>3 DEF DelaysOf, Item
    <2>5. UNCHANGED <<inProcess, loop, tasks, channel>>
      BY <2>1 DEF DelayElapses
    <2> QED BY <1>2, <1>3, <2>4, <2>5
  <1>9. CASE ReduceDone
    <2>1. UNCHANGED <<queued, tasks>> /\ Reduces("Done")
      BY <1>9 DEF ReduceDone
    <2>2. \/ inProcess' = inProcess
          \/ \E i \in DOMAIN inProcess : inProcess' = Without(inProcess, i)
      BY <1>9 DEF ReduceDone
    <2>3. DelaysOf(inProcess', inProcess)
      <3>1. CASE inProcess' = inProcess
        BY <1>2, <3>1
      <3>2. ASSUME NEW i \in DOMAIN inProcess, inProcess' = Without(inProcess, i)
            PROVE  DelaysOf(inProcess', inProcess)
        <4>1. \A j \in DOMAIN Without(inProcess, i) :
                \E k \in DOMAIN inProcess : Without(inProcess, i)[j] = inProcess[k]
          BY <1>1, Moved DEF IInv, OnePendingPerAspect
        <4> QED BY <3>2, <4>1 DEF DelaysOf
      <3> QED BY <2>2, <3>1, <3>2
    <2> QED BY <1>2, <1>3, <1>4, <2>1, <2>3
  <1>10. CASE ReduceHoldAspect
    <2>1. UNCHANGED <<queued, inProcess>> /\ Reduces("HoldAspect")
      BY <1>10 DEF ReduceHoldAspect
    <2>2. \A t \in tasks : \A pc :
            /\ [t EXCEPT !.pc = pc].pending = t.pending
            /\ [t EXCEPT !.pc = pc].delay = t.delay
      BY <1>1 DEF Task
    <2>3. \A u \in tasks' : \E t \in tasks : u = t \/ \E pc : u = [t EXCEPT !.pc = pc]
      BY <1>10 DEF ReduceHoldAspect, Answer
    <2>4. ASSUME NEW u \in tasks'
          PROVE  \E t \in tasks : u.pending = t.pending /\ u.delay = t.delay
      <3>1. PICK t \in tasks : u = t \/ \E pc : u = [t EXCEPT !.pc = pc]
        BY <2>3
      <3>2. u.pending = t.pending /\ u.delay = t.delay
        BY <2>2, <3>1
      <3> QED BY <3>2
    <2> QED BY <1>2, <1>3, <1>4, <2>1, <2>4
  <1>11. CASE ReduceAck
    <2>1. UNCHANGED <<queued, inProcess, tasks>> /\ Reduces("Ack")
      BY <1>11 DEF ReduceAck, store
    <2> QED BY <1>2, <1>3, <1>4, <2>1
  <1>12. CASE ReducePrune
    <2>1. UNCHANGED <<inProcess, tasks>> /\ Reduces("Prune")
      BY <1>12 DEF ReducePrune
    <2>2. PICK f \in Enumerations(UniqueIndices(queued)) :
            queued' = [i \in DOMAIN f |-> queued[f[i]]]
      BY <1>12 DEF ReducePrune
    <2>3. DelaysOf(queued', queued)
      BY <2>2 DEF Enumerations, UniqueIndices, DelaysOf
    <2> QED BY <1>2, <1>3, <1>4, <2>1, <2>3
  <1>13. CASE UNCHANGED vars
    BY <1>2, <1>3, <1>13 DEF vars
  <1> QED
    BY <1>6, <1>7, <1>8, <1>9, <1>10, <1>11, <1>12, <1>13

\* A newly queued item has no delay yet, so the loop's is not shorter, and its
\* aspect is not in process.
LEMMA ReduceQueueBackoff ==
  ASSUME IInv, BackoffInv, ReduceQueueHoldingWorkflow
  PROVE  BackoffInv' /\ Backoff
  <1> DEFINE p == channel[1].pending
             item == [pending |-> p, delay |-> 0, elapsed |-> TRUE]
  <1>1. /\ Reduces("QueueHoldingWorkflow") /\ UNCHANGED <<inProcess, tasks>>
        /\ queued \in Seq(Item)
    BY DEF ReduceQueueHoldingWorkflow, IInv, TypeOK
  <1>2. /\ p \in Pending /\ loop' = loop /\ Head(channel) = channel[1]
        /\ \A k \in DOMAIN channel' :
             k + 1 \in DOMAIN channel /\ channel'[k] = channel[k + 1]
    BY <1>1, ReducesFacts, ActionFields
  <1>3. item \in Item /\ item.pending = p /\ item.delay = 0
    BY <1>2 DEF Item, Delay
  <1>4. \/ queued' = queued
        \/ ~AlreadyKnown(p.aspect) /\ queued' = Append(queued, item)
    BY <1>2 DEF ReduceQueueHoldingWorkflow
  <1> HIDE DEF item, p
  <1>5. \A i \in DOMAIN queued' :
          \/ i \in DOMAIN queued /\ queued'[i] = queued[i]
          \/ queued'[i] = item /\ ~HasSame(inProcess, p.aspect)
    <2>1. CASE queued' = queued
      BY <2>1
    <2>2. CASE ~AlreadyKnown(p.aspect) /\ queued' = Append(queued, item)
      BY <1>1, <1>3, <2>2, AppendFacts DEF AlreadyKnown
    <2> QED BY <1>4, <2>1, <2>2
  <1>6. loop.pc = "wait" => loop.delay \in Nat
    BY RetryAssumption DEF IInv, TypeOK, LoopState, Delay
  <1>7. BackoffInv'
    BY <1>1, <1>2, <1>3, <1>5, <1>6 DEF BackoffInv
  <1>8. Backoff
    BY <1>3, <1>5 DEF Backoff, HasSame, IInv, OnePendingPerAspect, Disjoint
  <1> QED BY <1>7, <1>8

\* The move to the in-process list takes the delay along; no workflow and no
\* end of one is about an item that was still queued.
LEMMA ReduceProcessingBackoff ==
  ASSUME IInv, BackoffInv, ReduceProcessing
  PROVE  BackoffInv' /\ Backoff
  <1>1. /\ Reduces("Processing") /\ tasks' = tasks
        /\ queued \in Seq(Item) /\ inProcess \in Seq(Item)
        /\ Distinct(queued) /\ Distinct(inProcess) /\ Disjoint(queued, inProcess)
    BY DEF ReduceProcessing, IInv, TypeOK, OnePendingPerAspect
  <1>2. /\ loop' = loop
        /\ \A k \in DOMAIN channel' :
             k + 1 \in DOMAIN channel /\ channel'[k] = channel[k + 1]
    BY <1>1, ReducesFacts
  <1>3. CASE UNCHANGED <<queued, inProcess>>
    BY <1>1, <1>2, <1>3 DEF BackoffInv, Backoff, Disjoint
  <1>4. ASSUME NEW i \in DOMAIN queued, queued' = Without(queued, i),
               inProcess' = Append(inProcess, queued[i])
        PROVE  BackoffInv' /\ Backoff
    <2>1. queued[i] \in Item
      BY <1>1
    <2>2. \A j \in DOMAIN queued' : \E k \in DOMAIN queued : queued'[j] = queued[k]
      <3>1. \A j \in DOMAIN Without(queued, i) :
              \E k \in DOMAIN queued : Without(queued, i)[j] = queued[k]
        BY <1>1, Moved
      <3> QED BY <1>4, <3>1
    <2>3. \A j \in DOMAIN inProcess' :
            \/ j \in DOMAIN inProcess /\ inProcess'[j] = inProcess[j]
            \/ inProcess'[j] = queued[i]
      BY <1>1, <1>4, <2>1, AppendFacts
    <2>4. /\ \A t \in tasks : t.pending # queued[i].pending
          /\ \A k \in DOMAIN channel : channel[k].type = "Waiting" =>
               channel[k].pending # queued[i].pending
      BY <1>1 DEF IInv, OneWorkflowPerAspect, OwnerInv, Ends, HasExact, Disjoint
    <2>5. BackoffInv'
      BY <1>1, <1>2, <2>2, <2>3, <2>4 DEF BackoffInv
    <2>6. Backoff
      BY <1>1, <2>2 DEF Backoff, Disjoint
    <2> QED BY <2>5, <2>6
  <1> QED BY <1>3, <1>4 DEF ReduceProcessing

\* The return to the queue: the one step that starts a longer delay.
LEMMA ReduceWaitingBackoff ==
  ASSUME IInv, BackoffInv, ReduceWaiting
  PROVE  BackoffInv' /\ Backoff
  <1> DEFINE p == channel[1].pending
             x == [pending |-> p, delay |-> channel[1].delay, elapsed |-> FALSE]
  <1>1. /\ Reduces("Waiting") /\ tasks' = tasks
        /\ queued \in Seq(Item) /\ inProcess \in Seq(Item)
        /\ Distinct(inProcess) /\ Disjoint(queued, inProcess)
    BY DEF ReduceWaiting, IInv, TypeOK, OnePendingPerAspect
  <1>2. /\ loop' = loop /\ Head(channel) = channel[1] /\ channel[1] \in Actions
        /\ 1 \in DOMAIN channel /\ channel[1].type = "Waiting"
        /\ \A k \in DOMAIN channel' :
             k + 1 \in DOMAIN channel /\ channel'[k] = channel[k + 1]
    BY <1>1, ReducesFacts
  <1>3. x \in Item /\ x.pending = p /\ x.delay = channel[1].delay
    BY <1>2, ActionFields DEF Item, Delay
  <1>4. loop.pc = "wait" => loop.pending # p
    BY <1>2 DEF IInv, OwnerInv, Ends
  <1>5. \A j \in DOMAIN inProcess : inProcess[j].pending = p =>
          Longer(channel[1].delay, inProcess[j].delay)
    BY <1>2 DEF BackoffInv
  <1>6. \/ UNCHANGED <<queued, inProcess>>
        \/ \E i \in DOMAIN inProcess : /\ inProcess' = Without(inProcess, i)
                                      /\ queued' = Append(queued, x)
    BY <1>2 DEF ReduceWaiting
  <1> HIDE DEF p, x
  <1>7. CASE UNCHANGED <<queued, inProcess>>
    BY <1>1, <1>2, <1>7 DEF BackoffInv, Backoff, Disjoint
  <1>8. ASSUME NEW i \in DOMAIN inProcess, inProcess' = Without(inProcess, i),
               queued' = Append(queued, x)
        PROVE  BackoffInv' /\ Backoff
    <2>1. \A j \in DOMAIN inProcess' :
            \E k \in DOMAIN inProcess : inProcess'[j] = inProcess[k]
      <3>1. \A j \in DOMAIN Without(inProcess, i) :
              \E k \in DOMAIN inProcess : Without(inProcess, i)[j] = inProcess[k]
        BY <1>1, Moved
      <3> QED BY <1>8, <3>1
    <2>2. \A j \in DOMAIN queued' :
            \/ j \in DOMAIN queued /\ queued'[j] = queued[j]
            \/ queued'[j] = x
      BY <1>1, <1>3, <1>8, AppendFacts
    <2>3. BackoffInv'
      BY <1>1, <1>2, <1>3, <1>4, <2>1, <2>2 DEF BackoffInv
    <2>4. Backoff
      BY <1>1, <1>3, <1>5, <2>2 DEF Backoff, Disjoint
    <2> QED BY <2>3, <2>4
  <1> QED BY <1>6, <1>7, <1>8

\* The loop keeps the delay of the item it picks, and hands it to the workflow.
LEMMA LoopBackoff ==
  ASSUME IInv, BackoffInv, LoopPick \/ LoopStart
  PROVE  BackoffInv' /\ Backoff
  <1>1. /\ UNCHANGED <<queued, inProcess>>
        /\ queued \in Seq(Item) /\ inProcess \in Seq(Item)
        /\ Distinct(queued) /\ Disjoint(queued, inProcess)
    BY DEF LoopPick, LoopStart, store, IInv, TypeOK, OnePendingPerAspect
  <1>2. Backoff
    BY <1>1 DEF Backoff, Disjoint
  <1>3. CASE LoopPick
    <2>1. PICK i \in DOMAIN queued :
            /\ loop' = [pc |-> "wait", pending |-> queued[i].pending,
                        delay |-> queued[i].delay]
            /\ channel' = Append(channel, [type |-> "Processing",
                                           pending |-> queued[i].pending])
      BY <1>3 DEF LoopPick
    <2> DEFINE act == [type |-> "Processing", pending |-> queued[i].pending]
    <2>2. /\ tasks' = tasks /\ channel \in Seq(Actions) /\ queued[i] \in Item
      BY <1>1, <1>3 DEF LoopPick, IInv, TypeOK
    <2>3. act \in Actions /\ act.type # "Waiting" /\ queued[i].delay \in Nat
      BY <2>2, RetryAssumption DEF Actions, Item, Delay
    <2>4. channel' = Append(channel, act)
      BY <2>1
    <2> HIDE DEF act
    <2>5. \A k \in DOMAIN channel' : channel'[k].type = "Waiting" =>
            k \in DOMAIN channel /\ channel'[k] = channel[k]
      BY <2>2, <2>3, <2>4, Dispatched
    <2>6. /\ \A j \in DOMAIN queued : queued[j].pending = queued[i].pending => j = i
          /\ \A j \in DOMAIN inProcess : inProcess[j].pending # queued[i].pending
      BY <1>1 DEF Distinct, Disjoint
    <2>7. loop'.pending = queued[i].pending /\ loop'.delay = queued[i].delay
      BY <2>1
    <2> QED BY <1>1, <1>2, <2>2, <2>3, <2>5, <2>6, <2>7 DEF BackoffInv
  <1>4. CASE LoopStart
    <2> DEFINE u == [pending |-> loop.pending, delay |-> loop.delay,
                     todo |-> HoldsOf[loop.pending.aspect], pc |-> "validate"]
    <2>1. /\ loop.pc = "wait" /\ tasks' = tasks \cup {u} /\ channel' = channel
          /\ loop'.pc = "scan"
      BY <1>4 DEF LoopStart
    <2>2. u.pending = loop.pending /\ u.delay = loop.delay
      OBVIOUS
    <2> HIDE DEF u
    <2> QED BY <1>1, <1>2, <2>1, <2>2 DEF BackoffInv
  <1> QED BY <1>3, <1>4

\* A workflow asks for a delay longer than the one it was started with.
LEMMA WorkflowBackoff ==
  ASSUME IInv, BackoffInv, NEW t \in tasks, Workflow(t)
  PROVE  BackoffInv' /\ Backoff
  <1> DEFINE p == t.pending
             waiting == [type |-> "Waiting", pending |-> p, delay |-> NextDelay(t.delay)]
             done == [type |-> "Done", pending |-> p]
             hold(b) == [type |-> "HoldAspect", pending |-> p, aspect |-> b]
  <1>1. /\ UNCHANGED <<queued, inProcess, loop>>
        /\ queued \in Seq(Item) /\ inProcess \in Seq(Item)
        /\ channel \in Seq(Actions) /\ Disjoint(queued, inProcess)
    BY DEF Workflow, ValidationPending, ValidationFails, ValidationSucceeds, AspectHeld,
           AspectNotHeld, Dispatch, store, IInv, TypeOK, OnePendingPerAspect
  <1>2. /\ t \in Task /\ p \in Pending /\ t.delay \in Delay /\ t.todo \in Seq(Aspects)
        /\ t.todo # << >>
        /\ t.pc = "held" => Head(t.todo) \in held
    BY DEF IInv, TypeOK, Task, ProgressInv
  <1>3. Backoff
    BY <1>1 DEF Backoff, Disjoint
  \* The steps that do not return the item to the queue.
  <1>4. ASSUME \A v \in tasks' : \E w \in tasks :
                 v.pending = w.pending /\ v.delay = w.delay,
               NEW act, NEW n, Sent(act, n), act.type # "Waiting"
        PROVE  BackoffInv'
    <2>1. DelaysOf(queued', queued) /\ DelaysOf(inProcess', inProcess)
      BY <1>1 DEF DelaysOf
    <2>2. \A k \in DOMAIN channel' : channel'[k].type = "Waiting" =>
            \E l \in DOMAIN channel : channel'[k] = channel[l]
      BY <1>4 DEF Sent
    <2> QED BY <1>1, <1>4, <2>1, <2>2, BackoffKept
  <1>5. /\ done \in Actions /\ done.type # "Waiting"
        /\ \A b \in Aspects : hold(b) \in Actions /\ hold(b).type # "Waiting"
        /\ waiting \in Actions /\ waiting.pending = p
        /\ waiting.delay = NextDelay(t.delay)
    BY <1>2, NextDelayRange DEF Actions
  <1>6. \A v \in tasks \ {t} : \E w \in tasks : v.pending = w.pending /\ v.delay = w.delay
    OBVIOUS
  <1>7. CASE ValidationPending(t)
    <2>1. Dispatch(<<waiting>>) /\ tasks' = tasks \ {t}
      BY <1>7 DEF ValidationPending
    <2> HIDE DEF waiting, p
    <2>2. Sent(waiting, Len(channel) + 1)
      BY <1>5, <2>1, SentOne
    <2>3. ASSUME NEW j \in DOMAIN inProcess, inProcess[j].pending = p
          PROVE  Longer(waiting.delay, inProcess[j].delay)
      <3>1. inProcess[j] \in Item
        BY <1>1
      <3>2. inProcess[j].delay \in Delay
        BY <3>1 DEF Item
      <3>3. t.delay >= inProcess[j].delay
        BY <2>3 DEF BackoffInv, p
      <3> QED BY <1>2, <1>5, <3>2, <3>3, NextDelayLonger
    <2>4. \A k \in DOMAIN channel' : channel'[k].type = "Waiting" =>
            channel'[k] = waiting \/ (k \in DOMAIN channel /\ channel'[k] = channel[k])
      BY <2>2 DEF Sent
    <2>5. BackoffInv'
      BY <1>1, <1>5, <2>1, <2>3, <2>4 DEF BackoffInv
    <2> QED BY <1>3, <2>5
  <1>8. CASE ValidationFails(t) \/ AspectNotHeld(t)
    <2>1. Dispatch(<<done>>) /\ tasks' = tasks \ {t}
      BY <1>8 DEF ValidationFails, AspectNotHeld
    <2> HIDE DEF done
    <2>2. Sent(done, Len(channel) + 1)
      BY <1>5, <2>1, SentOne
    <2> QED BY <1>3, <1>4, <1>5, <1>6, <2>1, <2>2
  <1>9. CASE ValidationSucceeds(t)
    <2> DEFINE u == [t EXCEPT !.pc = "hold"]
               act == hold(Head(t.todo))
    <2>1. Dispatch(<<act>>) /\ tasks' = (tasks \ {t}) \cup {u}
      BY <1>9 DEF ValidationSucceeds
    <2>2. u.pending = t.pending /\ u.delay = t.delay /\ Head(t.todo) \in Aspects
      BY <1>2 DEF Task
    <2>3. act \in Actions /\ act.type # "Waiting"
      BY <1>5, <2>2
    <2> HIDE DEF u, act
    <2>4. Sent(act, Len(channel) + 1)
      BY <2>1, <2>3, SentOne
    <2> QED BY <1>3, <1>4, <1>6, <2>1, <2>2, <2>3, <2>4
  <1>10. CASE AspectHeld(t)
    <2> DEFINE rest == Tail(t.todo)
               u == [t EXCEPT !.pc = "hold", !.todo = rest]
               act == hold(Head(rest))
               b == Head(t.todo)
    <2>1. b \in held
      BY <1>2, <1>10 DEF AspectHeld
    <2>2. CASE rest = << >> /\ tasks' = tasks \ {t}
                 /\ Dispatch(<<[type |-> "Ack", aspect |-> b], done>>)
      <3> HIDE DEF done, b
      <3>1. Sent(done, Len(channel) + 2)
        BY <1>5, <2>1, <2>2, SentAcked
      <3> QED BY <1>3, <1>4, <1>5, <1>6, <2>2, <3>1
    <2>3. CASE rest # << >> /\ tasks' = (tasks \ {t}) \cup {u}
                 /\ Dispatch(<<[type |-> "Ack", aspect |-> b], act>>)
      <3>1. Head(rest) \in Aspects
        BY <1>2, <2>3
      <3>2. u.pending = t.pending /\ u.delay = t.delay
        BY <1>2 DEF Task
      <3>3. act \in Actions /\ act.type # "Waiting"
        BY <1>5, <3>1
      <3> HIDE DEF u, act, b, rest
      <3>4. Sent(act, Len(channel) + 2)
        BY <2>1, <2>3, <3>3, SentAcked
      <3> QED BY <1>3, <1>4, <1>6, <2>3, <3>2, <3>3, <3>4
    <2> QED BY <1>10, <2>2, <2>3 DEF AspectHeld
  <1> QED BY <1>7, <1>8, <1>9, <1>10 DEF Workflow

\* After a restart nothing is in process and no workflow runs.
LEMMA CrashBackoff ==
  ASSUME IInv, Crash
  PROVE  BackoffInv' /\ crashes' # crashes
  <1>1. /\ inProcess' = << >> /\ channel' = << >> /\ tasks' = {}
        /\ loop'.pc = "scan"
        /\ crashes \in Nat /\ crashes' = crashes + 1
    BY DEF Crash, IInv, TypeOK
  <1> QED BY <1>1 DEF BackoffInv

\* Every step keeps the back-off in order, and none but a crash shortens it.
LEMMA BackoffStep ==
  ASSUME IInv, BackoffInv, [Next]_vars
  PROVE  BackoffInv' /\ (crashes' = crashes => Backoff)
  <1>1. CASE ActionLoop
    BY <1>1, QuietBackoff, ReduceQueueBackoff, ReduceProcessingBackoff,
       ReduceWaitingBackoff DEF ActionLoop
  <1>2. CASE LoopPick \/ LoopStart
    BY <1>2, LoopBackoff
  <1>3. CASE \E t \in tasks : Workflow(t)
    BY <1>3, WorkflowBackoff
  <1>4. CASE Crash
    BY <1>4, CrashBackoff
  <1> QED BY <1>1, <1>2, <1>3, <1>4, QuietBackoff DEF Next

\* Through every retry of an item, and whatever else the actors do in between,
\* the delay grows until it reaches RETRY_VALIDATION_DURATION_MAX: the workflow
\* doubles the delay of the item it was started for, never an older one.
THEOREM RetriesBackOff == Spec => BackoffGrows
  <1>1. Init => BackoffInv
    BY DEF Init, BackoffInv
  <1>2. IInv /\ BackoffInv /\ [Next]_vars => BackoffInv'
    BY BackoffStep
  <1>3. Spec => []BackoffInv
    BY <1>1, <1>2, Invariance, PTL DEF Spec
  <1>4. IInv /\ BackoffInv /\ [Next]_vars =>
          [crashes' = crashes =>
             \A i \in DOMAIN queued' : \A j \in DOMAIN inProcess :
               queued'[i].pending = inProcess[j].pending =>
                 Longer(queued'[i].delay, inProcess[j].delay)]_vars
    BY BackoffStep DEF Backoff
  <1> QED BY <1>3, <1>4, Invariance, PTL DEF Spec, BackoffGrows

=============================================================================
