--------------------------- MODULE Authoring_proofs ---------------------------
(***************************************************************************)
(* Theorems about Authoring, for any calls, authors and entries, any size  *)
(* of the pool and any number of crashes.                                  *)
(***************************************************************************)
EXTENDS Authoring, SequenceFacts, FiniteSetTheorems, TLAPS

-----------------------------------------------------------------------------
(* The inductive invariant.                                                *)

\* The actions that carry a call forward: of each call there is one at a time.
Working == {"commit", "publish", "header"}
Live == {"queue", "return"} \cup Working

\* The steps of author_entry that a thread has still to ask for.
After(t) ==
  IF t \in {"start", "package"} THEN Working
  ELSE IF t = "commit" THEN {"publish", "header"}
  ELSE IF t = "publish" THEN {"header"}
  ELSE {}

Alone ==
  \A i, j \in DOMAIN channel :
    channel[i].kind \in Live /\ channel[j].kind \in Live
      /\ channel[i].call = channel[j].call => i = j

\* What an action in the channel says about the call it is about.
Placed(a) ==
  /\ a.kind = "queue" =>
       caller[a.call] = "waiting" /\ a.call \notin running \cup ToSet(queued)
  /\ a.kind = "return" =>
       /\ caller[a.call] = "spawned" /\ thread[a.call] = "none"
       /\ a.call \in running /\ a.of \in Outcome
  /\ a.kind \in Working => thread[a.call] = a.kind
  /\ a.kind = "clearCall" => caller[a.call] \in Outcome

ActionsPlaced == \A i \in DOMAIN channel : Placed(channel[i])

\* Where a call is, by its caller and its thread.
CallsPlaced ==
  \A c \in Calls :
    /\ c \in running => caller[c] \in {"waiting", "spawned"}
    /\ c \in ToSet(queued) => caller[c] = "waiting"
    /\ thread[c] # "none" => caller[c] = "spawned" /\ c \in running
    /\ thread[c] \in {"package"} \cup Working => c \in Authors
    /\ thread[c] = "publish" => EntryOf[c] \notin Private

\* A result is that of a call that is no longer running.
ResultsPlaced ==
  \A r \in results :
    /\ caller[r.call] \in {"spawned"} \cup Outcome
    /\ r.call \notin running \cup ToSet(queued)
    /\ r.of \in Outcome

\* A response is to an action that is no longer under way.
ResponsesPlaced ==
  \A r \in commits \cup publishes :
    /\ r.kind \in Working /\ r.of \in Outcome /\ r.call \in Authors
    /\ caller[r.call] \in {"spawned"} \cup Outcome
    /\ r.kind \notin After(thread[r.call])
    /\ \A i \in DOMAIN channel : ~(channel[i].kind = r.kind /\ channel[i].call = r.call)

\* A call that has a header will not commit again.
ChainIsPast ==
  \A n \in DOMAIN chain :
    /\ caller[chain[n].call] \notin {"idle", "waiting"}
    /\ thread[chain[n].call] \notin {"start", "package"}
    /\ \A i \in DOMAIN channel :
         ~(channel[i].kind = "commit" /\ channel[i].call = chain[n].call)

\* What is saved is the beginning of the chain, and all of it when every save
\* went well.
SavedIsChain ==
  /\ \A n \in DOMAIN saved : n \in DOMAIN chain /\ saved[n] = chain[n]
  /\ saveFailed \/ saved = chain

\* What an author's progress means for its entry.
Sent(e) == {p.what : p \in {q \in published : q.header.entry = e}}
Stored(c) == saveFailed \/ OnChain(EntryOf[c])
ContentSent(c) ==
  EntryOf[c] \notin Private =>
    /\ "content" \in Sent(EntryOf[c])
    /\ EntryOf[c] \in HasMeta => "meta" \in Sent(EntryOf[c])
Done(c) == Stored(c) /\ ContentSent(c) /\ "header" \in Sent(EntryOf[c])

ThreadsProgress ==
  \A c \in Authors :
    /\ thread[c] \in {"publish", "header"} => Stored(c)
    /\ thread[c] = "header" => ContentSent(c)

ResponsesProgress ==
  \A r \in commits \cup publishes : r.of = "ok" =>
    /\ Stored(r.call)
    /\ r.kind = "publish" => ContentSent(r.call)
    /\ r.kind = "header" => Done(r.call)

SuccessIsDone ==
  /\ \A i \in DOMAIN channel :
       channel[i].kind = "return" /\ channel[i].of = "ok" /\ channel[i].call \in Authors
         => Done(channel[i].call)
  /\ \A r \in results : r.of = "ok" /\ r.call \in Authors => Done(r.call)
  /\ \A c \in Authors : caller[c] = "ok" => Done(c)

Pool == IsFiniteSet(running) /\ PoolIsUsed

IInv ==
  /\ TypeOK
  /\ Alone
  /\ ActionsPlaced
  /\ CallsPlaced
  /\ ResultsPlaced
  /\ Pool
  /\ ResponsesPlaced
  /\ ChainIsPast
  /\ CommitsOnce
  /\ SavedIsChain
  /\ PublishedIsSaved
  /\ PrivateStaysHome
  /\ ThreadsProgress
  /\ ResponsesProgress
  /\ SuccessIsDone

-----------------------------------------------------------------------------
(* Facts about the operators.                                              *)

\* What a thread has still to ask for shrinks with every step.
LEMMA AfterFacts ==
  /\ After("none") = {}
  /\ After("package") = After("start")
  /\ \A t, u : u \in After(t) => u \in Working /\ u \notin After(u) /\ After(u) \subseteq After(t)
BY DEF After, Working

\* find_chain_header finds a header of an entry that is on the chain.
LEMMA LatestFacts ==
  ASSUME chain \in Seq(Header), NEW e, OnChain(e)
  PROVE  Latest(e) \in DOMAIN chain /\ chain[Latest(e)].entry = e
<1> DEFINE T == {n \in DOMAIN chain : chain[n].entry = e}
<1>1. Len(chain) \in Nat /\ T \in SUBSET (1..Len(chain)) /\ T # {}
  BY LenProperties DEF OnChain
<1>2. PICK m \in T : \A k \in T : k =< m
  BY <1>1, LargestIndex
<1>3. /\ m \in DOMAIN chain /\ chain[m].entry = e
      /\ \A k \in DOMAIN chain : chain[k].entry = e => k =< m
  BY <1>2
<1> QED BY <1>3 DEF Latest

\* What is sent to the network, given that the entry is on the chain.
LEMMA AspectFacts ==
  ASSUME chain \in Seq(Header), NEW e, OnChain(e), NEW w \in {"content", "meta", "header"}
  PROVE  LET p == Aspect(w, e)
         IN  /\ p \in [what : {"content", "meta", "header"}, at : Nat, header : Header]
             /\ p.what = w /\ p.header.entry = e
             /\ p.at \in DOMAIN chain /\ chain[p.at] = p.header
<1>1. Latest(e) \in DOMAIN chain /\ chain[Latest(e)].entry = e
  BY LatestFacts
<1>2. DOMAIN chain \subseteq Nat /\ \A n \in DOMAIN chain : chain[n] \in Header
  BY LenProperties
<1> QED BY <1>1, <1>2 DEF Aspect

\* The constructors of actions.
LEMMA ActionFacts ==
  ASSUME NEW c \in Calls
  PROVE  /\ \A k \in Kind : /\ Action(k, c) \in ActionRecord
                            /\ Action(k, c).kind = k /\ Action(k, c).call = c
         /\ \A k \in Kind : /\ Clear(k, c) \in ActionRecord
                            /\ Clear(k, c).kind = "clear" /\ Clear(k, c).call = c
         /\ \A o \in Outcome : /\ Return(c, o) \in ActionRecord
                               /\ Return(c, o).kind = "return" /\ Return(c, o).call = c
                               /\ Return(c, o).of = o
BY DEF Action, Clear, Return, ActionRecord, Kind, Outcome

\* What the progress of an author means changes only with what is sent, with
\* the chain and with a save that fails.
LEMMA SameProgress ==
  ASSUME UNCHANGED <<published, chain, saveFailed>>
  PROVE  \A c : /\ Stored(c)' <=> Stored(c)
                /\ ContentSent(c)' <=> ContentSent(c)
                /\ Done(c)' <=> Done(c)
BY DEF Stored, ContentSent, Done, Sent, OnChain

\* What is in the channel and on the chain is about calls, and about entries.
LEMMA ElementTypes ==
  ASSUME IInv
  PROVE  /\ channel \in Seq(ActionRecord) /\ DOMAIN channel \subseteq Nat
         /\ \A i \in DOMAIN channel : channel[i] \in ActionRecord /\ channel[i].call \in Calls
         /\ chain \in Seq(Header) /\ saved \in Seq(Header) /\ DOMAIN chain \subseteq Nat
         /\ \A n \in DOMAIN chain : /\ chain[n] \in Header /\ chain[n].entry \in Entries
                                    /\ chain[n].call \in Authors /\ chain[n].call \in Calls
<1>1. channel \in Seq(ActionRecord) /\ chain \in Seq(Header) /\ saved \in Seq(Header)
  BY DEF IInv, TypeOK
<1>2. /\ DOMAIN channel = 1..Len(channel) /\ channel \in [1..Len(channel) -> ActionRecord]
      /\ DOMAIN chain = 1..Len(chain) /\ chain \in [1..Len(chain) -> Header]
      /\ Len(channel) \in Nat /\ Len(chain) \in Nat
  BY <1>1, LenProperties
<1>3. \A a \in ActionRecord : a.call \in Calls
  BY DEF ActionRecord
<1>4. \A h \in Header : h.entry \in Entries /\ h.call \in Authors /\ h.call \in Calls
  BY CallsAssumption DEF Header
<1> QED BY <1>1, <1>2, <1>3, <1>4

\* Private content that was sent stays excused: the chain keeps the entry that
\* refers to it, unless a save has failed.
LEMMA PrivateKept ==
  ASSUME PrivateStaysHome, NEW q \in published, q.header.entry \in Private,
         saveFailed => saveFailed',
         saveFailed' \/ \A n \in DOMAIN chain : n \in DOMAIN chain' /\ chain'[n] = chain[n]
  PROVE  /\ q.what # "meta"
         /\ q.what = "content" =>
              saveFailed' \/ \E n \in DOMAIN chain' : HasMetaAbout(n, q.header.entry)'
<1>1. /\ q.what # "meta"
      /\ q.what = "content" =>
           saveFailed \/ \E n \in DOMAIN chain : HasMetaAbout(n, q.header.entry)
  BY DEF PrivateStaysHome
<1>2. ASSUME NEW n \in DOMAIN chain, n \in DOMAIN chain', chain'[n] = chain[n],
             HasMetaAbout(n, q.header.entry)
      PROVE  HasMetaAbout(n, q.header.entry)'
  BY <1>2 DEF HasMetaAbout, Public
<1> QED BY <1>1, <1>2

\* So it is when nothing more is sent.
LEMMA PrivateStays ==
  ASSUME PrivateStaysHome, published' = published, saveFailed => saveFailed',
         saveFailed' \/ \A n \in DOMAIN chain : n \in DOMAIN chain' /\ chain'[n] = chain[n]
  PROVE  PrivateStaysHome'
BY PrivateKept DEF PrivateStaysHome

\* A new instance has no calls under way: the invariant holds.
LEMMA InitIInv == Init => IInv
<1> SUFFICES ASSUME Init PROVE IInv
  OBVIOUS
<1>1. TypeOK
  <2>1. IsInjective(queued) /\ ToSet(queued) \cap running = {}
    BY DEF Init, IsInjective, ToSet
  <2>2. << >> \in Seq(ActionRecord) /\ << >> \in Seq(Calls) /\ << >> \in Seq(Header)
    BY EmptySeq
  <2>3. caller \in [Calls -> Caller] /\ thread \in [Calls -> Thread]
    BY DEF Init, Caller, Thread
  <2>4. saveFailed \in BOOLEAN
    BY Zenon DEF Init
  <2>7. awaits \in [Calls -> SUBSET Calls]
    BY DEF Init
  <2>6. crashes \in 0..MaxCrashes
    BY PoolAssumption DEF Init
  <2>5. /\ channel = << >> /\ queued = << >> /\ chain = << >> /\ saved = << >>
        /\ running = {} /\ results = {} /\ commits = {} /\ publishes = {} /\ published = {}
    BY DEF Init
  <2> QED BY <2>1, <2>2, <2>3, <2>4, <2>5, <2>6, <2>7 DEF TypeOK
<1>2. Alone /\ ActionsPlaced /\ CallsPlaced /\ ResultsPlaced /\ ResponsesPlaced /\ ChainIsPast
  BY CallsAssumption DEF Init, Alone, ActionsPlaced, CallsPlaced, ResultsPlaced, ResponsesPlaced, ChainIsPast,
     ToSet, Working
<1>3. Pool
  BY FS_EmptySet, PoolAssumption DEF Init, Pool, PoolIsUsed
<1>4. CommitsOnce /\ SavedIsChain /\ PublishedIsSaved /\ PrivateStaysHome
  BY DEF Init, CommitsOnce, SavedIsChain, PublishedIsSaved, PrivateStaysHome
<1>5. ThreadsProgress /\ ResponsesProgress /\ SuccessIsDone
  BY CallsAssumption DEF Init, ThreadsProgress, ResponsesProgress, SuccessIsDone
<1> QED BY <1>1, <1>2, <1>3, <1>4, <1>5 DEF IInv

-----------------------------------------------------------------------------
(* Callers and threads. They leave the nucleus, the responses, the chain   *)
(* and what is published alone.                                            *)

\* The parts of the invariant that say nothing of callers, threads and channel.
LEMMA StateKeeps ==
  ASSUME IInv, UNCHANGED <<running, queued, chain, saved, saveFailed, published>>
  PROVE  Pool' /\ CommitsOnce' /\ SavedIsChain' /\ PublishedIsSaved' /\ PrivateStaysHome'
<1>1. PrivateStaysHome'
  BY PrivateStays DEF IInv
<1> QED BY <1>1 DEF IInv, Pool, PoolIsUsed, CommitsOnce, SavedIsChain, PublishedIsSaved

\* A step of a thread: it asks for x, or goes on by itself.
Asks(c, t, x) ==
  \/ /\ t = "none" /\ x.kind = "return" /\ x.of \in Outcome
     /\ x.of = "ok" /\ c \in Authors => Done(c)
  \/ t = "package" /\ thread[c] = "start" /\ c \in Authors /\ x.kind = "clear"
  \/ /\ t \in After(thread[c]) /\ x.kind = t /\ c \in Authors
     /\ t = "commit" => thread[c] = "package"
     /\ t = "publish" => EntryOf[c] \notin Private
     /\ t \in {"publish", "header"} => Stored(c)
     /\ t = "header" => ContentSent(c)

\* Nothing in the channel carries the call forward.
Idle(c) == \A i \in DOMAIN channel : channel[i].kind \in Live => channel[i].call # c

\* The channel grows by x and by actions that clear a response.
Grows(x) ==
  /\ \A k \in DOMAIN channel' :
       \/ k \in DOMAIN channel /\ channel'[k] = channel[k]
       \/ k \notin DOMAIN channel /\ channel'[k].kind = "clear"
       \/ k \notin DOMAIN channel /\ channel'[k] = x
  /\ \A k, m \in DOMAIN channel' \ DOMAIN channel :
       channel'[k].kind # "clear" /\ channel'[m].kind # "clear" => k = m

\* A thread that goes on to its next step of author_entry, and asks for it in the
\* same step, keeps the invariant.
LEMMA ThreadKeeps ==
  ASSUME IInv, NEW c \in Calls, thread[c] # "none", Idle(c), NEW t \in Thread,
         thread' = [thread EXCEPT ![c] = t], Keep,
         NEW x \in ActionRecord, x.call = c, Asks(c, t, x),
         channel' \in Seq(ActionRecord), Grows(x)
  PROVE  IInv'
<1>n. \A k \in DOMAIN channel' :
        \/ k \in DOMAIN channel /\ channel'[k] = channel[k]
        \/ k \notin DOMAIN channel /\ channel'[k].kind = "clear"
        \/ k \notin DOMAIN channel /\ channel'[k] = x
  BY DEF Grows
<1>i. \A i \in DOMAIN channel : channel[i].kind \in Live => channel[i].call # c
  BY DEF Idle
<1>1. UNCHANGED <<caller, awaits, running, queued, results, commits, publishes, chain, saved,
                  saveFailed, published, crashes>>
  BY DEF Keep, nucleus, responses, disk
<1>2. /\ \A d \in Calls : thread'[d] = IF d = c THEN t ELSE thread[d]
      /\ thread' \in [Calls -> Thread]
      /\ caller[c] = "spawned" /\ c \in running
  BY DEF IInv, TypeOK, CallsPlaced
<1>3. TypeOK'
  BY <1>1, <1>2 DEF IInv, TypeOK
<1>4. /\ x.kind \in {"return", "clear"} \cup Working
      /\ t \in Working \/ t \in {"none", "package"}
  BY AfterFacts DEF Asks
<1>5. \A i \in DOMAIN channel : channel[i].call \in Calls
  BY ElementTypes
<1>6. Alone'
  BY <1>n, <1>i DEF IInv, Alone, Grows, Live, Working
<1>7. ActionsPlaced'
  <2> SUFFICES ASSUME NEW k \in DOMAIN channel' PROVE Placed(channel[k])'
    BY DEF ActionsPlaced
  <2>1. CASE k \in DOMAIN channel /\ channel'[k] = channel[k]
    <3>1. Placed(channel[k]) /\ channel[k].call \in Calls
      BY <1>5, <2>1 DEF IInv, ActionsPlaced
    <3>2. channel[k].kind \in Live => channel[k].call # c
      BY <1>i, <2>1
    <3> QED BY <1>1, <1>2, <2>1, <3>1, <3>2 DEF Placed, Live, Working
  <2>2. CASE channel'[k].kind = "clear"
    BY <2>2 DEF Placed, Working
  <2>3. CASE channel'[k] = x
    <3>1. x.kind = "return" => t = "none" /\ x.of \in Outcome
      BY AfterFacts DEF Asks, Working
    <3>2. x.kind \in Working => t = x.kind
      BY DEF Asks, Working
    <3> QED BY <1>1, <1>2, <1>4, <2>3, <3>1, <3>2 DEF Placed, Working
  <2> QED BY <1>n, <2>1, <2>2, <2>3
<1>8. CallsPlaced'
  <2>1. /\ t \in {"package"} \cup Working => c \in Authors
        /\ t = "publish" => EntryOf[c] \notin Private
    BY DEF Asks, Working
  <2> QED BY <1>1, <1>2, <2>1 DEF IInv, CallsPlaced
<1>9. ResultsPlaced'
  BY <1>1 DEF IInv, ResultsPlaced
<1>10. ResponsesPlaced'
  <2> SUFFICES ASSUME NEW r \in commits \cup publishes
               PROVE  /\ r.kind \notin After(thread'[r.call])
                      /\ \A k \in DOMAIN channel' :
                           ~(channel'[k].kind = r.kind /\ channel'[k].call = r.call)
    BY <1>1 DEF IInv, ResponsesPlaced
  <2>1. /\ r.kind \in Working /\ r.kind \notin After(thread[r.call]) /\ r.call \in Calls
        /\ \A i \in DOMAIN channel : ~(channel[i].kind = r.kind /\ channel[i].call = r.call)
    BY CallsAssumption DEF IInv, ResponsesPlaced
  <2>2. After(t) \subseteq After(thread[c])
    BY AfterFacts DEF Asks
  <2>3. r.call = c => r.kind # x.kind
    BY <2>1 DEF Asks, Working
  <2>4. r.kind \notin After(thread'[r.call])
    BY <1>2, <2>1, <2>2
  <2> QED BY <1>n, <2>1, <2>3, <2>4 DEF Working
<1>11. ChainIsPast'
  <2> SUFFICES ASSUME NEW m \in DOMAIN chain
               PROVE  /\ thread'[chain[m].call] \notin {"start", "package"}
                      /\ \A k \in DOMAIN channel' :
                           ~(channel'[k].kind = "commit" /\ channel'[k].call = chain[m].call)
    BY <1>1 DEF IInv, ChainIsPast
  <2>1. /\ thread[chain[m].call] \notin {"start", "package"}
        /\ \A i \in DOMAIN channel :
             ~(channel[i].kind = "commit" /\ channel[i].call = chain[m].call)
    BY DEF IInv, ChainIsPast
  <2>2. chain[m].call \in Calls
    BY ElementTypes
  <2>3. chain[m].call = c => t \notin {"start", "package"} /\ x.kind # "commit"
    BY <2>1, AfterFacts DEF Asks, Working
  <2> QED BY <1>n, <1>2, <2>1, <2>2, <2>3
<1>12. ThreadsProgress'
  <2>1. /\ t \in {"publish", "header"} => Stored(c)
        /\ t = "header" => ContentSent(c)
    BY DEF Asks, Working
  <2> QED BY <1>1, <1>2, <2>1, SameProgress, CallsAssumption DEF IInv, ThreadsProgress
<1>13. ResponsesProgress'
  BY <1>1, SameProgress DEF IInv, ResponsesProgress
<1>14. SuccessIsDone'
  <2>1. x.kind = "return" /\ x.of = "ok" /\ c \in Authors => Done(c)
    BY AfterFacts DEF Asks, Working
  <2>2. \A i \in DOMAIN channel' :
          channel'[i].kind = "return" /\ channel'[i].of = "ok" /\ channel'[i].call \in Authors
            => Done(channel'[i].call)
    BY <1>n, <2>1 DEF IInv, SuccessIsDone
  <2> QED BY <1>1, <2>2, SameProgress DEF IInv, SuccessIsDone
<1> QED BY <1>1, <1>3, <1>6, <1>7, <1>8, <1>9, <1>10, <1>11, <1>12, <1>13, <1>14, StateKeeps
        DEF IInv

\* Nothing carries a call forward while its thread is between two actions.
LEMMA NothingLive ==
  ASSUME IInv, NEW c \in Calls, caller[c] # "waiting", thread[c] \notin Working,
         thread[c] = "none" => caller[c] # "spawned" \/ c \notin running
  PROVE  Idle(c)
<1> SUFFICES ASSUME NEW i \in DOMAIN channel, channel[i].kind \in Live, channel[i].call = c
             PROVE  FALSE
  BY DEF Idle
<1>1. Placed(channel[i])
  BY DEF IInv, ActionsPlaced
<1> QED BY <1>1 DEF Placed, Live

\* A thread that ends with an error.
LEMMA FinishKeeps ==
  ASSUME IInv, NEW c \in Calls, thread[c] \in {"start", "package"}, NEW how \in Outcome,
         how = "ok" => c \notin Authors, Finish(c, how), Keep
  PROVE  IInv'
<1> DEFINE x == Return(c, how)
<1>1. x \in ActionRecord /\ x.call = c /\ x.kind = "return" /\ x.of = how
  BY ActionFacts
<1> HIDE DEF x
<1>2. thread' = [thread EXCEPT ![c] = "none"] /\ channel' = Append(channel, x)
  BY DEF Finish, Send, x
<1>3. /\ channel' \in Seq(ActionRecord)
      /\ \A k \in DOMAIN channel' :
           \/ k \in DOMAIN channel /\ channel'[k] = channel[k]
           \/ k \notin DOMAIN channel /\ k = Len(channel) + 1 /\ channel'[k] = x
  BY <1>1, <1>2, Dispatched DEF IInv, TypeOK
<1>g. Grows(x)
  BY <1>3 DEF Grows
<1>4. Asks(c, "none", x)
  BY <1>1 DEF Asks
<1>5. caller[c] = "spawned" /\ thread[c] \notin Working /\ thread[c] # "none"
  BY DEF IInv, CallsPlaced, Working
<1>6. Idle(c)
  BY <1>5, NothingLive
<1> QED BY <1>1, <1>2, <1>3, <1>4, <1>5, <1>6, <1>g, ThreadKeeps DEF Thread

\* A zome function that commits nothing.
LEMMA RunZomeFunctionKeeps ==
  ASSUME IInv, NEW c \in Calls, RunZomeFunction(c)
  PROVE  IInv'
<1>1. PICK how \in Outcome : Finish(c, how)
  BY DEF RunZomeFunction
<1> QED BY <1>1, FinishKeeps DEF RunZomeFunction

\* author_entry up to the validation.
LEMMA BuildValidationPackageKeeps ==
  ASSUME IInv, NEW c \in Calls, BuildValidationPackage(c)
  PROVE  IInv'
<1>1. thread[c] = "start" /\ c \in Authors /\ Keep
  BY DEF BuildValidationPackage
<1>2. CASE thread' = [thread EXCEPT ![c] = "package"] /\ channel' = channel
  <2> DEFINE x == Clear("commit", c)
  <2>1. x \in ActionRecord /\ x.call = c /\ x.kind = "clear"
    BY ActionFacts DEF Kind
  <2> HIDE DEF x
  <2>2. Asks(c, "package", x)
    BY <1>1, <2>1 DEF Asks
  <2>3. caller[c] = "spawned" /\ thread[c] \notin Working /\ thread[c] # "none"
    BY <1>1 DEF IInv, CallsPlaced, Working
  <2>4. Idle(c)
    BY <2>3, NothingLive
  <2>5. channel' \in Seq(ActionRecord) /\ "package" \in Thread
    BY <1>2 DEF IInv, TypeOK, Thread
  <2>6. Grows(x)
    BY <1>2 DEF Grows
  <2> QED BY <1>1, <1>2, <2>1, <2>2, <2>3, <2>4, <2>5, <2>6, ThreadKeeps
<1>3. CASE Finish(c, "error")
  BY <1>1, <1>3, FinishKeeps DEF Outcome
<1> QED BY <1>2, <1>3 DEF BuildValidationPackage

\* A valid entry: its commit is asked for.
LEMMA ValidateEntryKeeps ==
  ASSUME IInv, NEW c \in Calls, ValidateEntry(c)
  PROVE  IInv'
<1>1. thread[c] = "package" /\ Keep
  BY DEF ValidateEntry
<1>2. c \in Authors /\ caller[c] = "spawned"
  BY <1>1 DEF IInv, CallsPlaced
<1>3. CASE thread' = [thread EXCEPT ![c] = "commit"] /\ Send(Action("commit", c))
  <2> DEFINE x == Action("commit", c)
  <2>1. x \in ActionRecord /\ x.call = c /\ x.kind = "commit"
    BY ActionFacts DEF Kind
  <2> HIDE DEF x
  <2>2. channel' = Append(channel, x)
    BY <1>3 DEF Send, x
  <2>3. /\ channel' \in Seq(ActionRecord)
        /\ \A k \in DOMAIN channel' :
             \/ k \in DOMAIN channel /\ channel'[k] = channel[k]
             \/ k \notin DOMAIN channel /\ k = Len(channel) + 1 /\ channel'[k] = x
    BY <2>1, <2>2, Dispatched DEF IInv, TypeOK
  <2>4. "commit" \in After(thread[c])
    BY <1>1 DEF After, Working
  <2>5. Asks(c, "commit", x)
    BY <1>1, <1>2, <2>1, <2>4 DEF Asks
  <2>6. Idle(c)
    BY <1>1, <1>2, NothingLive DEF Working
  <2>7. Grows(x)
    BY <2>3 DEF Grows
  <2> QED BY <1>1, <1>3, <2>1, <2>3, <2>5, <2>6, <2>7, ThreadKeeps DEF Thread
<1>4. CASE Finish(c, "error")
  BY <1>1, <1>4, FinishKeeps DEF Outcome
<1> QED BY <1>3, <1>4 DEF ValidateEntry

\* The order of author_entry.
LEMMA NextStepIs ==
  ASSUME NEW c
  PROVE  /\ EntryOf[c] \notin Private => NextStep(c, "commit") = "publish"
         /\ EntryOf[c] \in Private => NextStep(c, "commit") = "header"
         /\ NextStep(c, "publish") = "header"
         /\ NextStep(c, "header") = "end"
<1>1. "commit" # "publish" /\ "commit" # "header" /\ "publish" # "header"
  OBVIOUS
<1>2. EntryOf[c] \notin Private => NextStep(c, "commit") = "publish"
  BY <1>1, Zenon DEF NextStep
<1>3. EntryOf[c] \in Private => NextStep(c, "commit") = "header"
  BY <1>1, Zenon DEF NextStep
<1>4. NextStep(c, "publish") = "header"
  BY <1>1, Zenon DEF NextStep
<1>5. NextStep(c, "header") = "end"
  BY <1>1, Zenon DEF NextStep
<1> QED BY <1>2, <1>3, <1>4, <1>5

\* A future takes the response it waits for, and author_entry goes on.
LEMMA TakeResponseKeeps ==
  ASSUME IInv, NEW c \in Calls, NEW k \in Working, TakeResponse(c, k)
  PROVE  IInv'
<1>1. PICK r \in commits \cup publishes :
        /\ r.kind = k /\ r.call = c
        /\ IF r.of = "ok" /\ NextStep(c, k) # "end"
           THEN /\ thread' = [thread EXCEPT ![c] = NextStep(c, k)]
                /\ channel' = channel \o <<Clear(k, c), Action(NextStep(c, k), c)>>
           ELSE /\ thread' = [thread EXCEPT ![c] = "none"]
                /\ channel' = channel \o <<Clear(k, c), Return(c, r.of)>>
  BY DEF TakeResponse
<1>2. thread[c] = k /\ Keep
  BY DEF TakeResponse
<1>3. /\ c \in Authors /\ r.of \in Outcome /\ thread[c] # "none"
      /\ \A i \in DOMAIN channel : ~(channel[i].kind = k /\ channel[i].call = c)
      /\ caller[c] = "spawned"
  BY <1>1, <1>2 DEF IInv, ResponsesPlaced, CallsPlaced, Working
<1>4. /\ r.of = "ok" => Stored(c)
      /\ r.of = "ok" /\ k = "publish" => ContentSent(c)
      /\ r.of = "ok" /\ k = "header" => Done(c)
  BY <1>1 DEF IInv, ResponsesProgress
<1>5. Idle(c)
  <2> SUFFICES ASSUME NEW i \in DOMAIN channel, channel[i].kind \in Live, channel[i].call = c
               PROVE  FALSE
    BY DEF Idle
  <2>1. Placed(channel[i])
    BY DEF IInv, ActionsPlaced
  <2> QED BY <1>2, <1>3, <2>1 DEF Placed, Live
<1>6. Clear(k, c) \in ActionRecord /\ Clear(k, c).kind = "clear"
  BY ActionFacts DEF Working, Kind
<1>7. CASE r.of = "ok" /\ NextStep(c, k) # "end"
  <2> DEFINE t == NextStep(c, k)
  <2>1. /\ k \in {"commit", "publish"}
        /\ k = "commit" /\ EntryOf[c] \notin Private => t = "publish"
        /\ k = "commit" /\ EntryOf[c] \in Private => t = "header"
        /\ k = "publish" => t = "header"
    BY <1>7, NextStepIs DEF Working
  <2> HIDE DEF t
  <2>2. t \in {"publish", "header"} /\ t \in After(k)
    BY <2>1 DEF After
  <2>3. t = "header" => ContentSent(c)
    BY <1>4, <1>7, <2>1 DEF ContentSent
  <2> DEFINE x == Action(t, c)
  <2>4. x \in ActionRecord /\ x.call = c /\ x.kind = t
    BY <2>2, ActionFacts DEF Kind
  <2>5. thread' = [thread EXCEPT ![c] = t] /\ channel' = channel \o <<Clear(k, c), x>>
    BY <1>1, <1>7 DEF t
  <2> HIDE DEF x
  <2>6. /\ channel' \in Seq(ActionRecord)
        /\ \A j \in DOMAIN channel' :
             \/ j \in DOMAIN channel /\ channel'[j] = channel[j]
             \/ j \notin DOMAIN channel /\ channel'[j] = Clear(k, c)
             \/ j \notin DOMAIN channel /\ j = Len(channel) + 2 /\ channel'[j] = x
    BY <1>6, <2>4, <2>5, DispatchedTwo DEF IInv, TypeOK
  <2>7. Asks(c, t, x)
    BY <1>2, <1>3, <1>4, <1>7, <2>1, <2>2, <2>3, <2>4 DEF Asks
  <2>8. Grows(x)
    BY <1>6, <2>6 DEF Grows
  <2> QED BY <1>2, <1>3, <1>5, <2>2, <2>4, <2>5, <2>6, <2>7, <2>8, ThreadKeeps DEF Thread
<1>8. CASE ~(r.of = "ok" /\ NextStep(c, k) # "end")
  <2> DEFINE x == Return(c, r.of)
  <2>1. x \in ActionRecord /\ x.call = c /\ x.kind = "return" /\ x.of = r.of
    BY <1>3, ActionFacts
  <2> HIDE DEF x
  <2>2. thread' = [thread EXCEPT ![c] = "none"] /\ channel' = channel \o <<Clear(k, c), x>>
    BY <1>1, <1>8 DEF x
  <2>3. /\ channel' \in Seq(ActionRecord)
        /\ \A j \in DOMAIN channel' :
             \/ j \in DOMAIN channel /\ channel'[j] = channel[j]
             \/ j \notin DOMAIN channel /\ channel'[j] = Clear(k, c)
             \/ j \notin DOMAIN channel /\ j = Len(channel) + 2 /\ channel'[j] = x
    BY <1>6, <2>1, <2>2, DispatchedTwo DEF IInv, TypeOK
  <2>4. r.of = "ok" => k = "header"
    BY <1>8, NextStepIs DEF Working
  <2>5. Asks(c, "none", x)
    BY <1>3, <1>4, <2>1, <2>4 DEF Asks
  <2>6. Grows(x)
    BY <1>6, <2>3 DEF Grows
  <2> QED BY <1>2, <1>3, <1>5, <2>1, <2>2, <2>3, <2>5, <2>6, ThreadKeeps DEF Thread
<1> QED BY <1>7, <1>8

\* A call is made: it is dispatched, or refused at once.
LEMMA RequestKeeps ==
  ASSUME IInv, NEW c \in Calls, Request(c) \/ Refuse(c), awaits' \in [Calls -> SUBSET Calls],
         UNCHANGED <<thread, nucleus, responses, chain, disk, published, crashes>>
  PROVE  IInv'
<1>1. /\ caller[c] = "idle"
      /\ UNCHANGED <<thread, running, queued, results, commits, publishes, chain, saved,
                     saveFailed, published, crashes>>
  BY DEF Request, Refuse, nucleus, responses, disk
<1> DEFINE x == Action("queue", c)
<1>2. x \in ActionRecord /\ x.kind = "queue" /\ x.call = c
  BY ActionFacts DEF Kind
<1> HIDE DEF x
<1>3. /\ c \notin running /\ c \notin ToSet(queued) /\ thread[c] = "none"
      /\ Idle(c)
      /\ \A i \in DOMAIN channel : channel[i].kind = "clearCall" => channel[i].call # c
  <2>1. c \notin running /\ c \notin ToSet(queued) /\ thread[c] = "none"
    BY <1>1 DEF IInv, CallsPlaced
  <2>2. Idle(c)
    BY <1>1, <2>1, NothingLive DEF Working
  <2> QED BY <1>1, <2>1, <2>2 DEF IInv, ActionsPlaced, Placed, Outcome
<1>4. /\ \A r \in results : r.call # c
      /\ \A r \in commits \cup publishes : r.call # c
      /\ \A n \in DOMAIN chain : chain[n].call # c
  BY <1>1 DEF IInv, ResultsPlaced, ResponsesPlaced, ChainIsPast, Outcome
<1>5. \/ /\ caller' = [caller EXCEPT ![c] = "waiting"]
         /\ channel' = Append(channel, x)
      \/ /\ caller' = [caller EXCEPT ![c] = "error"]
         /\ channel' = channel
  BY DEF Request, Refuse, Send, x
<1>6. /\ channel' \in Seq(ActionRecord)
      /\ \A k \in DOMAIN channel' :
           \/ k \in DOMAIN channel /\ channel'[k] = channel[k]
           \/ /\ k \notin DOMAIN channel /\ k = Len(channel) + 1 /\ channel'[k] = x
              /\ caller'[c] = "waiting"
  <2>1. channel \in Seq(ActionRecord) /\ c \in DOMAIN caller
    BY DEF IInv, TypeOK
  <2>2. CASE caller' = [caller EXCEPT ![c] = "waiting"] /\ channel' = Append(channel, x)
    <3>1. caller'[c] = "waiting"
      BY <2>1, <2>2
    <3> QED BY <1>2, <2>1, <2>2, <3>1, Dispatched
  <2>3. CASE channel' = channel
    BY <2>1, <2>3
  <2> QED BY <1>5, <2>2, <2>3
<1>7. /\ \A d \in Calls \ {c} : caller'[d] = caller[d]
      /\ caller'[c] \in {"waiting", "error"}
      /\ caller' \in [Calls -> Caller]
  BY <1>5 DEF IInv, TypeOK, Caller, Outcome
<1>8. TypeOK'
  BY <1>1, <1>6, <1>7 DEF IInv, TypeOK
<1>9. Alone'
  BY <1>2, <1>3, <1>6 DEF IInv, Alone, Idle
<1>10. ActionsPlaced'
  <2> SUFFICES ASSUME NEW k \in DOMAIN channel' PROVE Placed(channel[k])'
    BY DEF ActionsPlaced
  <2>1. CASE k \in DOMAIN channel /\ channel'[k] = channel[k]
    <3>1. Placed(channel[k]) /\ channel[k].call \in Calls
      BY <2>1, ElementTypes DEF IInv, ActionsPlaced
    <3>2. channel[k].kind \in Live \cup {"clearCall"} => channel[k].call # c
      BY <1>3, <2>1 DEF Idle
    <3> QED BY <1>1, <1>7, <2>1, <3>1, <3>2 DEF Placed, Live, Working
  <2>2. CASE channel'[k] = x /\ caller'[c] = "waiting"
    BY <1>1, <1>2, <1>3, <2>2 DEF Placed, Working
  <2> QED BY <1>6, <2>1, <2>2
<1>11. CallsPlaced'
  BY <1>1, <1>3, <1>7 DEF IInv, CallsPlaced, Working
<1>12. ResultsPlaced'
  <2>1. \A r \in results : r.call \in Calls
    BY DEF IInv, TypeOK, ActionRecord
  <2> QED BY <1>1, <1>4, <1>7, <2>1 DEF IInv, ResultsPlaced
<1>13. ResponsesPlaced'
  <2>1. \A r \in commits \cup publishes : r.call \in Calls /\ r.kind \in Working
    BY CallsAssumption DEF IInv, ResponsesPlaced
  <2>2. \A r \in commits \cup publishes : r.kind # x.kind
    BY <1>2, <2>1 DEF Working
  <2> QED BY <1>1, <1>4, <1>6, <1>7, <2>1, <2>2 DEF IInv, ResponsesPlaced
<1>14. ChainIsPast'
  BY <1>1, <1>2, <1>4, <1>6, <1>7, ElementTypes DEF IInv, ChainIsPast
<1>15. ThreadsProgress' /\ ResponsesProgress'
  BY <1>1, SameProgress DEF IInv, ThreadsProgress, ResponsesProgress
<1>16. SuccessIsDone'
  <2>1. \A d \in Authors : caller'[d] = "ok" => Done(d)
    BY <1>7, CallsAssumption DEF IInv, SuccessIsDone
  <2>2. \A i \in DOMAIN channel' :
          channel'[i].kind = "return" /\ channel'[i].of = "ok" /\ channel'[i].call \in Authors
            => Done(channel'[i].call)
    BY <1>2, <1>6 DEF IInv, SuccessIsDone
  <2> QED BY <1>1, <2>1, <2>2, SameProgress DEF IInv, SuccessIsDone
<1> QED BY <1>1, <1>8, <1>9, <1>10, <1>11, <1>12, <1>13, <1>14, <1>15, <1>16, StateKeeps DEF IInv

\* A call from outside.
LEMMA CallZomeFunctionKeeps ==
  ASSUME IInv, NEW c \in Calls, CallZomeFunction(c)
  PROVE  IInv'
<1>1. /\ Request(c) \/ Refuse(c)
      /\ UNCHANGED <<thread, nucleus, responses, chain, disk, published, crashes>>
      /\ awaits' = awaits
  BY DEF CallZomeFunction, threads
<1>2. awaits' \in [Calls -> SUBSET Calls]
  BY <1>1 DEF IInv, TypeOK
<1> QED BY <1>1, <1>2, RequestKeeps

\* A call that a zome function makes, and waits for.
LEMMA CallInnerKeeps ==
  ASSUME IInv, NEW c \in Calls, NEW d \in Calls, CallInner(c, d)
  PROVE  IInv'
<1>1. /\ Request(d) \/ Refuse(d)
      /\ UNCHANGED <<thread, nucleus, responses, chain, disk, published, crashes>>
      /\ awaits' = awaits \/ awaits' = [awaits EXCEPT ![c] = {d}]
  BY DEF CallInner
<1>2. awaits' \in [Calls -> SUBSET Calls]
  BY <1>1 DEF IInv, TypeOK
<1> QED BY <1>1, <1>2, RequestKeeps

\* The future starts the thread of a call that it sees running.
LEMMA SpawnZomeFunctionKeeps ==
  ASSUME IInv, NEW c \in Calls, SpawnZomeFunction(c)
  PROVE  IInv'
<1>1. /\ caller[c] = "waiting" /\ c \in running
      /\ caller' = [caller EXCEPT ![c] = "spawned"]
      /\ thread' = [thread EXCEPT ![c] = "start"]
      /\ UNCHANGED <<awaits, channel, running, queued, results, commits, publishes, chain, saved,
                     saveFailed, published, crashes>>
  BY DEF SpawnZomeFunction, nucleus, responses, disk
<1>2. /\ \A d \in Calls : caller'[d] = IF d = c THEN "spawned" ELSE caller[d]
      /\ \A d \in Calls : thread'[d] = IF d = c THEN "start" ELSE thread[d]
      /\ caller' \in [Calls -> Caller] /\ thread' \in [Calls -> Thread]
  BY <1>1 DEF IInv, TypeOK, Caller, Thread
<1>3. c \notin ToSet(queued) /\ thread[c] = "none"
  <2>1. thread[c] = "none"
    BY <1>1 DEF IInv, CallsPlaced
  <2> QED BY <1>1, <2>1 DEF IInv, TypeOK
<1>4. \A i \in DOMAIN channel : channel[i].call = c =>
        channel[i].kind \notin Live \cup {"clearCall"}
  <2> SUFFICES ASSUME NEW i \in DOMAIN channel, channel[i].call = c,
                      channel[i].kind \in Live \cup {"clearCall"}
               PROVE  FALSE
    OBVIOUS
  <2>1. Placed(channel[i])
    BY DEF IInv, ActionsPlaced
  <2> QED BY <1>1, <1>3, <2>1 DEF Placed, Live, Working, Outcome
<1>5. /\ \A r \in results : r.call # c
      /\ \A r \in commits \cup publishes : r.call # c
      /\ \A n \in DOMAIN chain : chain[n].call # c
  BY <1>1 DEF IInv, ResultsPlaced, ResponsesPlaced, ChainIsPast, Outcome
<1>6. TypeOK' /\ Alone'
  BY <1>1, <1>2 DEF IInv, TypeOK, Alone
<1>7. ActionsPlaced'
  <2> SUFFICES ASSUME NEW k \in DOMAIN channel PROVE Placed(channel[k])'
    BY <1>1 DEF ActionsPlaced
  <2>1. Placed(channel[k]) /\ channel[k].call \in Calls
    BY ElementTypes DEF IInv, ActionsPlaced
  <2> QED BY <1>1, <1>2, <1>4, <2>1 DEF Placed, Live, Working
<1>8. CallsPlaced'
  BY <1>1, <1>2, <1>3 DEF IInv, CallsPlaced, Working
<1>9. ResultsPlaced'
  <2>1. \A r \in results : r.call \in Calls
    BY DEF IInv, TypeOK, ActionRecord
  <2> QED BY <1>1, <1>2, <1>5, <2>1 DEF IInv, ResultsPlaced
<1>10. ResponsesPlaced'
  <2>1. \A r \in commits \cup publishes : r.call \in Calls
    BY CallsAssumption DEF IInv, ResponsesPlaced
  <2> QED BY <1>1, <1>2, <1>5, <2>1 DEF IInv, ResponsesPlaced
<1>11. ChainIsPast'
  BY <1>1, <1>2, <1>5, ElementTypes DEF IInv, ChainIsPast
<1>12. ThreadsProgress' /\ ResponsesProgress' /\ SuccessIsDone'
  BY <1>1, <1>2, SameProgress, CallsAssumption
     DEF IInv, ThreadsProgress, ResponsesProgress, SuccessIsDone
<1> QED BY <1>1, <1>6, <1>7, <1>8, <1>9, <1>10, <1>11, <1>12, StateKeeps DEF IInv

\* The future ends with the result of its call.
LEMMA TakeCallResultKeeps ==
  ASSUME IInv, NEW c \in Calls, TakeCallResult(c)
  PROVE  IInv'
<1>1. /\ caller[c] = "spawned"
      /\ channel' = Append(channel, Action("clearCall", c))
      /\ UNCHANGED <<thread, running, queued, results, commits, publishes, chain, saved,
                     saveFailed, published, crashes>>
  BY DEF TakeCallResult, Send, nucleus, responses, disk
<1>a. awaits' \in [Calls -> SUBSET Calls]
  <2>1. \A d \in Calls : awaits[d] \ {c} \in SUBSET Calls
    BY DEF IInv, TypeOK
  <2> QED BY <2>1 DEF TakeCallResult
<1>2. PICK r \in results : r.call = c /\ caller' = [caller EXCEPT ![c] = r.of]
  BY DEF TakeCallResult
<1>3. /\ r.of \in Outcome /\ c \notin running /\ c \notin ToSet(queued) /\ thread[c] = "none"
      /\ r.of = "ok" /\ c \in Authors => Done(c)
  BY <1>2 DEF IInv, ResultsPlaced, CallsPlaced, SuccessIsDone
<1>4. /\ \A d \in Calls : caller'[d] = IF d = c THEN r.of ELSE caller[d]
      /\ caller' \in [Calls -> Caller]
  BY <1>2, <1>3 DEF IInv, TypeOK, Caller
<1> DEFINE x == Action("clearCall", c)
<1>5. x \in ActionRecord /\ x.kind = "clearCall" /\ x.call = c
  BY ActionFacts DEF Kind
<1> HIDE DEF x
<1>6. /\ channel' \in Seq(ActionRecord)
      /\ \A k \in DOMAIN channel' :
           \/ k \in DOMAIN channel /\ channel'[k] = channel[k]
           \/ channel'[k] = x
  BY <1>1, <1>5, Dispatched DEF IInv, TypeOK, x
<1>7. Idle(c)
  BY <1>1, <1>3, NothingLive DEF Working
<1>8. TypeOK'
  BY <1>1, <1>4, <1>6, <1>a DEF IInv, TypeOK
<1>9. Alone'
  BY <1>5, <1>6 DEF IInv, Alone, Live, Working
<1>10. ActionsPlaced'
  <2> SUFFICES ASSUME NEW k \in DOMAIN channel' PROVE Placed(channel[k])'
    BY DEF ActionsPlaced
  <2>1. CASE k \in DOMAIN channel /\ channel'[k] = channel[k]
    <3>1. Placed(channel[k]) /\ channel[k].call \in Calls
      BY <2>1, ElementTypes DEF IInv, ActionsPlaced
    <3>2. channel[k].kind \in Live => channel[k].call # c
      BY <1>7, <2>1 DEF Idle
    <3> QED BY <1>1, <1>3, <1>4, <2>1, <3>1, <3>2 DEF Placed, Live, Working
  <2>2. CASE channel'[k] = x
    BY <1>3, <1>4, <1>5, <2>2 DEF Placed, Working
  <2> QED BY <1>6, <2>1, <2>2
<1>11. CallsPlaced'
  BY <1>1, <1>3, <1>4 DEF IInv, CallsPlaced, Working
<1>12. ResultsPlaced'
  <2>1. \A q \in results : q.call \in Calls
    BY DEF IInv, TypeOK, ActionRecord
  <2> QED BY <1>1, <1>3, <1>4, <2>1 DEF IInv, ResultsPlaced
<1>13. ResponsesPlaced'
  <2>1. \A q \in commits \cup publishes : q.call \in Calls /\ q.kind \in Working
    BY CallsAssumption DEF IInv, ResponsesPlaced
  <2>2. \A q \in commits \cup publishes : q.kind # x.kind
    BY <1>5, <2>1 DEF Working
  <2> QED BY <1>1, <1>3, <1>4, <1>6, <2>1, <2>2 DEF IInv, ResponsesPlaced
<1>14. ChainIsPast'
  <2> SUFFICES ASSUME NEW n \in DOMAIN chain
               PROVE  /\ caller'[chain[n].call] \notin {"idle", "waiting"}
                      /\ thread[chain[n].call] \notin {"start", "package"}
                      /\ \A i \in DOMAIN channel' :
                           ~(channel'[i].kind = "commit" /\ channel'[i].call = chain[n].call)
    BY <1>1 DEF ChainIsPast
  <2>1. /\ caller[chain[n].call] \notin {"idle", "waiting"}
        /\ thread[chain[n].call] \notin {"start", "package"}
        /\ \A i \in DOMAIN channel :
             ~(channel[i].kind = "commit" /\ channel[i].call = chain[n].call)
    BY DEF IInv, ChainIsPast
  <2>2. caller'[chain[n].call] \notin {"idle", "waiting"}
    BY <1>3, <1>4, <2>1, ElementTypes DEF Outcome
  <2> QED BY <1>5, <1>6, <2>1, <2>2
<1>15. ThreadsProgress' /\ ResponsesProgress'
  BY <1>1, SameProgress DEF IInv, ThreadsProgress, ResponsesProgress
<1>16. SuccessIsDone'
  <2>1. \A d \in Authors : caller'[d] = "ok" => Done(d)
    BY <1>3, <1>4, CallsAssumption DEF IInv, SuccessIsDone
  <2>2. \A i \in DOMAIN channel' :
          channel'[i].kind = "return" /\ channel'[i].of = "ok" /\ channel'[i].call \in Authors
            => Done(channel'[i].call)
    BY <1>5, <1>6 DEF IInv, SuccessIsDone
  <2> QED BY <1>1, <2>1, <2>2, SameProgress DEF IInv, SuccessIsDone
<1> QED BY <1>1, <1>8, <1>9, <1>10, <1>11, <1>12, <1>13, <1>14, <1>15, <1>16, StateKeeps DEF IInv

-----------------------------------------------------------------------------
(* The action loop. Every reduction saves the state, or fails to.          *)

\* What a save leaves.
LEMMA PersistFacts ==
  ASSUME IInv, Persist
  PROVE  /\ saved' = saved \/ saved' = chain'
         /\ saveFailed' \/ saved' = chain'
         /\ saveFailed => saveFailed'
         /\ saveFailed' \in BOOLEAN
<1>1. saveFailed \in BOOLEAN
  BY DEF IInv, TypeOK
<1>2. CASE saved' = chain' /\ saveFailed' = saveFailed
  BY <1>1, <1>2
<1>3. CASE saveFailed' = TRUE /\ saved' = saved
  BY <1>3
<1> QED BY <1>2, <1>3 DEF Persist

\* A reduction that lets the chain grow and sends aspects of what is on it.
LEMMA PersistKeeps ==
  ASSUME IInv, Persist, chain' \in Seq(Header),
         \A n \in DOMAIN chain : n \in DOMAIN chain' /\ chain'[n] = chain[n],
         published \subseteq published',
         \A q \in published' \ published : q.at \in DOMAIN chain' /\ chain'[q.at] = q.header
  PROVE  /\ saved' \in Seq(Header) /\ saveFailed' \in BOOLEAN
         /\ SavedIsChain' /\ PublishedIsSaved'
         /\ \A c : /\ Stored(c) => Stored(c)'
                   /\ ContentSent(c) => ContentSent(c)'
                   /\ Done(c) => Done(c)'
<1>1. /\ saved' = saved \/ saved' = chain'
      /\ saveFailed' \/ saved' = chain'
      /\ saveFailed => saveFailed'
      /\ saveFailed' \in BOOLEAN
  BY PersistFacts
<1>2. saved' \in Seq(Header)
  BY <1>1, ElementTypes
<1>3. \A n \in DOMAIN saved : n \in DOMAIN chain /\ saved[n] = chain[n]
  BY DEF IInv, SavedIsChain
<1>4. \A n \in DOMAIN saved' : n \in DOMAIN chain' /\ saved'[n] = chain'[n]
  BY <1>1, <1>3
<1>5. SavedIsChain'
  BY <1>1, <1>4 DEF SavedIsChain
<1>6. PublishedIsSaved'
  <2> SUFFICES ASSUME ~saveFailed', NEW q \in published'
               PROVE  q.at \in DOMAIN saved' /\ saved'[q.at] = q.header
    BY DEF PublishedIsSaved
  <2>1. ~saveFailed /\ saved' = chain'
    BY <1>1
  <2>2. CASE q \in published
    <3>1. saved = chain
      BY <2>1 DEF IInv, SavedIsChain
    <3>2. q.at \in DOMAIN chain /\ chain[q.at] = q.header
      BY <2>1, <2>2, <3>1 DEF IInv, PublishedIsSaved
    <3> QED BY <2>1, <3>2
  <2> QED BY <2>1, <2>2
<1>7. \A c : Stored(c) => Stored(c)'
  BY <1>1 DEF Stored, OnChain
<1>8. \A e : Sent(e) \subseteq Sent(e)'
  BY DEF Sent
<1>9. \A c : ContentSent(c) => ContentSent(c)'
  BY <1>8 DEF ContentSent
<1>10. \A c : Done(c) => Done(c)'
  BY <1>7, <1>8, <1>9 DEF Done
<1> QED BY <1>1, <1>2, <1>5, <1>6, <1>7, <1>9, <1>10

\* The action that is taken off the channel, and what is left in it.
LEMMA ReceiveFacts ==
  ASSUME IInv, NEW k, Receive(k)
  PROVE  /\ Head(channel).kind = k /\ Head(channel) \in ActionRecord
         /\ Head(channel).call \in Calls /\ Placed(Head(channel))
         /\ 1 \in DOMAIN channel /\ Head(channel) = channel[1]
         /\ channel' \in Seq(ActionRecord)
         /\ \A j \in DOMAIN channel' :
              j + 1 \in DOMAIN channel /\ j + 1 # 1 /\ channel'[j] = channel[j + 1]
         /\ k \in Live => \A j \in DOMAIN channel' :
              channel'[j].kind \in Live => channel'[j].call # Head(channel).call
         /\ Alone'
         /\ UNCHANGED <<caller, thread, awaits, crashes>>
<1>1. /\ channel # << >> /\ Head(channel).kind = k /\ channel' = Tail(channel)
      /\ UNCHANGED <<caller, thread, awaits, crashes>>
  BY DEF Receive, threads
<1>2. /\ channel' \in Seq(ActionRecord) /\ DOMAIN channel' \subseteq Nat
      /\ 1 \in DOMAIN channel /\ Head(channel) = channel[1]
      /\ \A j \in DOMAIN channel' :
           j + 1 \in DOMAIN channel /\ j + 1 # 1 /\ channel'[j] = channel[j + 1]
  BY <1>1, Consumed, ElementTypes
<1>3. /\ Head(channel) \in ActionRecord /\ Head(channel).call \in Calls
      /\ Placed(Head(channel))
  BY <1>2, ElementTypes DEF IInv, ActionsPlaced
<1>4. Alone'
  <2> SUFFICES ASSUME NEW i \in DOMAIN channel', NEW j \in DOMAIN channel',
                      channel'[i].kind \in Live, channel'[j].kind \in Live,
                      channel'[i].call = channel'[j].call
               PROVE  i = j
    BY DEF Alone
  <2>1. i + 1 = j + 1
    BY <1>2 DEF IInv, Alone
  <2> QED BY <1>2, <2>1
<1>5. k \in Live => \A j \in DOMAIN channel' :
        channel'[j].kind \in Live => channel'[j].call # Head(channel).call
  BY <1>1, <1>2 DEF IInv, Alone
<1> QED BY <1>1, <1>2, <1>3, <1>4, <1>5

\* A reduction of the nucleus leaves responses, chain and network alone.
LEMMA NucleusKeeps ==
  ASSUME IInv, NEW k, Receive(k), Persist,
         UNCHANGED <<commits, publishes, chain, published>>,
         running' \subseteq Calls, queued' \in Seq(Calls), IsInjective(queued'),
         ToSet(queued') \cap running' = {}, results' \subseteq ActionRecord,
         ActionsPlaced', CallsPlaced', ResultsPlaced', Pool',
         \A r \in results' \ results : r.of = "ok" /\ r.call \in Authors => Done(r.call)
  PROVE  IInv'
<1>1. /\ channel' \in Seq(ActionRecord)
      /\ \A j \in DOMAIN channel' :
           j + 1 \in DOMAIN channel /\ channel'[j] = channel[j + 1]
      /\ Alone'
      /\ UNCHANGED <<caller, thread, awaits, crashes>>
  BY ReceiveFacts
<1>2. /\ saved' \in Seq(Header) /\ saveFailed' \in BOOLEAN
      /\ SavedIsChain' /\ PublishedIsSaved'
      /\ \A c : /\ Stored(c) => Stored(c)'
                /\ ContentSent(c) => ContentSent(c)'
                /\ Done(c) => Done(c)'
  BY PersistKeeps, ElementTypes
<1>3. TypeOK'
  BY <1>1, <1>2 DEF IInv, TypeOK
<1>4. ResponsesPlaced' /\ ChainIsPast' /\ CommitsOnce' /\ PrivateStaysHome'
  <2>1. PrivateStaysHome'
    BY PrivateStays DEF IInv, Persist
  <2> QED BY <1>1, <2>1 DEF IInv, ResponsesPlaced, ChainIsPast, CommitsOnce
<1>5. ThreadsProgress' /\ ResponsesProgress'
  BY <1>1, <1>2 DEF IInv, ThreadsProgress, ResponsesProgress
<1>6. SuccessIsDone'
  BY <1>1, <1>2 DEF IInv, SuccessIsDone
<1> QED BY <1>1, <1>2, <1>3, <1>4, <1>5, <1>6 DEF IInv

\* A queued call is run if there is a place.
LEMMA ReduceQueueKeeps ==
  ASSUME IInv, ReduceQueueZomeFunctionCall
  PROVE  IInv'
<1> DEFINE c == Head(channel).call
<1>1. /\ Receive("queue") /\ Persist
      /\ UNCHANGED <<results, commits, publishes, chain, published>>
      /\ \/ /\ Cardinality(running) < MaxZomeCalls
            /\ running' = running \cup {c} /\ queued' = queued
         \/ /\ ~(Cardinality(running) < MaxZomeCalls)
            /\ queued' = Append(queued, c) /\ running' = running
  BY DEF ReduceQueueZomeFunctionCall, responses
<1>2. /\ c \in Calls /\ Placed(Head(channel)) /\ Head(channel).kind = "queue"
      /\ \A j \in DOMAIN channel' :
           /\ j + 1 \in DOMAIN channel /\ channel'[j] = channel[j + 1]
           /\ channel'[j].kind \in Live => channel'[j].call # c
      /\ UNCHANGED <<caller, thread, awaits, crashes>>
  BY <1>1, ReceiveFacts DEF Live
<1>3. caller[c] = "waiting" /\ c \notin running /\ c \notin ToSet(queued)
  BY <1>2 DEF Placed
<1> HIDE DEF c
<1>4. /\ queued \in Seq(Calls) /\ IsInjective(queued) /\ ToSet(queued) \cap running = {}
      /\ running \subseteq Calls /\ IsFiniteSet(running) /\ Cardinality(running) \in Nat
  BY FS_CardinalityType DEF IInv, TypeOK, Pool
<1>5. /\ running' \subseteq Calls /\ queued' \in Seq(Calls) /\ IsInjective(queued')
      /\ ToSet(queued') \cap running' = {}
      /\ running' \cup ToSet(queued') = running \cup ToSet(queued) \cup {c}
      /\ running \subseteq running' /\ ToSet(queued') \subseteq ToSet(queued) \cup {c}
  <2>1. CASE running' = running \cup {c} /\ queued' = queued
    BY <1>2, <1>3, <1>4, <2>1
  <2>2. CASE queued' = Append(queued, c) /\ running' = running
    <3>1. /\ queued' \in Seq(Calls) /\ Len(queued) \in Nat
          /\ DOMAIN queued = 1..Len(queued)
          /\ DOMAIN queued' = 1..(Len(queued) + 1)
          /\ \A i \in DOMAIN queued : queued'[i] = queued[i]
          /\ queued'[Len(queued) + 1] = c
      BY <1>2, <1>4, <2>2, AppendFacts
    <3>2. ToSet(queued') = ToSet(queued) \cup {c}
      BY <3>1 DEF ToSet
    <3>3. \A i \in DOMAIN queued : queued[i] # c
      BY <1>3 DEF ToSet
    <3>4. IsInjective(queued')
      BY <1>4, <3>1, <3>3 DEF IsInjective
    <3> QED BY <1>3, <1>4, <2>2, <3>1, <3>2, <3>4
  <2> QED BY <1>1, <2>1, <2>2 DEF c
<1>6. Pool'
  <2>1. /\ Cardinality(running) =< MaxZomeCalls
        /\ queued # << >> => Cardinality(running) = MaxZomeCalls
        /\ MaxZomeCalls \in Nat
    BY PoolAssumption DEF IInv, Pool, PoolIsUsed
  <2>2. CASE Cardinality(running) < MaxZomeCalls /\ running' = running \cup {c} /\ queued' = queued
    <3>1. IsFiniteSet(running') /\ Cardinality(running') = Cardinality(running) + 1
      BY <1>3, <1>4, <2>2, FS_AddElement
    <3>2. queued' = << >>
      BY <1>4, <2>1, <2>2
    <3> QED BY <1>4, <2>1, <2>2, <3>1, <3>2 DEF Pool, PoolIsUsed
  <2>3. CASE ~(Cardinality(running) < MaxZomeCalls) /\ running' = running
    BY <1>4, <2>1, <2>3 DEF Pool, PoolIsUsed
  <2> QED BY <1>1, <2>2, <2>3 DEF c
<1>7. ActionsPlaced'
  <2> SUFFICES ASSUME NEW j \in DOMAIN channel' PROVE Placed(channel[j])'
    BY DEF ActionsPlaced
  <2>1. Placed(channel[j + 1])
    BY <1>2 DEF IInv, ActionsPlaced
  <2> QED BY <1>2, <1>5, <2>1 DEF Placed, Live, Working
<1>8. CallsPlaced'
  BY <1>2, <1>3, <1>5 DEF IInv, CallsPlaced
<1>9. ResultsPlaced'
  <2>1. \A r \in results : r.call # c
    BY <1>3 DEF IInv, ResultsPlaced, Outcome
  <2> QED BY <1>1, <1>2, <1>5, <2>1 DEF IInv, ResultsPlaced
<1>10. results' \subseteq ActionRecord
  BY <1>1 DEF IInv, TypeOK
<1> QED BY <1>1, <1>5, <1>6, <1>7, <1>8, <1>9, <1>10, NucleusKeeps

\* A call returns and its place is given to the first call in the queue.
LEMMA ReduceReturnKeeps ==
  ASSUME IInv, ReduceReturn
  PROVE  IInv'
<1> DEFINE a == Head(channel)
<1>1. /\ Receive("return") /\ Persist
      /\ UNCHANGED <<commits, publishes, chain, published>>
      /\ results' = results \cup {a}
      /\ \/ queued = << >> /\ running' = running \ {a.call} /\ queued' = queued
         \/ /\ queued # << >>
            /\ running' = (running \ {a.call}) \cup {Head(queued)}
            /\ queued' = Tail(queued)
  BY DEF ReduceReturn, responses
<1>2. /\ a \in ActionRecord /\ a.call \in Calls /\ Placed(a) /\ a.kind = "return"
      /\ 1 \in DOMAIN channel /\ a = channel[1]
      /\ \A j \in DOMAIN channel' :
           /\ j + 1 \in DOMAIN channel /\ channel'[j] = channel[j + 1]
           /\ channel'[j].kind \in Live => channel'[j].call # a.call
      /\ UNCHANGED <<caller, thread, awaits, crashes>>
  BY <1>1, ReceiveFacts DEF Live
<1>3. caller[a.call] = "spawned" /\ thread[a.call] = "none" /\ a.call \in running /\ a.of \in Outcome
  BY <1>2 DEF Placed
<1>4. a.of = "ok" /\ a.call \in Authors => Done(a.call)
  BY <1>2 DEF IInv, SuccessIsDone
<1>5. /\ queued \in Seq(Calls) /\ IsInjective(queued) /\ ToSet(queued) \cap running = {}
      /\ running \subseteq Calls /\ IsFiniteSet(running) /\ Cardinality(running) \in Nat
      /\ Cardinality(running) =< MaxZomeCalls /\ MaxZomeCalls \in Nat
      /\ queued # << >> => Cardinality(running) = MaxZomeCalls
  BY FS_CardinalityType, PoolAssumption DEF IInv, TypeOK, Pool, PoolIsUsed
<1> HIDE DEF a
<1>6. /\ IsFiniteSet(running \ {a.call})
      /\ Cardinality(running \ {a.call}) = Cardinality(running) - 1
  BY <1>3, <1>5, FS_RemoveElement
<1>7. /\ running' \subseteq Calls /\ queued' \in Seq(Calls) /\ IsInjective(queued')
      /\ ToSet(queued') \cap running' = {}
      /\ running \ {a.call} \subseteq running'
      /\ running' \subseteq (running \ {a.call}) \cup ToSet(queued)
      /\ ToSet(queued') \subseteq ToSet(queued)
      /\ Pool'
  <2>1. CASE queued = << >> /\ running' = running \ {a.call} /\ queued' = queued
    BY <1>5, <1>6, <2>1 DEF Pool, PoolIsUsed
  <2>2. CASE /\ queued # << >>
             /\ running' = (running \ {a.call}) \cup {Head(queued)}
             /\ queued' = Tail(queued)
    <3>1. /\ queued' \in Seq(Calls) /\ 1 \in DOMAIN queued /\ Head(queued) = queued[1]
          /\ Head(queued) \in Calls
          /\ \A i \in DOMAIN queued' :
               i + 1 \in DOMAIN queued /\ i + 1 # 1 /\ queued'[i] = queued[i + 1]
          /\ DOMAIN queued' \subseteq Nat
      BY <1>5, <2>2, Consumed
    <3>2. Head(queued) \in ToSet(queued) /\ ToSet(queued') \subseteq ToSet(queued)
      BY <3>1 DEF ToSet
    <3>3. Head(queued) \notin ToSet(queued')
      BY <1>5, <3>1 DEF ToSet, IsInjective
    <3>4. IsInjective(queued')
      <4> SUFFICES ASSUME NEW i \in DOMAIN queued', NEW j \in DOMAIN queued',
                          queued'[i] = queued'[j]
                   PROVE  i = j
        BY DEF IsInjective
      <4>1. i + 1 = j + 1
        BY <1>5, <3>1 DEF IsInjective
      <4> QED BY <3>1, <4>1
    <3>5. Head(queued) \notin running \ {a.call}
      BY <1>5, <3>2
    <3>6. IsFiniteSet(running') /\ Cardinality(running') = Cardinality(running)
      <4> DEFINE rest == running \ {a.call}
      <4>1. IsFiniteSet(rest) /\ Cardinality(rest) = Cardinality(running) - 1
        BY <1>6
      <4>2. Head(queued) \notin rest /\ running' = rest \cup {Head(queued)}
        BY <2>2, <3>5
      <4> HIDE DEF rest
      <4>3. IsFiniteSet(running') /\ Cardinality(running') = Cardinality(rest) + 1
        BY <4>1, <4>2, FS_AddElement
      <4> QED BY <1>5, <4>1, <4>3
    <3>7. Pool'
      BY <1>5, <2>2, <3>6 DEF Pool, PoolIsUsed
    <3> QED BY <1>5, <2>2, <3>1, <3>2, <3>3, <3>4, <3>7
  <2> QED BY <1>1, <2>1, <2>2 DEF a
<1>8. a.call \notin running' \cup ToSet(queued')
  BY <1>3, <1>5, <1>7
<1>9. ActionsPlaced'
  <2> SUFFICES ASSUME NEW j \in DOMAIN channel' PROVE Placed(channel[j])'
    BY DEF ActionsPlaced
  <2>1. Placed(channel[j + 1])
    BY <1>2 DEF IInv, ActionsPlaced
  <2> QED BY <1>2, <1>7, <2>1 DEF Placed, Live, Working
<1>10. CallsPlaced'
  BY <1>2, <1>3, <1>7 DEF IInv, CallsPlaced
<1>11. ResultsPlaced'
  BY <1>1, <1>2, <1>3, <1>7, <1>8 DEF IInv, ResultsPlaced, a
<1>12. /\ results' \subseteq ActionRecord
       /\ \A r \in results' \ results : r.of = "ok" /\ r.call \in Authors => Done(r.call)
  BY <1>1, <1>2, <1>4 DEF IInv, TypeOK, a
<1> QED BY <1>1, <1>7, <1>9, <1>10, <1>11, <1>12, NucleusKeeps

\* Clearing a call that has ended takes no place and no queued call away.
LEMMA ReduceClearCallKeeps ==
  ASSUME IInv, ReduceClearZomeFunctionCall
  PROVE  IInv'
<1> DEFINE c == Head(channel).call
<1>1. /\ Receive("clearCall") /\ Persist
      /\ UNCHANGED <<commits, publishes, chain, published>>
      /\ queued' = RemoveFirst(queued, c) /\ running' = running \ {c}
      /\ results' = {r \in results : r.call # c}
  BY DEF ReduceClearZomeFunctionCall, responses
<1>2. /\ c \in Calls /\ Placed(Head(channel)) /\ Head(channel).kind = "clearCall"
      /\ \A j \in DOMAIN channel' : j + 1 \in DOMAIN channel /\ channel'[j] = channel[j + 1]
      /\ UNCHANGED <<caller, thread, awaits, crashes>>
  BY <1>1, ReceiveFacts
<1>3. caller[c] \in Outcome
  BY <1>2 DEF Placed
<1> HIDE DEF c
<1>4. c \notin running /\ c \notin ToSet(queued)
  BY <1>2, <1>3 DEF IInv, CallsPlaced, Outcome
<1>5. running' = running
  BY <1>1, <1>4 DEF c
<1>6. queued' = queued
  <2>1. DOMAIN queued = 1..Len(queued)
    BY LenProperties DEF IInv, TypeOK
  <2>2. ~\E i \in 1..Len(queued) : queued[i] = c
    BY <1>4, <2>1 DEF ToSet
  <2>3. RemoveFirst(queued, c) = queued
    BY <2>2, Zenon DEF RemoveFirst
  <2> QED BY <1>1, <2>3 DEF c
<1>7. ActionsPlaced'
  <2> SUFFICES ASSUME NEW j \in DOMAIN channel' PROVE Placed(channel[j])'
    BY DEF ActionsPlaced
  <2>1. Placed(channel[j + 1])
    BY <1>2 DEF IInv, ActionsPlaced
  <2> QED BY <1>2, <1>5, <1>6, <2>1 DEF Placed
<1>8. CallsPlaced' /\ ResultsPlaced' /\ Pool'
  BY <1>1, <1>2, <1>5, <1>6 DEF IInv, CallsPlaced, ResultsPlaced, Pool, PoolIsUsed
<1>9. /\ results' \subseteq ActionRecord
      /\ \A r \in results' \ results : r.of = "ok" /\ r.call \in Authors => Done(r.call)
  BY <1>1 DEF IInv, TypeOK
<1>10. /\ running' \subseteq Calls /\ queued' \in Seq(Calls) /\ IsInjective(queued')
       /\ ToSet(queued') \cap running' = {}
  BY <1>5, <1>6 DEF IInv, TypeOK
<1> QED BY <1>1, <1>7, <1>8, <1>9, <1>10, NucleusKeeps

\* A reduction of the agent or network state leaves the nucleus alone.
LEMMA ResponseKeeps ==
  ASSUME IInv, NEW k, Receive(k), Persist, UNCHANGED <<running, queued, results>>,
         chain' \in Seq(Header),
         \A n \in DOMAIN chain : n \in DOMAIN chain' /\ chain'[n] = chain[n],
         published \subseteq published',
         published' \subseteq [what : {"content", "meta", "header"}, at : Nat, header : Header],
         \A q \in published' \ published : q.at \in DOMAIN chain' /\ chain'[q.at] = q.header,
         commits' \subseteq ActionRecord, publishes' \subseteq ActionRecord,
         ResponsesPlaced', ChainIsPast', CommitsOnce', PrivateStaysHome', ResponsesProgress'
  PROVE  IInv'
<1>1. /\ channel' \in Seq(ActionRecord)
      /\ \A j \in DOMAIN channel' :
           j + 1 \in DOMAIN channel /\ channel'[j] = channel[j + 1]
      /\ Alone'
      /\ UNCHANGED <<caller, thread, awaits, crashes>>
  BY ReceiveFacts
<1>2. /\ saved' \in Seq(Header) /\ saveFailed' \in BOOLEAN
      /\ SavedIsChain' /\ PublishedIsSaved'
      /\ \A c : /\ Stored(c) => Stored(c)'
                /\ ContentSent(c) => ContentSent(c)'
                /\ Done(c) => Done(c)'
  BY PersistKeeps
<1>3. TypeOK'
  BY <1>1, <1>2 DEF IInv, TypeOK
<1>4. ActionsPlaced'
  BY <1>1 DEF IInv, ActionsPlaced, Placed
<1>5. CallsPlaced' /\ ResultsPlaced' /\ Pool'
  BY <1>1 DEF IInv, CallsPlaced, ResultsPlaced, Pool, PoolIsUsed
<1>6. ThreadsProgress'
  BY <1>1, <1>2 DEF IInv, ThreadsProgress
<1>7. SuccessIsDone'
  BY <1>1, <1>2 DEF IInv, SuccessIsDone
<1> QED BY <1>1, <1>2, <1>3, <1>4, <1>5, <1>6, <1>7 DEF IInv

\* The response to an action that is taken off the channel.
LEMMA RespondPlaced ==
  ASSUME IInv, NEW k \in Working, Receive(k),
         \A r \in commits' \cup publishes' :
           \/ r \in commits \cup publishes
           \/ r.kind = k /\ r.call = Head(channel).call /\ r.of \in Outcome
  PROVE  /\ Head(channel).call \in Authors /\ thread[Head(channel).call] = k
         /\ caller[Head(channel).call] = "spawned"
         /\ ResponsesPlaced'
         /\ 1 \in DOMAIN channel /\ channel[1] = Head(channel) /\ channel[1].kind = k
         /\ EntryOf[Head(channel).call] \in Entries
         /\ k = "publish" => EntryOf[Head(channel).call] \notin Private
<1> DEFINE c == Head(channel).call
<1>1. /\ c \in Calls /\ Placed(Head(channel)) /\ Head(channel).kind = k
      /\ 1 \in DOMAIN channel /\ channel[1] = Head(channel)
      /\ \A j \in DOMAIN channel' :
           /\ j + 1 \in DOMAIN channel /\ channel'[j] = channel[j + 1]
           /\ channel'[j].kind \in Live => channel'[j].call # c
      /\ UNCHANGED <<caller, thread, awaits, crashes>>
  BY ReceiveFacts DEF Live
<1>2. thread[c] = k /\ k # "none"
  BY <1>1 DEF Placed, Working
<1>3. c \in Authors /\ caller[c] = "spawned" /\ (k = "publish" => EntryOf[c] \notin Private)
  BY <1>1, <1>2 DEF IInv, CallsPlaced
<1> HIDE DEF c
<1>4. ResponsesPlaced'
  <2> SUFFICES ASSUME NEW r \in commits' \cup publishes'
               PROVE  /\ r.kind \in Working /\ r.of \in Outcome /\ r.call \in Authors
                      /\ caller'[r.call] \in {"spawned"} \cup Outcome
                      /\ r.kind \notin After(thread'[r.call])
                      /\ \A i \in DOMAIN channel' :
                           ~(channel'[i].kind = r.kind /\ channel'[i].call = r.call)
    BY DEF ResponsesPlaced
  <2>1. CASE r \in commits \cup publishes
    BY <1>1, <2>1 DEF IInv, ResponsesPlaced
  <2>2. CASE r.kind = k /\ r.call = c /\ r.of \in Outcome
    <3>1. k \notin After(k)
      BY DEF After, Working
    <3> QED BY <1>1, <1>2, <1>3, <2>2, <3>1 DEF Live
  <2> QED BY <2>1, <2>2 DEF c
<1>5. EntryOf[c] \in Entries
  BY <1>3, CallsAssumption
<1> QED BY <1>1, <1>2, <1>3, <1>4, <1>5 DEF c

\* A response record.
LEMMA RespondFacts ==
  ASSUME NEW c \in Calls, NEW k \in Working, NEW how \in Outcome
  PROVE  /\ Respond(c, k, how) \subseteq ActionRecord
         /\ \A r \in Respond(c, k, how) : r.kind = k /\ r.call = c /\ r.of = how
<1>1. k \in Kind
  BY DEF Working, Kind
<1>2. [kind |-> k, call |-> c, of |-> how] \in ActionRecord
  BY <1>1 DEF ActionRecord
<1> QED BY <1>2 DEF Respond

\* An entry is committed, or cannot be signed.
LEMMA ReduceCommitKeeps ==
  ASSUME IInv, ReduceCommit
  PROVE  IInv'
<1>1. /\ Receive("commit") /\ Persist
      /\ UNCHANGED <<running, queued, results, publishes, published>>
  BY DEF ReduceCommit, nucleus
<1>c. PICK c \in Calls : c = Head(channel).call
  BY <1>1, ReceiveFacts
<1> DEFINE h == [entry |-> EntryOf[c], call |-> c]
<1>2. PICK how \in Outcome :
        /\ commits' = commits \cup Respond(c, "commit", how)
        /\ how = "ok" => chain' = Append(chain, h)
        /\ how = "error" => chain' = chain
  BY <1>c DEF ReduceCommit, Outcome
<1>3. /\ Respond(c, "commit", how) \subseteq ActionRecord
      /\ \A r \in Respond(c, "commit", how) : r.kind = "commit" /\ r.call = c /\ r.of = how
  BY RespondFacts DEF Working
<1>4. /\ c \in Authors /\ thread[c] = "commit" /\ caller[c] = "spawned" /\ ResponsesPlaced'
      /\ 1 \in DOMAIN channel /\ channel[1].kind = "commit" /\ channel[1].call = c
      /\ EntryOf[c] \in Entries
  BY <1>1, <1>2, <1>3, <1>c, RespondPlaced DEF Working
<1>5. /\ \A j \in DOMAIN channel' :
           /\ j + 1 \in DOMAIN channel /\ channel'[j] = channel[j + 1]
           /\ channel'[j].kind \in Live => channel'[j].call # c
      /\ UNCHANGED <<caller, thread, awaits, crashes>>
  BY <1>1, <1>c, ReceiveFacts DEF Live, Working
<1>6. h \in Header /\ h.entry = EntryOf[c] /\ h.call = c
  BY <1>4 DEF Header
<1> HIDE DEF h
<1>7. /\ chain' \in Seq(Header)
      /\ \A n \in DOMAIN chain : n \in DOMAIN chain' /\ chain'[n] = chain[n]
      /\ \A n \in DOMAIN chain' :
           \/ n \in DOMAIN chain /\ chain'[n] = chain[n]
           \/ n \notin DOMAIN chain /\ n = Len(chain) + 1 /\ chain'[n] = h
      /\ how = "ok" => Len(chain) + 1 \in DOMAIN chain' /\ chain'[Len(chain) + 1] = h
  <2>1. CASE how = "ok"
    <3>1. chain' = Append(chain, h) /\ chain \in Seq(Header)
      BY <1>2, <2>1, ElementTypes DEF h
    <3> QED BY <1>6, <3>1, AppendFacts
  <2>2. CASE how = "error"
    BY <1>2, <2>2, ElementTypes
  <2> QED BY <2>1, <2>2 DEF Outcome
<1>8. \A n \in DOMAIN chain : chain[n].call # c
  BY <1>4 DEF IInv, ChainIsPast
<1>9. CommitsOnce'
  BY <1>6, <1>7, <1>8 DEF IInv, CommitsOnce
<1>10. ChainIsPast'
  <2> SUFFICES ASSUME NEW n \in DOMAIN chain'
               PROVE  /\ caller[chain'[n].call] \notin {"idle", "waiting"}
                      /\ thread[chain'[n].call] \notin {"start", "package"}
                      /\ \A i \in DOMAIN channel' :
                           ~(channel'[i].kind = "commit" /\ channel'[i].call = chain'[n].call)
    BY <1>5 DEF ChainIsPast
  <2>1. CASE n \in DOMAIN chain /\ chain'[n] = chain[n]
    BY <1>5, <2>1 DEF IInv, ChainIsPast
  <2>2. CASE chain'[n] = h
    BY <1>4, <1>5, <1>6, <2>2 DEF Live, Working
  <2> QED BY <1>7, <2>1, <2>2
<1>11. ResponsesProgress'
  <2>1. \A d : /\ Stored(d) => Stored(d)'
               /\ ContentSent(d) => ContentSent(d)'
               /\ Done(d) => Done(d)'
    BY <1>1, <1>7, PersistKeeps
  <2>2. how = "ok" => OnChain(EntryOf[c])'
    BY <1>6, <1>7 DEF OnChain
  <2>3. how = "ok" => Stored(c)'
    BY <2>2 DEF Stored
  <2> SUFFICES ASSUME NEW r \in commits' \cup publishes', r.of = "ok"
               PROVE  /\ Stored(r.call)'
                      /\ r.kind = "publish" => ContentSent(r.call)'
                      /\ r.kind = "header" => Done(r.call)'
    BY DEF ResponsesProgress
  <2>4. CASE r \in commits \cup publishes
    BY <2>1, <2>4 DEF IInv, ResponsesProgress
  <2>5. CASE r \in Respond(c, "commit", how)
    BY <1>3, <2>3, <2>5
  <2> QED BY <1>1, <1>2, <2>4, <2>5
<1>12. /\ commits' \subseteq ActionRecord /\ publishes' \subseteq ActionRecord
       /\ published' \subseteq [what : {"content", "meta", "header"}, at : Nat, header : Header]
       /\ PrivateStaysHome'
  <2>1. PrivateStaysHome'
    BY <1>1, <1>7, PrivateStays DEF IInv, Persist
  <2> QED BY <1>1, <1>2, <1>3, <2>1 DEF IInv, TypeOK
<1> QED BY <1>1, <1>4, <1>7, <1>9, <1>10, <1>11, <1>12, ResponseKeeps

\* What the two reductions that publish have in common: aspects of the entry of
\* the action are sent, and the response tells whether all were.
LEMMA PublishKeeps ==
  ASSUME IInv, NEW k \in {"publish", "header"}, Receive(k), Persist,
         UNCHANGED <<running, queued, results, commits, chain>>,
         NEW c \in Calls, c = Head(channel).call, NEW how \in Outcome,
         publishes' = publishes \cup Respond(c, k, how),
         NEW W \in SUBSET {"content", "meta", "header"},
         published' = published \cup {Aspect(w, EntryOf[c]) : w \in W},
         W # {} => OnChain(EntryOf[c]),
         k = "header" => W \subseteq {"header"},
         how = "ok" => IF k = "header" THEN "header" \in W
                       ELSE "content" \in W /\ (EntryOf[c] \in HasMeta => "meta" \in W)
  PROVE  IInv'
<1> DEFINE e == EntryOf[c]
<1>1. /\ Respond(c, k, how) \subseteq ActionRecord
      /\ \A r \in Respond(c, k, how) : r.kind = k /\ r.call = c /\ r.of = how
  BY RespondFacts DEF Working
<1>2. /\ c \in Authors /\ thread[c] = k /\ ResponsesPlaced'
      /\ k = "publish" => e \notin Private
  BY <1>1, RespondPlaced DEF Working
<1>3. ASSUME NEW w \in W
      PROVE  /\ Aspect(w, e) \in [what : {"content", "meta", "header"}, at : Nat, header : Header]
             /\ Aspect(w, e).what = w /\ Aspect(w, e).header.entry = e
             /\ Aspect(w, e).at \in DOMAIN chain
             /\ chain[Aspect(w, e).at] = Aspect(w, e).header
  <2>1. w \in {"content", "meta", "header"} /\ OnChain(e) /\ chain \in Seq(Header)
    BY <1>3, ElementTypes
  <2> HIDE DEF e
  <2> QED BY <2>1, AspectFacts
<1> DEFINE New == {Aspect(w, e) : w \in W}
<1>4. \A q \in New :
        /\ q \in [what : {"content", "meta", "header"}, at : Nat, header : Header]
        /\ q.what \in W /\ q.header.entry = e
        /\ q.at \in DOMAIN chain /\ chain[q.at] = q.header
  BY <1>3
<1>5. \A w \in W : w \in Sent(e)'
  <2> SUFFICES ASSUME NEW w \in W PROVE \E q \in published' : q.header.entry = e /\ q.what = w
    BY DEF Sent
  <2>1. Aspect(w, e) \in published'
    OBVIOUS
  <2> QED BY <1>3, <2>1
<1>6. published' = published \cup New
  OBVIOUS
<1> HIDE DEF New, e
<1>7. PrivateStaysHome'
  <2> SUFFICES ASSUME NEW q \in published', q.header.entry \in Private
               PROVE  /\ q.what # "meta"
                      /\ q.what = "content" =>
                           saveFailed' \/ \E n \in DOMAIN chain' : HasMetaAbout(n, q.header.entry)'
    BY DEF PrivateStaysHome
  <2>1. CASE q \in published
    BY <2>1, PrivateKept DEF IInv, Persist, disk
  <2>2. CASE q \in New
    <3>1. q.what = "header"
      BY <1>2, <1>4, <2>2
    <3> QED BY <3>1
  <2> QED BY <1>6, <2>1, <2>2
<1>8. \A d : /\ Stored(d) => Stored(d)'
             /\ ContentSent(d) => ContentSent(d)'
             /\ Done(d) => Done(d)'
  BY <1>4, <1>6, PersistKeeps, ElementTypes
<1>9. ResponsesProgress'
  <2> SUFFICES ASSUME NEW r \in commits' \cup publishes', r.of = "ok"
               PROVE  /\ Stored(r.call)'
                      /\ r.kind = "publish" => ContentSent(r.call)'
                      /\ r.kind = "header" => Done(r.call)'
    BY DEF ResponsesProgress
  <2>1. CASE r \in commits \cup publishes
    BY <1>8, <2>1 DEF IInv, ResponsesProgress
  <2>2. CASE r \in Respond(c, k, how)
    <3>1. r.kind = k /\ r.call = c /\ how = "ok"
      BY <1>1, <2>2
    <3>2. Stored(c)' /\ (k = "header" => ContentSent(c)')
      BY <1>2, <1>8 DEF IInv, ThreadsProgress
    <3>3. k = "publish" => ContentSent(c)'
      BY <1>5, <3>1 DEF ContentSent, e
    <3>4. k = "header" => Done(c)'
      BY <1>5, <3>1, <3>2 DEF Done, e
    <3> QED BY <3>1, <3>2, <3>3, <3>4
  <2> QED BY <2>1, <2>2
<1>10. ChainIsPast' /\ CommitsOnce'
  <2>1. /\ \A j \in DOMAIN channel' :
             j + 1 \in DOMAIN channel /\ channel'[j] = channel[j + 1]
        /\ UNCHANGED <<caller, thread, awaits, crashes>>
    BY ReceiveFacts
  <2> QED BY <2>1 DEF IInv, ChainIsPast, CommitsOnce
<1>11. /\ commits' \subseteq ActionRecord /\ publishes' \subseteq ActionRecord
       /\ published \subseteq published'
       /\ published' \subseteq [what : {"content", "meta", "header"}, at : Nat, header : Header]
       /\ \A q \in published' \ published : q.at \in DOMAIN chain' /\ chain'[q.at] = q.header
       /\ chain' \in Seq(Header)
       /\ \A n \in DOMAIN chain : n \in DOMAIN chain' /\ chain'[n] = chain[n]
  BY <1>1, <1>4, <1>6 DEF IInv, TypeOK
<1> QED BY <1>2, <1>7, <1>9, <1>10, <1>11, ResponseKeeps

\* The entry is published: the content, then a second aspect for some types.
LEMMA ReducePublishKeeps ==
  ASSUME IInv, ReducePublish
  PROVE  IInv'
<1>1. /\ Receive("publish") /\ Persist
      /\ UNCHANGED <<running, queued, results, commits, chain>>
  BY DEF ReducePublish, nucleus
<1>2. PICK c \in Calls : c = Head(channel).call
  BY <1>1, ReceiveFacts
<1> DEFINE e == EntryOf[c]
           A(W) == {Aspect(w, e) : w \in W}
<1>3. /\ A({}) = {} /\ A({"content"}) = {Aspect("content", e)}
      /\ A({"content", "meta"}) = {Aspect("content", e), Aspect("meta", e)}
  OBVIOUS
<1>4. CASE /\ OnChain(e) /\ e \in HasMeta
           /\ published' = published \cup ({Aspect("content", e)} \cup {Aspect("meta", e)})
           /\ publishes' = publishes \cup Respond(c, "publish", "ok")
  <2>1. published' = published \cup A({"content", "meta"})
    BY <1>3, <1>4
  <2> QED BY <1>1, <1>2, <1>4, <2>1, PublishKeeps DEF Outcome
<1>5. CASE /\ OnChain(e) /\ e \notin HasMeta
           /\ published' = published \cup ({Aspect("content", e)} \cup {})
           /\ publishes' = publishes \cup Respond(c, "publish", "ok")
  <2>1. published' = published \cup A({"content"})
    BY <1>3, <1>5
  <2> QED BY <1>1, <1>2, <1>5, <2>1, PublishKeeps DEF Outcome
<1>6. CASE /\ OnChain(e)
           /\ published' = published \cup {Aspect("content", e)}
           /\ publishes' = publishes \cup Respond(c, "publish", "error")
  <2>1. published' = published \cup A({"content"})
    BY <1>3, <1>6
  <2> QED BY <1>1, <1>2, <1>6, <2>1, PublishKeeps DEF Outcome
<1>7. CASE published' = published /\ publishes' = publishes \cup Respond(c, "publish", "error")
  <2>1. published' = published \cup A({})
    BY <1>3, <1>7
  <2> QED BY <1>1, <1>2, <1>7, <2>1, PublishKeeps DEF Outcome
<1> HIDE DEF A
<1> QED BY <1>2, <1>4, <1>5, <1>6, <1>7 DEF ReducePublish

\* The header is published, also that of a private entry.
LEMMA ReducePublishHeaderKeeps ==
  ASSUME IInv, ReducePublishHeaderEntry
  PROVE  IInv'
<1>1. /\ Receive("header") /\ Persist
      /\ UNCHANGED <<running, queued, results, commits, chain>>
  BY DEF ReducePublishHeaderEntry, nucleus
<1>2. PICK c \in Calls : c = Head(channel).call
  BY <1>1, ReceiveFacts
<1> DEFINE e == EntryOf[c]
           A(W) == {Aspect(w, e) : w \in W}
<1>3. A({}) = {} /\ A({"header"}) = {Aspect("header", e)}
  OBVIOUS
<1>4. CASE /\ OnChain(e)
           /\ published' = published \cup {Aspect("header", e)}
           /\ publishes' = publishes \cup Respond(c, "header", "ok")
  <2>1. published' = published \cup A({"header"})
    BY <1>3, <1>4
  <2> QED BY <1>1, <1>2, <1>4, <2>1, PublishKeeps DEF Outcome
<1>5. CASE published' = published /\ publishes' = publishes \cup Respond(c, "header", "error")
  <2>1. published' = published \cup A({})
    BY <1>3, <1>5
  <2> QED BY <1>1, <1>2, <1>5, <2>1, PublishKeeps DEF Outcome
<1> HIDE DEF A
<1> QED BY <1>2, <1>4, <1>5 DEF ReducePublishHeaderEntry

\* Clearing takes responses away: all but one of the agent's, one of the network's.
LEMMA ReduceClearResponseKeeps ==
  ASSUME IInv, ReduceClearActionResponse
  PROVE  IInv'
<1>1. /\ Receive("clear") /\ Persist
      /\ UNCHANGED <<running, queued, results, chain, published>>
      /\ commits' \subseteq commits /\ publishes' \subseteq publishes
  BY DEF ReduceClearActionResponse, nucleus
<1>2. /\ \A j \in DOMAIN channel' :
           j + 1 \in DOMAIN channel /\ channel'[j] = channel[j + 1]
      /\ UNCHANGED <<caller, thread, awaits, crashes>>
  BY <1>1, ReceiveFacts
<1>3. \A d : /\ Stored(d) => Stored(d)'
             /\ ContentSent(d) => ContentSent(d)'
             /\ Done(d) => Done(d)'
  BY <1>1, PersistKeeps, ElementTypes
<1>4. ResponsesPlaced' /\ ChainIsPast'
  BY <1>1, <1>2 DEF IInv, ResponsesPlaced, ChainIsPast
<1>5. CommitsOnce' /\ PrivateStaysHome'
  <2>1. PrivateStaysHome'
    BY <1>1, PrivateStays DEF IInv, Persist
  <2> QED BY <1>1, <2>1 DEF IInv, CommitsOnce
<1>6. ResponsesProgress'
  BY <1>1, <1>3 DEF IInv, ResponsesProgress
<1>7. /\ commits' \subseteq ActionRecord /\ publishes' \subseteq ActionRecord
      /\ published' \subseteq [what : {"content", "meta", "header"}, at : Nat, header : Header]
      /\ chain' \in Seq(Header)
  BY <1>1 DEF IInv, TypeOK
<1> QED BY <1>1, <1>4, <1>5, <1>6, <1>7, ResponseKeeps

\* Old responses are pruned.
LEMMA ReducePruneKeeps ==
  ASSUME IInv, ReducePrune
  PROVE  IInv'
<1>1. /\ Persist /\ commits' \subseteq commits /\ publishes' \subseteq publishes
      /\ UNCHANGED <<caller, thread, awaits, channel, running, queued, results, chain, published, crashes>>
  BY DEF ReducePrune, nucleus, threads
<1>2. /\ saved' \in Seq(Header) /\ saveFailed' \in BOOLEAN
      /\ SavedIsChain' /\ PublishedIsSaved'
      /\ \A c : /\ Stored(c) => Stored(c)'
                /\ ContentSent(c) => ContentSent(c)'
                /\ Done(c) => Done(c)'
  BY <1>1, PersistKeeps, ElementTypes
<1>3. TypeOK' /\ Alone' /\ ActionsPlaced'
  BY <1>1, <1>2 DEF IInv, TypeOK, Alone, ActionsPlaced, Placed
<1>4. CallsPlaced' /\ ResultsPlaced' /\ Pool'
  BY <1>1 DEF IInv, CallsPlaced, ResultsPlaced, Pool, PoolIsUsed
<1>5. ResponsesPlaced' /\ ChainIsPast' /\ CommitsOnce' /\ PrivateStaysHome'
  <2>1. PrivateStaysHome'
    BY <1>1, PrivateStays DEF IInv, Persist
  <2> QED BY <1>1, <2>1 DEF IInv, ResponsesPlaced, ChainIsPast, CommitsOnce
<1>6. ThreadsProgress' /\ ResponsesProgress' /\ SuccessIsDone'
  BY <1>1, <1>2 DEF IInv, ThreadsProgress, ResponsesProgress, SuccessIsDone
<1> QED BY <1>2, <1>3, <1>4, <1>5, <1>6 DEF IInv

\* An entry is fetched: content and public metadata from the chain are sent.
LEMMA FetchEntryKeeps ==
  ASSUME IInv, NEW e \in Entries, FetchEntry(e)
  PROVE  IInv'
<1> DEFINE C == {n \in DOMAIN chain : chain[n].entry = e}
           M == {n \in DOMAIN chain : HasMetaAbout(n, e)}
           P == [what : {"content", "meta", "header"}, at : Nat, header : Header]
           New == {[what |-> "content", at |-> n, header |-> chain[n]] : n \in C}
                    \cup {[what |-> "meta", at |-> n, header |-> chain[n]] : n \in M}
<1>1. /\ Persist /\ published' = published \cup New
      /\ saveFailed \/ Listed(e)
      /\ UNCHANGED <<caller, thread, awaits, channel, running, queued, results, commits,
                     publishes, chain, crashes>>
  BY DEF FetchEntry, nucleus, threads, responses
<1>2. ASSUME NEW q \in New
      PROVE  /\ q \in P /\ q.at \in DOMAIN chain /\ chain[q.at] = q.header
             /\ \/ q.what = "content" /\ q.header.entry = e
                \/ q.what = "meta" /\ q.header.entry \notin Private
  <2>1. DOMAIN chain \subseteq Nat /\ \A n \in DOMAIN chain : chain[n] \in Header
    BY ElementTypes
  <2>2. CASE \E n \in C : q = [what |-> "content", at |-> n, header |-> chain[n]]
    BY <2>1, <2>2
  <2>3. CASE \E n \in M : q = [what |-> "meta", at |-> n, header |-> chain[n]]
    BY <2>1, <2>3 DEF HasMetaAbout, Public
  <2> QED BY <1>2, <2>2, <2>3
<1> HIDE DEF New
<1>3. /\ saved' \in Seq(Header) /\ saveFailed' \in BOOLEAN
      /\ SavedIsChain' /\ PublishedIsSaved'
      /\ \A c : /\ Stored(c) => Stored(c)'
                /\ ContentSent(c) => ContentSent(c)'
                /\ Done(c) => Done(c)'
  BY <1>1, <1>2, PersistKeeps, ElementTypes
<1>4. TypeOK' /\ Alone' /\ ActionsPlaced'
  BY <1>1, <1>2, <1>3 DEF IInv, TypeOK, Alone, ActionsPlaced, Placed
<1>5. CallsPlaced' /\ ResultsPlaced' /\ Pool'
  BY <1>1 DEF IInv, CallsPlaced, ResultsPlaced, Pool, PoolIsUsed
<1>6. ResponsesPlaced' /\ ChainIsPast' /\ CommitsOnce'
  BY <1>1 DEF IInv, ResponsesPlaced, ChainIsPast, CommitsOnce
<1>7. PrivateStaysHome'
  <2> SUFFICES ASSUME NEW q \in published', q.header.entry \in Private
               PROVE  /\ q.what # "meta"
                      /\ q.what = "content" =>
                           saveFailed' \/ \E n \in DOMAIN chain' : HasMetaAbout(n, q.header.entry)'
    BY DEF PrivateStaysHome
  <2>1. saveFailed => saveFailed'
    BY <1>1 DEF Persist
  <2>2. CASE q \in published
    BY <1>1, <2>1, <2>2, PrivateKept DEF IInv
  <2>3. CASE q \in New
    <3>1. q.what = "content" /\ q.header.entry = e /\ e \in Private
      BY <1>2, <2>3
    <3>2. saveFailed \/ \E n \in DOMAIN chain : HasMetaAbout(n, e)
      BY <1>1, <3>1 DEF Listed, Public
    <3>3. \A n \in DOMAIN chain : HasMetaAbout(n, e) => HasMetaAbout(n, e)'
      BY <1>1 DEF HasMetaAbout, Public
    <3> QED BY <1>1, <2>1, <3>1, <3>2, <3>3
  <2> QED BY <1>1, <2>2, <2>3
<1>8. ThreadsProgress' /\ ResponsesProgress' /\ SuccessIsDone'
  BY <1>1, <1>3 DEF IInv, ThreadsProgress, ResponsesProgress, SuccessIsDone
<1> QED BY <1>3, <1>4, <1>5, <1>6, <1>7, <1>8 DEF IInv

-----------------------------------------------------------------------------
(* A crash, and the theorems.                                              *)

\* After a crash the node goes on from the saved chain.
LEMMA CrashKeeps ==
  ASSUME IInv, CrashAndRestart
  PROVE  IInv'
<1>1. /\ crashes < MaxCrashes /\ crashes' = crashes + 1
      /\ caller' = [c \in Calls |->
                      IF caller[c] \in {"waiting", "spawned"} THEN "lost" ELSE caller[c]]
      /\ thread' = [c \in Calls |-> "none"] /\ awaits' = [c \in Calls |-> {}]
      /\ channel' = << >> /\ queued' = << >>
      /\ running' = {} /\ results' = {} /\ commits' = {} /\ publishes' = {}
      /\ chain' = saved /\ saved' = saved /\ saveFailed' = saveFailed /\ published' = published
  BY DEF CrashAndRestart, disk
<1>2. /\ \A c \in Calls : caller'[c] \notin {"waiting", "spawned"}
      /\ \A c \in Calls : caller'[c] = caller[c] \/ caller'[c] = "lost"
      /\ \A c \in Calls : thread'[c] = "none"
      /\ caller' \in [Calls -> Caller] /\ thread' \in [Calls -> Thread]
  BY <1>1 DEF IInv, TypeOK, Caller, Thread
<1>3. TypeOK'
  <2>1. IsInjective(queued') /\ ToSet(queued') \cap running' = {}
    BY <1>1 DEF IsInjective, ToSet
  <2>2. << >> \in Seq(ActionRecord) /\ << >> \in Seq(Calls)
    BY EmptySeq
  <2>3. crashes' \in 0..MaxCrashes
    BY <1>1, PoolAssumption DEF IInv, TypeOK
  <2>4. awaits' \in [Calls -> SUBSET Calls]
    BY <1>1
  <2> QED BY <1>1, <1>2, <2>1, <2>2, <2>3, <2>4 DEF IInv, TypeOK
<1>4. Alone' /\ ActionsPlaced' /\ ResultsPlaced' /\ ResponsesPlaced'
  BY <1>1 DEF Alone, ActionsPlaced, ResultsPlaced, ResponsesPlaced
<1>5. CallsPlaced'
  <2>1. ToSet(queued') = {}
    BY <1>1 DEF ToSet
  <2> QED BY <1>1, <1>2, <2>1 DEF CallsPlaced, Working
<1>6. Pool'
  BY <1>1, FS_EmptySet, PoolAssumption DEF Pool, PoolIsUsed
<1>7. \A n \in DOMAIN saved : n \in DOMAIN chain /\ saved[n] = chain[n]
  BY DEF IInv, SavedIsChain
<1>8. ChainIsPast'
  <2> SUFFICES ASSUME NEW n \in DOMAIN saved
               PROVE  /\ caller'[saved[n].call] \notin {"idle", "waiting"}
                      /\ thread'[saved[n].call] \notin {"start", "package"}
    BY <1>1 DEF ChainIsPast
  <2>1. /\ saved[n].call \in Calls
        /\ caller[saved[n].call] \notin {"idle", "waiting"}
    BY <1>7, ElementTypes DEF IInv, ChainIsPast
  <2> QED BY <1>2, <2>1
<1>9. CommitsOnce' /\ SavedIsChain' /\ PublishedIsSaved' /\ PrivateStaysHome'
  <2>1. saveFailed \/ chain' = chain
    BY <1>1 DEF IInv, SavedIsChain
  <2>2. PrivateStaysHome'
    BY <1>1, <2>1, PrivateStays DEF IInv
  <2> QED BY <1>1, <1>7, <2>2 DEF IInv, CommitsOnce, SavedIsChain, PublishedIsSaved
<1>10. ThreadsProgress' /\ ResponsesProgress'
  BY <1>1, <1>2, CallsAssumption DEF ThreadsProgress, ResponsesProgress
<1>11. SuccessIsDone'
  <2> SUFFICES ASSUME NEW c \in Authors, caller'[c] = "ok" PROVE Done(c)'
    BY <1>1 DEF SuccessIsDone
  <2>1. Done(c)
    BY <1>2, CallsAssumption DEF IInv, SuccessIsDone
  <2>2. saveFailed \/ chain' = chain
    BY <1>1 DEF IInv, SavedIsChain
  <2>3. Stored(c)'
    BY <1>1, <2>1, <2>2 DEF Done, Stored, OnChain
  <2>4. ContentSent(c)' /\ ("header" \in Sent(EntryOf[c]))'
    BY <1>1, <2>1 DEF Done, ContentSent, Sent
  <2> QED BY <2>3, <2>4 DEF Done
<1> QED BY <1>3, <1>4, <1>5, <1>6, <1>8, <1>9, <1>10, <1>11 DEF IInv

\* Every step keeps the invariant.
LEMMA NextIInv ==
  ASSUME IInv, [Next]_vars
  PROVE  IInv'
<1>1. ASSUME NEW c \in Calls, CallZomeFunction(c) PROVE IInv'
  BY <1>1, CallZomeFunctionKeeps
<1>8. ASSUME NEW c \in Calls, NEW d \in Calls, CallInner(c, d) PROVE IInv'
  BY <1>8, CallInnerKeeps
<1>9. ASSUME NEW e \in Entries, FetchEntry(e) PROVE IInv'
  BY <1>9, FetchEntryKeeps
<1>2. ASSUME NEW c \in Calls, Poll(c) PROVE IInv'
  BY <1>2, SpawnZomeFunctionKeeps, TakeCallResultKeeps DEF Poll
<1>3. ASSUME NEW c \in Calls, Step(c) PROVE IInv'
  BY <1>3, RunZomeFunctionKeeps, BuildValidationPackageKeeps, ValidateEntryKeeps,
     TakeResponseKeeps DEF Step, Working
<1>4. CASE Loop
  BY <1>4, ReduceQueueKeeps, ReduceReturnKeeps, ReduceClearCallKeeps, ReduceCommitKeeps,
     ReducePublishKeeps, ReducePublishHeaderKeeps, ReduceClearResponseKeeps DEF Loop
<1>5. CASE ReducePrune
  BY <1>5, ReducePruneKeeps
<1>6. CASE CrashAndRestart
  BY <1>6, CrashKeeps
<1>7. CASE UNCHANGED vars
  <2>1. UNCHANGED <<caller, thread, awaits, channel, running, queued, results, commits, publishes,
                    chain, saved, published, saveFailed, crashes>>
    BY <1>7 DEF vars
  <2>2. TypeOK' /\ Alone' /\ ActionsPlaced' /\ CallsPlaced' /\ ResultsPlaced'
    BY <2>1 DEF IInv, TypeOK, Alone, ActionsPlaced, Placed, CallsPlaced, ResultsPlaced
  <2>3. ResponsesPlaced' /\ ChainIsPast'
    BY <2>1 DEF IInv, ResponsesPlaced, ChainIsPast
  <2>4. ThreadsProgress' /\ ResponsesProgress' /\ SuccessIsDone'
    BY <2>1, SameProgress DEF IInv, ThreadsProgress, ResponsesProgress, SuccessIsDone
  <2> QED BY <2>1, <2>2, <2>3, <2>4, StateKeeps DEF IInv
<1> QED BY <1>1, <1>2, <1>3, <1>4, <1>5, <1>6, <1>7, <1>8, <1>9 DEF Next

\* The inductive invariant holds of every behaviour of the callers, the threads
\* and the action loop, with crashes between any two of their steps.
THEOREM AuthoringInvariance == Spec => []IInv
<1>1. Init => IInv
  BY InitIInv
<1>2. IInv /\ [Next]_vars => IInv'
  BY NextIInv
<1> QED BY <1>1, <1>2, PTL DEF Spec

\* The fields of the nucleus, agent and network state keep their types; a call is
\* running or queued, never both and never queued twice.
THEOREM AuthoringTypeCorrect == Spec => []TypeOK
<1>1. IInv => TypeOK
  BY DEF IInv
<1> QED BY <1>1, AuthoringInvariance, PTL

\* The pool never exceeds MAX_ZOME_CALLS and no call is queued while it has room,
\* through queueing, returning and clearing calls in any order.
THEOREM PoolAlwaysUsed == Spec => []PoolIsUsed
<1>1. IInv => PoolIsUsed
  BY DEF IInv, Pool
<1> QED BY <1>1, AuthoringInvariance, PTL

\* A call puts at most one header on the chain, across crashes too.
THEOREM OneHeaderPerCall == Spec => []CommitsOnce
<1>1. IInv => CommitsOnce
  BY DEF IInv
<1> QED BY <1>1, AuthoringInvariance, PTL

\* What was published survives a crash, as long as no save has failed.
THEOREM NothingPublishedIsLost == Spec => []PublishedIsSaved
<1>1. IInv => PublishedIsSaved
  BY DEF IInv
<1> QED BY <1>1, AuthoringInvariance, PTL

\* Content of a private entry is sent only on a fetch, while a public entry on the
\* chain refers to it or after a save has failed; private metadata never is.
THEOREM PrivateContentStays == Spec => []PrivateStaysHome
<1>1. IInv => PrivateStaysHome
  BY DEF IInv
<1> QED BY <1>1, AuthoringInvariance, PTL

\* A caller that was told of success has its entry stored and published.
THEOREM SuccessMeansPublished == Spec => []SuccessIsPublished
<1>1. IInv => SuccessIsPublished
  BY DEF IInv, SuccessIsDone, Done, Stored, ContentSent, Sent, SuccessIsPublished
<1> QED BY <1>1, AuthoringInvariance, PTL
==============================================================================
